------------------------------- MODULE Disk -------------------------------
(***************************************************************************)
(* What the storage engine keeps on disk from one process to the next:     *)
(* the value file and the log (storage/src/log.c), the sorted files, and   *)
(* how a start, a write, a lookup and a shutdown (index.c) bring the bytes *)
(* of each together; with the filter (hiraishin.c) in front of lookups.    *)
(* The process may die between any two steps, and a write(2) be short.     *)
(*                                                                         *)
(* Abstractions.  One thread, and a memtable with room for all its writes: *)
(* module Index has rotation and the merge threads.  A merge into the      *)
(* sorted files is one step, and files are never split: module Silopit     *)
(* opens it up.  The filter's hash functions are any functions.            *)
(***************************************************************************)
EXTENDS BlockFile

CONSTANTS
  Keys, Values,  \* strings
  BitsOf(_),     \* the filter's bits of a key
  None,          \* no value
  Unset,         \* what a caller has that is told of a value and given none
  MaxWrites,     \* bound: writes in all
  MaxStops       \* bound: ends of the process in all

ASSUME DiskAssumption ==
  /\ Keys \subseteq Strings \ {<<>>} /\ Values \subseteq Strings
  /\ \A s \in Keys \cup Values : Len(s) < Power[IntSize]
  /\ \A s \in Values :    \* the value file does not outgrow what lseek can say
       IntSize + MaxWrites * (IntSize + Len(s)) <= Power[LongSize] \div 2
  /\ Base > 2             \* a byte tells A from D
  /\ None \notin Seq(Byte) /\ Unset \notin Seq(Byte) \cup {None}
  /\ MaxWrites \in Nat /\ MaxStops \in Nat

VARIABLES
  values,   \* the value file's bytes, None before it is created
  log,      \* the log's bytes; no log and an empty one are alike
  files,    \* the sorted files in the order of the table
  alloc,    \* log->db_alloc
  list,     \* the memtable
  filter,   \* the bits that are set
  pc, op,   \* where the process is, or the hazard it met; the write at work
  cut,      \* history: was a log record written in part?
  writes, stops

disk    == <<values, log, files>>
process == <<alloc, list, filter, op>>
history == <<cut, writes, stops>>
vars    == <<disk, process, pc, history>>

NoOp == [key |-> None, val |-> None, off |-> 0]

Entries == [key : Strings, off : 0 .. Power[LongSize] - 1, opt : {"ADD", "DEL"}]

Init ==
  /\ values = None /\ log = <<>> /\ files = <<>>
  /\ alloc = 0 /\ list = {} /\ filter = {} /\ op = NoOp
  /\ pc = "down"
  /\ cut = FALSE /\ writes = 0 /\ stops = 0

(* What voids the promises, and is followed no further.                    *)
Hazards == {"nomagic",  \* log_new met an empty value file
            "torn",     \* _log_read met a record that is not whole
            "wide",     \* u64_from_big will not give the offset back
            "uneven",   \* _write_mmap wrote records of different lengths
            "alldel",   \* _write_mmap met a chunk of deletes only
            "tail"}     \* _flush_list met keys on both sides of the last end

(* The process ends, by itself, by __PANIC, or because it is killed. *)
EndProcess ==
  /\ pc' = "down"
  /\ alloc' = 0 /\ list' = {} /\ filter' = {} /\ op' = NoOp

-----------------------------------------------------------------------------
(* hiraishin.c *)

HiraishinGet(key) == BitsOf(key) \subseteq filter
BitsOfAll(keys)   == UNION {BitsOf(key) : key \in keys}
KeysOf(entries)   == {e.key : e \in entries}

-----------------------------------------------------------------------------
(* silopit_merge, as module Silopit promises it *)

(* meta_get: the first file whose end is not before the key. *)
Covers(fs, i, key) == /\ ~ Before(fs[i].key, key)
                      /\ i = 1 \/ Before(fs[i - 1].key, key)

Part(new, i) == {e \in new : Covers(files, i, e.key)}
Beyond(new)  == {e \in new : \A i \in DOMAIN files : ~ Covers(files, i, e.key)}

OldFirst(i, new) == ReadMmap(files[i]) \cup                       \* mutant
                    {e \in new : e.key \notin KeysOf(ReadMmap(files[i]))}
Chunk(i, new)    == {e \in ReadMmap(files[i]) : e.key \notin KeysOf(new)} \cup new

Chunks(new) == {Chunk(i, Part(new, i)) : i \in {j \in DOMAIN files : Part(new, j) # {}}}
               \cup ({Beyond(new)} \ {{}})

Merged(new) ==
  [i \in DOMAIN files |-> IF Part(new, i) = {} THEN files[i]
                          ELSE WriteMmap(Chunk(i, Part(new, i)))]
  \o (IF Beyond(new) = {} THEN <<>> ELSE <<WriteMmap(Beyond(new))>>)

(* A chunk of deletes only ends the process with a file that cannot be     *)
(* loaded; keys on both sides of the last end are not followed.            *)
SilopitMerge(new, next) ==
  \/ /\ \E chunk \in Chunks(new) : Adds(chunk) = {}
     /\ pc' = "alldel"
     /\ UNCHANGED files
  \/ /\ \A chunk \in Chunks(new) : Adds(chunk) # {}
     /\ Beyond(new) \notin {{}, new}
     /\ pc' = "tail"
     /\ UNCHANGED files
  \/ /\ \A chunk \in Chunks(new) : Adds(chunk) # {}
     /\ Beyond(new) \in {{}, new}
     /\ files' = Merged(new)
     /\ pc' = IF \E chunk \in Chunks(new) : IsUneven(chunk) THEN "uneven" ELSE next

-----------------------------------------------------------------------------
(* log.c *)

A == 1
D == 2

NoOpt(key, off, opt)  == PutInt(Len(key)) \o key \o PutLong(off)  \* mutant
Record(key, off, opt) == PutInt(Len(key)) \o key \o PutLong(off) \o <<opt>>

(* _log_read.  The record behind the first n bytes, if it is whole. *)
RecordSize(s, n) == IntSize + IntFrom(Drop(s, n)) + LongSize + 1
IsWhole(s, n)    == n + IntSize <= Len(s) /\ n + RecordSize(s, n) <= Len(s)
RecordAt(s, n) ==
  LET key == StringAt(Take(Drop(s, n + IntSize), IntFrom(Drop(s, n))), 0)
      end == n + RecordSize(s, n)
  IN Entry(key, LongFrom(SubSeq(s, end - LongSize, end - 1)),
           IF s[end] = A THEN "ADD" ELSE "DEL")

(* Where the loop ends, and the list. *)
LogRead(s) ==
  LET read[l \in [at : 0 .. Len(s), list : SUBSET Entries]] ==
        IF IsWhole(s, l.at)
        THEN read[[at   |-> l.at + RecordSize(s, l.at),
                   list |-> Insert(l.list, RecordAt(s, l.at))]]
        ELSE l
  IN read[[at |-> 0, list |-> {}]]
Replayed == LogRead(log).list
IsTorn   == LogRead(log).at # Len(log)

-----------------------------------------------------------------------------
(* index_new *)

(* silopit_new, and _silopit_load's part in the filter. *)
NoneOf(fs)   == {}                                               \* mutant
LoadedOf(fs) == UNION {KeysOf(ReadMmap(fs[i])) : i \in DOMAIN fs}

Start ==
  /\ pc = "down"
  /\ filter' = BitsOfAll(LoadedOf(files))
  /\ pc' = "values"
  /\ UNCHANGED <<disk, alloc, list, op, history>>

(* log_new.  Nothing reads the magic. *)
Magic == [i \in 1 .. IntSize |-> NUL]
BehindMagic == IntSize                                           \* mutant
SeekEnd     == Len(values)

OpenValues ==
  /\ pc = "values"
  /\ \/ /\ values = None
        /\ values' = <<>> /\ pc' = "magic"
        /\ UNCHANGED alloc
     \/ /\ values # None
        /\ alloc' = SeekEnd
        /\ pc' = IF values = <<>> THEN "nomagic" ELSE "recover"
        /\ UNCHANGED values
  /\ UNCHANGED <<log, files, list, filter, op, history>>

WriteMagic ==
  /\ pc = "magic"
  /\ values' = Magic /\ alloc' = IntSize
  /\ pc' = "recover"
  /\ UNCHANGED <<log, files, list, filter, op, history>>

LogRecovery ==
  /\ pc = "recover"
  /\ \/ /\ log = <<>>
        /\ pc' = "next"
        /\ UNCHANGED process
     \/ /\ log # <<>> /\ IsTorn
        /\ pc' = "torn"
        /\ UNCHANGED process
     \/ /\ log # <<>> /\ ~ IsTorn
        /\ list' = Replayed
        /\ pc' = "merge"
        /\ UNCHANGED <<alloc, filter, op>>
  /\ UNCHANGED <<disk, history>>

MergeRecovered ==
  /\ pc = "merge"
  /\ filter' = filter \cup BitsOfAll(KeysOf(Adds(list)))
  /\ SilopitMerge(list, "remove")
  /\ UNCHANGED <<values, log, alloc, list, op, history>>

RemoveLog ==
  /\ pc = "remove"
  /\ log' = <<>> /\ list' = {}
  /\ pc' = "next"
  /\ UNCHANGED <<values, files, alloc, filter, op, history>>

LogNext ==
  /\ pc = "next"
  /\ log' = <<>> /\ pc' = "ready"
  /\ UNCHANGED <<values, files, process, history>>

-----------------------------------------------------------------------------
(* index_add *)

Add(key, val) ==
  /\ pc = "ready" /\ writes < MaxWrites
  /\ op' = [key |-> key, val |-> val, off |-> alloc]
  /\ writes' = writes + 1
  /\ pc' = "value"
  /\ UNCHANGED <<disk, alloc, list, filter, cut, stops>>

(* log_append; a short write ends the process. *)
ValueBytes == IF op.val = None THEN <<>> ELSE PutInt(Len(op.val)) \o op.val
Opt        == IF op.val = None THEN "DEL" ELSE "ADD"
LogBytes   == Record(op.key, op.off, IF op.val = None THEN D ELSE A)

AppendValue ==
  /\ pc = "value"
  /\ values' = values \o ValueBytes
  /\ alloc'  = alloc + Len(ValueBytes)
  /\ pc' = "log"
  /\ UNCHANGED <<log, files, list, filter, op, history>>

ShortValue ==
  /\ pc = "value" /\ stops < MaxStops
  /\ \E n \in 0 .. Len(ValueBytes) - 1 : values' = values \o Take(ValueBytes, n)
  /\ EndProcess
  /\ stops' = stops + 1
  /\ UNCHANGED <<log, files, cut, writes>>

AppendRecord ==
  /\ pc = "log"
  /\ log' = log \o LogBytes
  /\ pc' = IF op.val # None /\ IsWide(op.off) THEN "wide" ELSE "insert"
  /\ UNCHANGED <<values, files, process, history>>

ShortRecord ==
  /\ pc = "log" /\ stops < MaxStops
  /\ \E n \in 1 .. Len(LogBytes) - 1 : log' = log \o Take(LogBytes, n)
  /\ EndProcess
  /\ cut' = TRUE /\ stops' = stops + 1
  /\ UNCHANGED <<values, files, writes>>

InsertKey ==
  /\ pc = "insert"
  /\ list' = Insert(list, Entry(op.key, op.off, Opt))
  /\ filter' = IF op.val = None THEN filter ELSE filter \cup BitsOf(op.key)
  /\ op' = NoOp
  /\ pc' = "ready"
  /\ UNCHANGED <<disk, alloc, history>>

-----------------------------------------------------------------------------
(* index_free, and deaths *)

Close ==
  /\ pc = "ready" /\ stops < MaxStops
  /\ \/ list = {} /\ EndProcess /\ UNCHANGED files
     \/ list # {} /\ SilopitMerge(list, "closed") /\ UNCHANGED <<alloc, list, filter, op>>
  /\ stops' = stops + 1
  /\ UNCHANGED <<values, log, cut, writes>>

Closed ==
  /\ pc = "closed"
  /\ log' = <<>>
  /\ EndProcess
  /\ UNCHANGED <<values, files, history>>

Die ==
  /\ pc \notin {"down"} \cup Hazards /\ stops < MaxStops
  /\ EndProcess
  /\ stops' = stops + 1
  /\ UNCHANGED <<disk, cut, writes>>

Stuck  == pc \in Hazards /\ UNCHANGED vars
Quiet  == pc = "ready" /\ UNCHANGED vars

-----------------------------------------------------------------------------
Open ==
  \/ Start \/ OpenValues \/ WriteMagic
  \/ LogRecovery \/ MergeRecovered \/ RemoveLog \/ LogNext

Next ==
  \/ Open
  \/ \E key \in Keys, val \in Values \cup {None} : Add(key, val)
  \/ AppendValue \/ ShortValue \/ AppendRecord \/ ShortRecord \/ InsertKey
  \/ Close \/ Closed \/ Die \/ Stuck \/ Quiet

Spec == Init /\ [][Next]_vars

(* Somebody starts the server, and a start goes on. *)
FairSpec == Spec /\ WF_vars(Open)

-----------------------------------------------------------------------------
(* index_get *)

Found(entries, key) == {e \in entries : e.key = key}

(* The value's length, its bytes, and zeros where the file has ended. *)
ReadValue(vs, off) ==
  LET rest == Drop(vs, off)
  IN IF IsNegative(off) \/ off + IntSize > Len(vs) THEN Unset
     ELSE FirstBytes(Drop(rest, IntSize), IntFrom(rest))

(* silopit_getoff *)
SilopitGetoff(fs, key) ==
  LET covering == {i \in DOMAIN fs : Covers(fs, i, key)}
  IN IF covering = {} THEN 0 ELSE ReadOffset(fs[CHOOSE i \in covering : TRUE], key)

Behind(vs, fs, key) == LET off == SilopitGetoff(fs, key)
                       IN IF off = 0 THEN None ELSE ReadValue(vs, off)

Lookup(vs, fs) ==
  [entries \in SUBSET Entries |-> [key \in Keys |->
     IF \E e \in Found(entries, key) : e.opt = "DEL" THEN None
     ELSE IF \E e \in Found(entries, key) : e.off # 0
          THEN ReadValue(vs, (CHOOSE e \in Found(entries, key) : TRUE).off)
     ELSE Behind(vs, fs, key)]]

Get(key) == IF HiraishinGet(key) THEN Lookup(values, files)[list][key] ELSE None

-----------------------------------------------------------------------------
(* Properties *)

(* Every variable holds a value of its type; and the next value goes to    *)
(* the end of the value file, wherever the process before it stopped, so   *)
(* that the offset it is given is where it is.                             *)
TypeOK ==
  /\ values = None \/ values \in Seq(Byte)
  /\ log \in Seq(Byte)
  /\ \A i \in DOMAIN files : files[i].blks \in Seq(Byte) /\ files[i].count \in Nat \ {0}
  /\ pc \in {"down", "values", "magic"} \/ alloc = Len(values)
  /\ list \subseteq Entries
  /\ op.key \in Keys \cup {None} /\ op.val \in Values \cup {None} /\ op.off \in Nat
  /\ pc \in {"down", "values", "magic", "recover", "merge", "remove", "next", "ready",
             "value", "log", "insert", "closed"} \cup Hazards
  /\ cut \in BOOLEAN /\ writes \in 0 .. MaxWrites /\ stops \in 0 .. MaxStops

(* What a start would give back for a key: the log over the sorted files. *)
Durable == IF values = None THEN [key \in Keys |-> None]
           ELSE Lookup(values, files)[Replayed]

Writing == pc \in {"value", "log", "insert"}

Promise == INSTANCE DurableMap WITH
  map  <- Durable,
  call <- [key  |-> IF Writing THEN op.key ELSE None,
           val  |-> IF Writing THEN op.val ELSE None,
           done |-> pc = "insert"],
  up   <- Writing \/ pc = "ready"

(* GET answers with exactly what a start after a death would give back:    *)
(* neither the filter nor the memtable nor a file's search (index_get)     *)
(* departs from what the bytes on disk say; one of the named events        *)
(* excepted.                                                               *)
GetsAreDurable ==
  pc = "ready" => \A key \in Keys : Get(key) = Durable[key]

(* The bytes on disk are a durable map: a write changes its key at one     *)
(* step, and no merge, start, shutdown, death or short write changes any;  *)
(* until one of the named events.                                          *)
ImplementsDurableMap ==
  Promise!Init /\ [][pc' \notin Hazards => Promise!Next]_(Promise!vars)

(* A server that has ended can be started: every log a start finds can be  *)
(* read (_log_read), unless a write of a record was cut off, and every     *)
(* file merged; but for the other events.                                  *)
OpensAgain ==
  pc = "down" ~> \/ pc = "ready" \/ cut
                 \/ pc \in Hazards \ {"torn"}
=============================================================================
