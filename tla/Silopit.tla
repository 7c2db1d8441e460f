------------------------------ MODULE Silopit ------------------------------
(***************************************************************************)
(* The sorted files of the storage engine (storage/src/silopit.c) and the  *)
(* table of them (storage/src/meta.c): one merge at a time, in chunks and  *)
(* file by file; the foreground thread's lookups, which share silopit->name*)
(* with it; process death at any step and the load that follows.           *)
(*                                                                         *)
(* Abstractions.  Keys are numbers in strcmp order and all of one length   *)
(* (records are written packed and read at a fixed stride).  An addition   *)
(* carries the number of its merge for an offset.  A file has the bytes    *)
(* that were written when the process dies, and is torn from its           *)
(* truncation until its footer is written.                                 *)
(***************************************************************************)
EXTENDS Integers, Sequences, SequencesExt, FiniteSets

CONSTANTS
  Keys,        \* the keys in use
  MaxCount,    \* SILOPIT_MAX_COUNT: records of a chunk
  Memtables,   \* the lists that may be merged: ADD, DEL or NONE for each key
  Lookups,     \* does the foreground thread look keys up?
  MaxMerges,   \* bound: merges in all
  MaxDeaths,   \* bound: process deaths in all
  MaxFiles     \* bound: file names

ASSUME SilopitAssumption ==
  /\ Keys \subseteq Nat \ {0} /\ IsFiniteSet(Keys)
  /\ MaxCount \in Nat \ {0}
  /\ Memtables \subseteq [Keys -> {"ADD", "DEL", "NONE"}]
  /\ \A t \in Memtables : \E k \in Keys : t[k] # "NONE"
  /\ Lookups \in BOOLEAN
  /\ MaxMerges \in Nat /\ MaxDeaths \in Nat /\ MaxFiles \in Nat

Names   == 0 .. MaxFiles - 1       \* n stands for "n.silopit"
NoName  == -1                      \* the empty name
NoLsn   == -1
NULL    == 0                       \* no entry of the table
Nil     == 0                       \* no key, no node, offset 0: not found
Deleted == -1

Lists == [Keys -> Int]             \* a skip list: an offset, Deleted or Nil
Empty == [k \in Keys |-> Nil]

Absent == [state |-> "absent", recs |-> Empty, end |-> Nil]
Torn   == [state |-> "torn",   recs |-> Empty, end |-> Nil]

VARIABLES
  files,      \* files[n]: its state, its records and the key in its footer
  meta,       \* silopit->meta->nodes: end, index_name and lsn
  name,       \* silopit->name, which both threads write
  lockLsn,    \* silopit->mutexer.lsn
  mutex,      \* holder of silopit->mutexer.mutex
  m,          \* locals of the merging thread
  r,          \* locals of the thread in silopit_getoff
  allowed,    \* history: the answers a lookup of each key may give
  hazards,    \* history: named events that void the promises
  merges, deaths

shared == <<name, lockLsn, mutex>>
vars   == <<files, meta, shared, m, r, allowed, hazards, merges, deaths>>

NoMerge == [pc |-> "idle", list |-> Empty, cur |-> Nil, merge |-> Empty,
            info |-> NULL, at |-> 0, lsn |-> NoLsn, rest |-> Empty, chunks |-> << >>,
            fresh |-> FALSE, fd |-> NoName, then |-> "done"]
NoRead  == [pc |-> "idle", key |-> Nil, info |-> NULL, off |-> Nil]

-----------------------------------------------------------------------------
(* Lists *)

Nodes(t)   == {k \in Keys : t[k] # Nil}
Adds(t)    == {k \in Keys : t[k] \notin {Nil, Deleted}}
Only(t, S) == [k \in Keys |-> IF k \in S THEN t[k] ELSE Nil]

(* The first n nodes of a list, and the node after k. *)
First(t, n) == {k \in Nodes(t) : Cardinality({j \in Nodes(t) : j <= k}) <= n}
AfterOrAt(t, k) ==                                               \* mutant
  IF k \in Nodes(t) THEN k ELSE Min(Nodes(t))
After(t, k) == LET later == {j \in Nodes(t) : j > k}
               IN IF later = {} THEN Nil ELSE Min(later)

(* How _flush_merge_list and _flush_new_list cut count nodes. *)
BigChunks(count) ==                                              \* mutant
  IF count <= 3 * MaxCount THEN <<count>>
  ELSE LET mul == count \div MaxCount
       IN [j \in 1 .. mul |->
             IF j = mul THEN MaxCount + (count % MaxCount) ELSE MaxCount]
RestApart(count) ==                                              \* mutant
  IF count <= 2 * MaxCount THEN <<count>>
  ELSE LET mul == count \div MaxCount
       IN [j \in 1 .. mul + 1 |->
             IF j = mul + 1 THEN count % MaxCount ELSE MaxCount]
Chunks(count) ==
  IF count <= 2 * MaxCount THEN <<count>>
  ELSE LET mul == count \div MaxCount
       IN [j \in 1 .. mul |->
             IF j = mul THEN MaxCount + (count % MaxCount) ELSE MaxCount]

-----------------------------------------------------------------------------
(* meta.c *)

(* The binary search of meta_get and meta_set: an index from 0.  The pair  *)
(* b is left and right.                                                    *)
Search(nodes, key) ==
  LET find[b \in (0 .. Len(nodes)) \X (0 .. Len(nodes))] ==
        IF b[1] >= b[2] THEN b[1]
        ELSE LET i == (b[2] - b[1]) \div 2 + b[1]
             IN CASE key = nodes[i + 1].end -> i
                  [] key < nodes[i + 1].end -> find[<<b[1], i>>]
                  [] OTHER                  -> find[<<i + 1, b[2]>>]
  IN find[<<0, Len(nodes)>>]

(* meta_get *)
MetaGet(key) ==
  LET i == Search(meta, key) IN IF i = Len(meta) THEN NULL ELSE i + 1

(* meta_set: a node whose end is there already is dropped. *)
IsRegistered(nodes, end) ==
  LET i == Search(nodes, end) IN i < Len(nodes) /\ nodes[i + 1].end = end
PutLast(nodes, i, end, file) ==                                  \* mutant
  Append(nodes, [end |-> end, name |-> file, lsn |-> Len(nodes) + 1])
PutAt(nodes, i, end, file) ==
  InsertAt(nodes, i + 1, [end |-> end, name |-> file, lsn |-> Len(nodes) + 1])
MetaSet(nodes, end, file) ==
  IF IsRegistered(nodes, end) THEN nodes
  ELSE PutAt(nodes, Search(nodes, end), end, file)

(* meta_set_byname *)
EndKept(end) == meta                                             \* mutant
MetaSetByName(end) ==
  LET same == {i \in DOMAIN meta : meta[i].name = name}
  IN IF same = {} THEN meta ELSE [meta EXCEPT ![Min(same)].end = end]

-----------------------------------------------------------------------------
Init ==
  /\ files   = [n \in Names |-> Absent]
  /\ meta    = << >>
  /\ name    = NoName
  /\ lockLsn = NoLsn
  /\ mutex   = "free"
  /\ m       = NoMerge
  /\ r       = NoRead
  /\ allowed = [k \in Keys |-> {Nil}]
  /\ hazards = {}
  /\ merges  = 0
  /\ deaths  = 0

Running == m.pc # "down"

(* The process ends: a crash, or __PANIC. *)
EndProcess(left, named) ==
  /\ files'   = left
  /\ meta'    = << >>
  /\ name'    = NoName
  /\ lockLsn' = NoLsn
  /\ mutex'   = "free"
  /\ m'       = [NoMerge EXCEPT !.pc = "down"]
  /\ r'       = NoRead
  /\ hazards' = hazards \cup named
  /\ UNCHANGED <<allowed, merges>>

-----------------------------------------------------------------------------
(* silopit_merge *)

(* Go on with chunks of nodes, the first in place or each in a new file. *)
Flush(s, nodes, lsn, fresh, then) ==
  [s EXCEPT !.pc = IF fresh THEN "name" ELSE IF lsn # NoLsn THEN "announce" ELSE "open",
            !.rest = nodes, !.chunks = Chunks(Cardinality(Nodes(nodes))),
            !.lsn = lsn, !.fresh = fresh, !.then = then]

FlushNewList(s, nodes) == Flush(s, nodes, NoLsn, TRUE, "done")

(* x, count - pos: as many nodes as are left, from the head of the list. *)
RestOfList == Only(m.list, First(m.list, Cardinality({k \in Nodes(m.list) : k >= m.cur})))

unchangedByMerge == <<r, merges, deaths>>

StartMerge(t) ==
  /\ m.pc = "idle"
  /\ merges < MaxMerges
  /\ merges' = merges + 1
  /\ LET list == [k \in Keys |-> CASE t[k] = "ADD" -> merges + 1
                                   [] t[k] = "DEL" -> Deleted
                                   [] OTHER        -> Nil]
         s == [NoMerge EXCEPT !.list = list]
     IN m' = IF meta = << >> THEN FlushNewList(s, list)
             ELSE [s EXCEPT !.pc = "walk", !.cur = After(list, Nil)]
  /\ allowed' = [k \in Keys |-> CASE t[k] = "ADD" -> allowed[k] \cup {merges + 1}
                                  [] t[k] = "DEL" -> allowed[k] \cup {Nil}
                                  [] OTHER        -> allowed[k]]
  /\ UNCHANGED <<files, meta, shared, r, hazards, deaths>>

(* jikukan_insert_node of the current node *)
UnlessThere(t) ==                                                \* mutant
  IF t[m.cur] = Nil THEN [t EXCEPT ![m.cur] = m.list[m.cur]] ELSE t
Inserted(t) == [t EXCEPT ![m.cur] = m.list[m.cur]]

(* One turn of _flush_list's loop, up to the first thing another thread    *)
(* can see.                                                                *)
Walk ==
  /\ m.pc = "walk" /\ m.cur # Nil
  /\ LET info == MetaGet(m.cur)
     IN \/ /\ info = NULL
           /\ m' = IF m.merge = Empty THEN FlushNewList(m, RestOfList)
                   ELSE Flush(m, m.merge, NoLsn, FALSE, "newlist")
           /\ hazards' = IF m.cur = After(m.list, Nil) THEN hazards
                         ELSE hazards \cup {"tail"}
        \/ /\ info # NULL /\ name = meta[info].name
           /\ m' = IF m.merge = Empty THEN [m EXCEPT !.pc = "read", !.info = info]
                   ELSE [m EXCEPT !.merge = Inserted(m.merge), !.info = info,
                                  !.cur = After(m.list, m.cur)]
           /\ UNCHANGED hazards
        \/ /\ info # NULL /\ name # meta[info].name
           /\ m' = LET s == [m EXCEPT !.info = info]
                   IN IF m.merge = Empty THEN [s EXCEPT !.pc = "switch"]
                      ELSE Flush(s, m.merge, meta[info].lsn, FALSE, "switch")
           /\ UNCHANGED hazards
  /\ UNCHANGED <<files, meta, shared, allowed, unchangedByMerge>>

WalkDone ==
  /\ m.pc = "walk" /\ m.cur = Nil
  /\ m' = Flush(m, m.merge, meta[m.info].lsn, FALSE, "done")
  /\ UNCHANGED <<files, meta, shared, allowed, hazards, unchangedByMerge>>

(* meta_info may have moved while a file was split. *)
Switch ==
  /\ m.pc = "switch"
  /\ name'    = meta[m.info].name
  /\ m'       = [m EXCEPT !.pc = "read"]
  /\ hazards' = IF m.info = MetaGet(m.cur) THEN hazards ELSE hazards \cup {"stale"}
  /\ UNCHANGED <<files, meta, lockLsn, mutex, allowed, unchangedByMerge>>

(* _read_mmap, and the current node goes in. *)
ReadMmap ==
  /\ m.pc = "read"
  /\ \/ /\ files[name].state = "ok"
        /\ m' = [m EXCEPT !.pc = "walk", !.cur = After(m.list, m.cur),
                   !.merge = Inserted(files[name].recs)]
        /\ UNCHANGED <<files, meta, shared, allowed, hazards, unchangedByMerge>>
     \/ /\ files[name].state # "ok"
        /\ EndProcess(files, {}) /\ UNCHANGED deaths

-----------------------------------------------------------------------------
(* _write_mmap, chunk by chunk *)

NameFile ==
  /\ m.pc = "name"
  /\ Len(meta) \in Names
  /\ name' = Len(meta)
  /\ m'    = [m EXCEPT !.pc = "open"]
  /\ UNCHANGED <<files, meta, lockLsn, mutex, allowed, hazards, unchangedByMerge>>

(* silopit->mutexer.mutex *)
NotWaiting(who) == mutex' = who                                  \* mutant
Take(who) == mutex = "free" /\ mutex' = who

Announce ==
  /\ m.pc = "announce"
  /\ lockLsn' = m.lsn
  /\ m' = [m EXCEPT !.pc = "lock"]
  /\ UNCHANGED <<files, meta, name, mutex, allowed, hazards, unchangedByMerge>>

Lock ==
  /\ m.pc = "lock"
  /\ Take("merge")
  /\ m' = [m EXCEPT !.pc = "open"]
  /\ UNCHANGED <<files, meta, name, lockLsn, allowed, hazards, unchangedByMerge>>

Chunk == Only(m.rest, First(m.rest, Head(m.chunks)))

(* Nothing but deletes makes a mapping of no bytes, and __PANIC ends the   *)
(* process with the file already truncated.                                *)
Open ==
  /\ m.pc = "open"
  /\ \/ /\ Adds(Chunk) # {}
        /\ files' = [files EXCEPT ![name] = Torn]
        /\ m' = [m EXCEPT !.pc = "write", !.fd = name]
        /\ UNCHANGED <<meta, shared, allowed, hazards, unchangedByMerge>>
     \/ /\ Adds(Chunk) = {}
        /\ EndProcess([files EXCEPT ![name] = Torn], {"alldel"}) /\ UNCHANGED deaths

EndOf(t) == Max(Nodes(t))

Write ==
  /\ m.pc = "write"
  /\ files' = [files EXCEPT ![m.fd] =
                 [state |-> "ok", recs |-> Only(Chunk, Adds(Chunk)), end |-> EndOf(Chunk)]]
  /\ m' = [m EXCEPT !.pc = IF m.fresh /\ ~ IsRegistered(meta, EndOf(Chunk)) THEN "grow" ELSE "register"]
  /\ UNCHANGED <<meta, shared, allowed, hazards, unchangedByMerge>>

(* meta->size++, before the nodes are moved. *)
Grow ==
  /\ m.pc = "grow"
  /\ meta' = Append(meta, [end |-> Nil, name |-> NoName, lsn |-> 0])
  /\ m' = [m EXCEPT !.pc = "place", !.at = Search(meta, EndOf(Chunk))]
  /\ UNCHANGED <<files, shared, allowed, hazards, unchangedByMerge>>

(* After a chunk: the next one, or what the flush was part of. *)
Continue(s) ==
  IF s.chunks # << >> THEN [s EXCEPT !.pc = "name", !.fresh = TRUE]
  ELSE CASE s.then = "switch"  -> [s EXCEPT !.pc = "switch", !.merge = Empty]
         [] s.then = "newlist" -> FlushNewList([s EXCEPT !.merge = Empty], RestOfList)
         [] OTHER              -> [s EXCEPT !.pc = "end"]

AfterChunk ==
  LET s == [m EXCEPT !.rest = Only(m.rest, Nodes(m.rest) \ Nodes(Chunk)),
                     !.chunks = Tail(m.chunks), !.fd = NoName]
  IN IF m.lsn # NoLsn /\ ~ m.fresh THEN [s EXCEPT !.pc = "unlock"] ELSE Continue(s)

(* meta_set: the node goes where its end belongs. *)
Place ==
  /\ m.pc = "place"
  /\ meta' = PutAt(Front(meta), m.at, EndOf(Chunk), name)
  /\ m' = AfterChunk
  /\ UNCHANGED <<files, shared, allowed, hazards, unchangedByMerge>>

(* meta_set_byname, or meta_set of an end that is there already. *)
Register ==
  /\ m.pc = "register"
  /\ meta' = IF m.fresh THEN meta ELSE MetaSetByName(EndOf(Chunk))
  /\ m' = AfterChunk
  /\ UNCHANGED <<files, shared, allowed, hazards, unchangedByMerge>>

Unlock ==
  /\ m.pc = "unlock"
  /\ mutex'   = "free"
  /\ lockLsn' = NoLsn
  /\ m'       = Continue(m)
  /\ UNCHANGED <<files, meta, name, allowed, hazards, unchangedByMerge>>

(* jikukan_free of the memtable, and silopit_merge returns. *)
EndMerge ==
  /\ m.pc = "end"
  /\ m' = NoMerge
  /\ allowed' = [k \in Keys |-> CASE m.list[k] = Nil     -> allowed[k]
                                  [] m.list[k] = Deleted -> {Nil}
                                  [] OTHER               -> {m.list[k]}]
  /\ UNCHANGED <<files, meta, shared, hazards, unchangedByMerge>>

-----------------------------------------------------------------------------
(* silopit_getoff, by the foreground thread *)

(* A file is being split: its first chunk has been written over it, and    *)
(* the nodes of the others are not all in the table yet.                   *)
Splitting ==
  /\ m.merge # Empty
  /\ \/ m.fresh /\ m.pc \in {"name", "open", "write", "grow", "place", "register"}
     \/ ~ m.fresh /\ Len(m.chunks) > 1 /\ m.pc \in {"write", "register"}
     \/ m.chunks # << >> /\ m.pc = "unlock"

(* Records that were found before this merge and are in no file now.       *)
Homeless == {k \in Keys : /\ m.merge[k] \notin {Nil, Deleted}
                          /\ Nil \notin allowed[k]
                          /\ \A n \in Names : files[n].recs[k] = Nil}

unchangedByGet == <<files, meta, lockLsn, m, allowed, merges, deaths>>

(* While meta_set is at work the table ends in an empty node, which the    *)
(* search takes for a smaller key.                                         *)
Overshot(k) == /\ m.pc = "place"
               /\ Search(Front(meta), k) < Len(meta) - 1
               /\ Search(meta, k) # Search(Front(meta), k)

Get(k) ==
  /\ Lookups /\ Running
  /\ r.pc = "idle"
  /\ r' = LET info == MetaGet(k)
          IN [NoRead EXCEPT !.pc = IF info = NULL THEN "got" ELSE "name",
                            !.key = k, !.info = info]
  /\ hazards' = hazards \cup (IF Overshot(k) THEN {"overshot"} ELSE {})
                        \cup (IF Splitting THEN {"split"} ELSE {})
  /\ UNCHANGED <<name, mutex, unchangedByGet>>

(* The name goes where the merge has the name of its own file. *)
GetName ==
  /\ r.pc = "name"
  /\ name' = meta[r.info].name
  /\ r' = [r EXCEPT !.pc = "lsn"]
  /\ hazards' = IF m.pc # "idle" /\ name' # name THEN hazards \cup {"clobbered"} ELSE hazards
  /\ UNCHANGED <<mutex, unchangedByGet>>

GetLsn ==
  /\ r.pc = "lsn"
  /\ r' = [r EXCEPT !.pc = IF lockLsn = meta[r.info].lsn THEN "lock" ELSE "read"]
  /\ UNCHANGED <<name, mutex, hazards, unchangedByGet>>

GetLock ==
  /\ r.pc = "lock"
  /\ Take("get")
  /\ r' = [r EXCEPT !.pc = "locked"]
  /\ UNCHANGED <<name, hazards, unchangedByGet>>

(* _read_offset.  A torn file has no footer, or bytes that are none: the   *)
(* search finds nothing, or the mapping ends under it.                     *)
Misled == MetaGet(r.key) = NULL \/ name # meta[MetaGet(r.key)].name

GetRead ==
  /\ r.pc \in {"read", "locked"}
  /\ LET named == (IF Misled THEN {"misled"} ELSE {})
            \cup (IF Splitting THEN {"split"} ELSE {})
            \cup (IF r.pc = "read" /\ files[name].state = "torn" THEN {"unlocked"} ELSE {})
     IN \/ /\ r' = [r EXCEPT !.pc = "got", !.off = files[name].recs[r.key]]
           /\ mutex' = IF r.pc = "locked" THEN "free" ELSE mutex
           /\ hazards' = hazards \cup named
           /\ UNCHANGED <<name, unchangedByGet>>
        \/ /\ files[name].state = "torn"
           /\ EndProcess(files, named) /\ UNCHANGED deaths

GetDone ==
  /\ r.pc = "got"
  /\ r' = NoRead
  /\ UNCHANGED <<name, mutex, hazards, unchangedByGet>>

-----------------------------------------------------------------------------
(* Death and silopit_new *)

Present == {n \in Names : files[n].state # "absent"}
IsTorn  == \E n \in Names : files[n].state = "torn"

Die ==
  /\ Running
  /\ deaths < MaxDeaths /\ deaths' = deaths + 1
  /\ EndProcess(files, (IF IsTorn THEN {"torn"} ELSE {})
                  \cup (IF Homeless # {} THEN {"homeless"} ELSE {}))

(* _silopit_load, in the order of readdir; a file without a footer is a    *)
(* __PANIC, and the index does not open.                                   *)
Load ==
  /\ m.pc = "down"
  /\ ~ IsTorn
  /\ \E order \in SetToSeqs(Present) :
       meta' = FoldLeft(LAMBDA nodes, n : MetaSet(nodes, files[n].end, n), << >>, order)
  /\ m' = NoMerge
  /\ UNCHANGED <<files, shared, r, allowed, hazards, merges, deaths>>

Refused == m.pc = "down" /\ IsTorn /\ UNCHANGED vars

(* Nobody need call. *)
Quiet == m.pc = "idle" /\ r.pc = "idle" /\ UNCHANGED vars

-----------------------------------------------------------------------------
Merge  == Walk \/ WalkDone \/ Switch \/ ReadMmap \/ NameFile \/ Announce \/ Lock
          \/ Open \/ Write \/ Grow \/ Place \/ Register \/ Unlock \/ EndMerge
Getoff == GetName \/ GetLsn \/ GetLock \/ GetRead \/ GetDone

Next ==
  \/ \E t \in Memtables : StartMerge(t)
  \/ \E k \in Keys : Get(k)
  \/ Merge \/ Getoff \/ Die \/ Load \/ Refused \/ Quiet

Spec     == Init /\ [][Next]_vars

(* Both threads run and the process is started again; a thread that keeps  *)
(* asking for the mutex gets it.                                           *)
FairSpec == Spec /\ WF_vars(Merge) /\ SF_vars(Lock) /\ WF_vars(Getoff) /\ WF_vars(Load)

-----------------------------------------------------------------------------
(* Properties *)

Table    == IF m.pc = "place" THEN Front(meta) ELSE meta
Finished == m.pc = "idle"
Find(k)  == IF MetaGet(k) = NULL THEN Nil ELSE files[meta[MetaGet(k)].name].recs[k]

MergePcs == {"idle", "walk", "switch", "read", "name", "announce", "lock", "open",
             "write", "grow", "place", "register", "unlock", "end", "down"}
ReadPcs  == {"idle", "name", "lsn", "lock", "read", "locked", "got"}
Blocks   == [state : {"absent", "torn", "ok"}, recs : [Keys -> Nat], end : Keys \cup {Nil}]
Entries  == [end : Keys, name : Names, lsn : Nat \ {0}]

(* Every variable holds a value of its type: table entries name files, the *)
(* chunks still to write have a node each and are no larger than a file    *)
(* may be, and the pointers into the table point at an entry.              *)
TypeOK ==
  /\ files \in [Names -> Blocks]
  /\ Table \in Seq(Entries)
  /\ name \in Names \cup {NoName}
  /\ lockLsn \in Nat \cup {NoLsn}
  /\ mutex \in {"free", "merge", "get"}
  /\ m.pc \in MergePcs /\ r.pc \in ReadPcs
  /\ {m.list, m.merge, m.rest} \subseteq Lists
  /\ m.chunks \in Seq(1 .. 2 * MaxCount)
  /\ m.info \in 0 .. Len(meta) /\ r.info \in 0 .. Len(meta)
  /\ allowed \in [Keys -> SUBSET Nat]

(* The ends of the table ascend and no file is in it twice, so that the    *)
(* binary search finds the one file a key belongs to (meta_set and         *)
(* meta_set_byname); a merge that loses its place in the table (stale), one*)
(* that writes old keys to a new file (tail) and a lookup that changes the *)
(* merge's file name (clobbered) excepted.                                 *)
TableIsSorted ==
  hazards \cap {"tail", "stale", "clobbered"} = {} =>
    \A i, j \in DOMAIN Table :
      i < j => Table[i].end < Table[j].end /\ Table[i].name # Table[j].name

(* Between merges a lookup finds what the last merges wrote, and after a   *)
(* death in the middle of one, for each key what was there before or what  *)
(* the merge was writing; the same exceptions, and a death while a file is *)
(* being split (homeless).                                                 *)
MergesAreComplete ==
  Finished /\ hazards \cap {"tail", "stale", "clobbered", "homeless"} = {}
    => \A k \in Keys : Find(k) \in allowed[k]

(* No file outgrows two chunks or is left without a record: _read_mmap and *)
(* silopit_getoff map files whole.                                         *)
FilesAreSmall ==
  \A n \in Names : files[n].state = "ok" =>
    Cardinality(Nodes(files[n].recs)) \in 1 .. 2 * MaxCount

(* A lookup in the middle of a merge answers with the key's old or new     *)
(* offset, unless one of the races named in hazards has happened.          *)
LookupsAreCurrent ==
  [][r.pc # "got" /\ r'.pc = "got" /\ hazards' = {} => r'.off \in allowed[r'.key]]_vars

(* A merge ends, whatever lookups do to its lock and its file name.        *)
MergeEnds == m.pc \notin {"idle", "down"} ~> m.pc \in {"idle", "down"}

-----------------------------------------------------------------------------
(* What the code does not keep *)

(* A key that was set is found: SET, then GET (README.md:75-78).           *)
StoredIsFound == Finished => \A k \in Keys : Find(k) \in allowed[k]
=============================================================================
