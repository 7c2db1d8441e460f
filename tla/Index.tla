------------------------------- MODULE Index -------------------------------
(***************************************************************************)
(* The storage engine's orchestration (storage/src/index.c) with the part  *)
(* of storage/src/log.c it drives: one foreground thread that appends to   *)
(* the logs, fills the memtable, rotates it and answers lookups; one       *)
(* detached merge thread per rotation; a merge mutex; process death at any *)
(* step, clean shutdown, and recovery when the index is opened again.      *)
(*                                                                         *)
(* Abstractions.  A value is identified by the offset log_append gave it,  *)
(* and the value log's size counts records, not bytes.  The sorted files   *)
(* are the map "store" from a key to the offset silopit_getoff finds; one  *)
(* silopit_merge applies a whole memtable to it in one step (module        *)
(* Silopit opens that step up).  The bloom filter is the set of keys whose *)
(* bits are set; more bits than that only send a lookup further down.  A   *)
(* death is that of the process: what write(2) returned from stays.        *)
(***************************************************************************)
EXTENDS Integers, Sequences, FiniteSets

CONSTANTS
  Keys,          \* the keys clients use
  NoKey,         \* no key
  MaxList,       \* max_mtbl_size: entries a memtable holds
  IsLog,         \* tolog: is the write-ahead log on? (server 1, benchmark 0)
  PromptMerge,   \* do merge threads reach merge_mutex before the next rotation?
  MaxLsn,        \* bound: rotations per process lifetime
  MaxWrites,     \* bound: index_add calls in all
  MaxDeaths      \* bound: crashes and shutdowns in all

ASSUME IndexAssumption ==
  /\ NoKey \notin Keys
  /\ IsFiniteSet(Keys)
  /\ MaxList \in Nat \ {0}
  /\ IsLog \in BOOLEAN
  /\ PromptMerge \in BOOLEAN
  /\ MaxLsn \in Nat
  /\ MaxWrites \in Nat
  /\ MaxDeaths \in Nat

Lsns   == 0 .. MaxLsn
NoList == -1                            \* a NULL memtable pointer
NoJob  == -1                            \* merge_mutex is free

Opts    == {"ADD", "DEL"}
Entries == [off : Nat, opt : Opts \cup {"NONE"}]
None    == [off |-> 0, opt |-> "NONE"]  \* no node for this key
Tables  == [Keys -> Entries]
Empty   == [k \in Keys |-> None]        \* jikukan_new
Records == [key : Keys, off : Nat, opt : Opts]
Entry(r) == [off |-> r.off, opt |-> r.opt]

VARIABLES
  (* on disk *)
  dbAlloc,   \* db_alloc: the offset the next value is written at
  files,     \* the n for which n.log exists
  logs,      \* logs[n]: the records of n.log, << >> when there is no such file
  store,     \* what the sorted files answer: the offset of a key, 0 for none
  (* in memory; a memtable is named by the lsn the index had when it was made *)
  lsn,       \* indx->lsn; the current memtable indx->list is tables[lsn]
  tables,    \* the memtables
  freed,     \* memtables given to jikukan_free
  park,      \* indx->park: the memtable and the log number handed to merging
  mutex,     \* holder of merge_mutex
  jobs,      \* jobs[n]: the merge thread made when memtable n was rotated out
  bloom,     \* keys whose bits the hiraishin filter has set
  pc,        \* where the foreground thread is
  op,        \* the operation it is in: key, offset, kind, where the answer came from
  replay,    \* log_recovery: the logs it chose, and the next record to read
  (* history, read by properties and bounds only *)
  latest,    \* the last offset written for a key, 0 after a delete
  trigger,   \* trigger[n]: the write whose arrival made memtable n
  hazards,   \* named events after which recovery promises nothing
  writes,    \* index_add calls so far
  deaths     \* crashes and shutdowns so far

disk   == <<dbAlloc, files, logs, store>>
memory == <<lsn, tables, freed, park, mutex, jobs, bloom, trigger>>
vars   == <<disk, memory, pc, op, replay, latest, hazards, writes, deaths>>

JobIdle  == [pc |-> "none", lsn |-> 0, list |-> NoList]
NoOp     == [key |-> NoKey, off |-> 0, opt |-> "NONE", via |-> "none"]
NoReplay == [chosen |-> << >>, log |-> 1, rec |-> 1]

-----------------------------------------------------------------------------
(* Helpers *)

Count(t)   == Cardinality({k \in Keys : t[k].opt # "NONE"})
NotFull(t) == Count(t) < MaxList                             \* jikukan_notfull

(* jikukan_insert: a full list takes nothing, not even an update in place. *)
Inserted(t, r) == IF NotFull(t) THEN [t EXCEPT ![r.key] = Entry(r)] ELSE t

(* silopit_merge as the lookups see it: additions take the new offset and  *)
(* deleted keys disappear.                                                 *)
MergedKeepingDeleted(s, t) ==                                    \* mutant
  [k \in Keys |-> IF t[k].opt = "ADD" THEN t[k].off ELSE s[k]]
MergedMinusOne(s, t) ==                                          \* mutant
  [k \in Keys |-> CASE t[k].opt = "ADD" -> t[k].off
                    [] t[k].opt = "DEL" -> -1
                    [] OTHER            -> s[k]]
Merged(s, t) ==
  [k \in Keys |-> CASE t[k].opt = "ADD" -> t[k].off
                    [] t[k].opt = "DEL" -> 0
                    [] OTHER            -> s[k]]

Adds(t) == {k \in Keys : t[k].opt = "ADD"}
InStore == {k \in Keys : store[k] # 0}

KeysOf(log) == {log[i].key : i \in DOMAIN log}

(* The last record log holds for key k is e. *)
LastRecord(log, k, e) ==
  \E i \in DOMAIN log :
    /\ log[i].key = k /\ Entry(log[i]) = e
    /\ \A j \in DOMAIN log : j > i => log[j].key # k

(* Will a death now forget the write that made memtable n?  log_append put *)
(* its record in the log of memtable n-1, before the rotation; that log is *)
(* removed when memtable n-1 is merged.                                    *)
Unlogged(n) ==
  /\ n \notin freed
  /\ n - 1 \notin files
  /\ trigger[n].key # NoKey
  /\ \/ tables[n][trigger[n].key] = Entry(trigger[n])
     \/ pc = "insert" /\ n = lsn
  /\ ~ LastRecord(logs[n], trigger[n].key, Entry(trigger[n]))

(* Does log n survive although a younger memtable, already merged, wrote   *)
(* one of its keys, and no log has that write any more?  The replay of log *)
(* n would undo it.                                                        *)
Outlives(n) ==
  \E m \in freed : \E k \in KeysOf(logs[n]) :
    /\ m > n /\ tables[m][k] # None
    /\ \A j \in files : j >= n => ~ LastRecord(logs[j], k, tables[m][k])

Writing == pc \in {"add", "spawn", "insert"}     \* a write that is in no memtable yet

DeathHazards ==
  (IF IsLog /\ \E n \in Lsns : Unlogged(n) THEN {"unlogged"} ELSE {}) \cup
  (IF IsLog /\ \E n \in files : Outlives(n) THEN {"outlived"} ELSE {}) \cup
  (IF ~ IsLog /\ (Writing \/ \E n \in Lsns \ freed : tables[n] # Empty)
   THEN {"nolog"} ELSE {})

-----------------------------------------------------------------------------
(* index_new on an empty directory. *)
Init ==
  /\ dbAlloc = 1
  /\ files   = {0}
  /\ logs    = [n \in Lsns |-> << >>]
  /\ store   = [k \in Keys |-> 0]
  /\ lsn     = 0
  /\ tables  = [n \in Lsns |-> Empty]
  /\ freed   = {}
  /\ park    = [list |-> NoList, lsn |-> 0]
  /\ mutex   = NoJob
  /\ jobs    = [n \in Lsns |-> JobIdle]
  /\ bloom   = {}
  /\ trigger = [n \in Lsns |-> NoOp]
  /\ pc      = "idle"
  /\ op      = NoOp
  /\ replay  = NoReplay
  /\ latest  = [k \in Keys |-> 0]
  /\ hazards = {}
  /\ writes  = 0
  /\ deaths  = 0

(* The process is gone; its threads and memory with it. *)
Die ==
  /\ deaths < MaxDeaths
  /\ deaths'  = deaths + 1
  /\ hazards' = hazards \cup DeathHazards
  /\ lsn'     = 0
  /\ tables'  = [n \in Lsns |-> Empty]
  /\ freed'   = {}
  /\ park'    = [list |-> NoList, lsn |-> 0]
  /\ mutex'   = NoJob
  /\ jobs'    = [n \in Lsns |-> JobIdle]
  /\ bloom'   = {}
  /\ trigger' = [n \in Lsns |-> NoOp]
  /\ pc'      = "down"
  /\ op'      = NoOp
  /\ replay'  = NoReplay
  /\ UNCHANGED <<disk, latest, writes>>

-----------------------------------------------------------------------------
(* index_add, foreground thread *)

(* log_append: the value at the end of the value log, then the record in   *)
(* the current log.  A delete writes no value and its offset is the one    *)
(* the next value will get.                                                *)
LogAppend(k, opt) ==
  /\ pc = "idle"
  /\ writes < MaxWrites
  /\ writes'  = writes + 1
  /\ op'      = [key |-> k, off |-> dbAlloc, opt |-> opt, via |-> "none"]
  /\ dbAlloc' = IF opt = "ADD" THEN dbAlloc + 1 ELSE dbAlloc
  /\ logs'    = IF IsLog
                THEN [logs EXCEPT ![lsn] =
                        Append(@, [key |-> k, off |-> dbAlloc, opt |-> opt])]
                ELSE logs
  /\ latest'  = [latest EXCEPT ![k] = IF opt = "ADD" THEN dbAlloc ELSE 0]
  /\ pc'      = "add"
  /\ UNCHANGED <<files, store, memory, replay, hazards, deaths>>

(* merge_mutex *)
NotTaken(n) == mutex' = mutex                                    \* mutant
Lock(n) == mutex = NoJob /\ mutex' = n
NotReleased == mutex' = mutex                                    \* mutant
Unlock == mutex' = NoJob

ParkAnyTime ==                                                   \* mutant
  \A n \in Lsns : jobs[n].pc \notin {"created", "gotlsn", "gotlist"}
MayPark ==
  /\ mutex = NoJob
  /\ PromptMerge => \A n \in Lsns : jobs[n].pc \notin {"created", "gotlsn", "gotlist"}

(* The memtable is full: wait for merge_mutex and hand the memtable over.  *)
Park ==
  /\ pc = "add"
  /\ ~ NotFull(tables[lsn])
  /\ lsn < MaxLsn
  /\ MayPark
  /\ park' = [list |-> lsn, lsn |-> lsn]
  /\ pc'   = "spawn"
  /\ UNCHANGED <<disk, lsn, tables, freed, mutex, jobs, bloom, trigger, op,
                 replay, latest, hazards, writes, deaths>>

(* pthread_create *)
NoThread(n) == jobs' = jobs                                      \* mutant
NewThread(n) == jobs' = [jobs EXCEPT ![n].pc = "created"]

(* The thread, a new memtable, and log_next for the next log.              *)
Spawn ==
  /\ pc = "spawn"
  /\ NewThread(lsn)
  /\ lsn'     = lsn + 1
  /\ trigger' = [trigger EXCEPT ![lsn + 1] = op]
  /\ logs'    = [logs EXCEPT ![lsn + 1] = << >>]
  /\ files'   = files \cup {lsn + 1}
  /\ pc'      = "insert"
  /\ UNCHANGED <<dbAlloc, store, tables, freed, park, mutex, bloom, op,
                 replay, latest, hazards, writes, deaths>>

(* jikukan_insert into the current memtable, and hiraishin_add of an ADD.  *)
Insert ==
  /\ \/ pc = "add" /\ NotFull(tables[lsn])
     \/ pc = "insert"
  /\ tables' = [tables EXCEPT ![lsn] = Inserted(@, op)]
  /\ bloom'  = IF op.opt = "ADD" THEN bloom \cup {op.key} ELSE bloom
  /\ pc'     = "idle"
  /\ op'     = NoOp
  /\ UNCHANGED <<disk, lsn, freed, park, mutex, jobs, trigger, replay, latest,
                 hazards, writes, deaths>>

-----------------------------------------------------------------------------
(* index_get, foreground thread; "got" holds the answer for a moment *)

Answer(k, off, via) ==
  /\ pc' = "got"
  /\ op' = [key |-> k, off |-> off, opt |-> "NONE", via |-> via]

unchangedByGet == <<disk, memory, replay, latest, hazards, writes, deaths>>

(* The filter, then the current memtable. *)
GetList(k) ==
  /\ pc = "idle"
  /\ LET e == tables[lsn][k]
     IN \/ k \notin bloom /\ Answer(k, 0, "bloom")
        \/ k \in bloom /\ e.opt = "ADD" /\ Answer(k, e.off, "list")
        \/ k \in bloom /\ e.opt = "DEL" /\ Answer(k, 0, "list")
        \/ /\ k \in bloom /\ e.opt = "NONE"
           /\ pc' = "getpark"
           /\ op' = [NoOp EXCEPT !.key = k]
  /\ UNCHANGED unchangedByGet

(* merge_list = indx->park->list, read without the mutex. *)
GetPark ==
  /\ pc = "getpark"
  /\ \/ /\ park.list = NoList
        /\ pc' = "getsilo"
        /\ op' = op
     \/ /\ park.list # NoList
        /\ pc' = "getparked"
        /\ op' = [op EXCEPT !.off = park.list]
  /\ UNCHANGED unchangedByGet

(* Search the parked memtable through the pointer just read; a deleted     *)
(* node falls through to the sorted files.  Freed memory still holds the   *)
(* node, holds something else (the search misses), or kills the process.   *)
GetParked ==
  /\ pc = "getparked"
  /\ LET e     == tables[op.off][op.key]
         stale == op.off \in freed
     IN \/ e.opt = "ADD" /\ Answer(op.key, e.off, IF stale THEN "freed" ELSE "park")
        \/ /\ e.opt # "ADD" \/ stale
           /\ pc' = "getsilo"
           /\ op' = [op EXCEPT !.off = 0,
                               !.via = IF e.opt = "DEL" THEN "parkdel" ELSE "none"]
        \/ stale /\ pc' = "fault" /\ op' = NoOp
  /\ UNCHANGED unchangedByGet

(* silopit_getoff *)
GetSilo ==
  /\ pc = "getsilo"
  /\ Answer(op.key, store[op.key], IF op.via = "none" THEN "silo" ELSE op.via)
  /\ UNCHANGED unchangedByGet

GetDone ==
  /\ pc = "got"
  /\ pc' = "idle"
  /\ op' = NoOp
  /\ UNCHANGED unchangedByGet

-----------------------------------------------------------------------------
(* _merge_job, one detached thread per rotation; it lives while the        *)
(* process does.                                                           *)
Running == pc \notin {"down", "fault"}

unchangedByJob == <<dbAlloc, lsn, tables, bloom, trigger, replay, latest,
                    hazards, writes, deaths>>

(* lsn = indx->park->lsn *)
JobReadLsn(n) ==
  /\ Running /\ jobs[n].pc = "created"
  /\ jobs' = [jobs EXCEPT ![n] = [@ EXCEPT !.pc = "gotlsn", !.lsn = park.lsn]]
  /\ UNCHANGED <<unchangedByJob, files, logs, store, freed, park, mutex, pc, op>>

(* list = indx->park->list and list->count: the check for NULL comes later *)
(* than the first use, so a NULL pointer kills the process, and a freed    *)
(* memtable may.                                                           *)
JobReadList(n) ==
  /\ Running /\ jobs[n].pc = "gotlsn"
  /\ \/ /\ park.list # NoList
        /\ jobs' = [jobs EXCEPT ![n] = [@ EXCEPT !.pc = "gotlist", !.list = park.list]]
        /\ UNCHANGED <<pc, op>>
     \/ /\ park.list \in freed \cup {NoList}
        /\ pc' = "fault" /\ op' = NoOp
        /\ jobs' = jobs
  /\ UNCHANGED <<unchangedByJob, files, logs, store, freed, park, mutex>>

JobLock(n) ==
  /\ Running /\ jobs[n].pc = "gotlist"
  /\ Lock(n)
  /\ jobs' = [jobs EXCEPT ![n].pc = "locked"]
  /\ UNCHANGED <<unchangedByJob, files, logs, store, freed, park, pc, op>>

(* silopit_merge, which also frees the memtable; merging a freed memtable  *)
(* frees it twice.                                                         *)
JobMerge(n) ==
  /\ Running /\ jobs[n].pc = "locked"
  /\ \/ /\ jobs[n].list \in Lsns \ freed
        /\ store' = Merged(store, tables[jobs[n].list])
        /\ freed' = freed \cup {jobs[n].list}
        /\ jobs'  = [jobs EXCEPT ![n].pc = "merged"]
        /\ UNCHANGED <<pc, op>>
     \/ /\ jobs[n].list \in freed
        /\ pc' = "fault" /\ op' = NoOp
        /\ UNCHANGED <<store, freed, jobs>>
  /\ UNCHANGED <<unchangedByJob, files, logs, park, mutex>>

(* indx->park->list = NULL, and the mutex is released. *)
JobUnpark(n) ==
  /\ Running /\ jobs[n].pc = "merged"
  /\ park'  = [park EXCEPT !.list = NoList]
  /\ Unlock
  /\ jobs'  = [jobs EXCEPT ![n].pc = "unparked"]
  /\ UNCHANGED <<unchangedByJob, files, logs, store, freed, pc, op>>

(* log_remove(log, lsn), outside the mutex. *)
CurrentLog(n) == lsn                                             \* mutant
LogOf(n) == jobs[n].lsn

JobLogRemove(n) ==
  /\ Running /\ jobs[n].pc = "unparked"
  /\ files' = files \ {LogOf(n)}
  /\ logs'  = [logs EXCEPT ![LogOf(n)] = << >>]
  /\ jobs'  = [jobs EXCEPT ![n].pc = "done"]
  /\ UNCHANGED <<unchangedByJob, store, freed, park, mutex, pc, op>>

Job(n) == \/ JobReadLsn(n) \/ JobReadList(n) \/ JobLock(n)
          \/ JobMerge(n) \/ JobUnpark(n) \/ JobLogRemove(n)

-----------------------------------------------------------------------------
(* index_free, foreground thread *)

unchangedByClose == <<dbAlloc, lsn, tables, park, mutex, jobs, bloom, trigger, op,
                      replay, latest, writes, deaths>>

(* Lock and unlock merge_mutex; the merge that follows is not under it. *)
CloseWait ==
  /\ pc = "idle"
  /\ deaths < MaxDeaths
  /\ mutex = NoJob
  /\ pc' = IF Count(tables[lsn]) > 0 THEN "closemerge" ELSE "closing"
  /\ UNCHANGED <<unchangedByClose, files, logs, store, freed, hazards>>

(* An older memtable whose thread has not merged it yet is overtaken. *)
CloseMerge ==
  /\ pc = "closemerge"
  /\ store' = Merged(store, tables[lsn])
  /\ freed' = freed \cup {lsn}
  /\ hazards' = IF \E n \in Lsns \ freed : n < lsn
                THEN hazards \cup {"overtaken"} ELSE hazards
  /\ pc'    = "closelog"
  /\ UNCHANGED <<unchangedByClose, files, logs>>

CloseLog ==
  /\ pc = "closelog"
  /\ files' = files \ {lsn}
  /\ logs'  = [logs EXCEPT ![lsn] = << >>]
  /\ pc'    = "closing"
  /\ UNCHANGED <<unchangedByClose, store, freed, hazards>>

(* The process exits, whatever the merge threads are doing. *)
Exit == pc = "closing" /\ Die

(* The process is killed. *)
Crash == Running /\ Die

-----------------------------------------------------------------------------
(* index_new on what the last process left *)

unchangedByRecovery == <<dbAlloc, lsn, freed, park, mutex, jobs, trigger, op,
                         latest, writes, deaths>>

(* silopit_new sets the filter from the sorted files, and log_recovery     *)
(* picks logs in the order readdir happens to return them: the first it    *)
(* calls the new log, the last of the others the old one.                  *)
Reopen(new, old) ==
  /\ pc = "down"
  /\ bloom' = InStore
  /\ \/ /\ ~ IsLog \/ files = {}
        /\ pc' = "openlog"
        /\ UNCHANGED <<replay, hazards>>
     \/ /\ IsLog /\ {new, old} \subseteq files
        /\ new = old => files = {new}
        /\ pc' = "readlog"
        /\ replay'  = [NoReplay EXCEPT !.chosen = IF new = old THEN <<new>>
                                                  ELSE <<new, old>>]
        /\ hazards' = hazards \cup
             (IF \E n \in files \ {new, old} : logs[n] # << >>
              THEN {"unread"} ELSE {}) \cup
             (IF new > old /\ KeysOf(logs[new]) \cap KeysOf(logs[old]) # {}
              THEN {"newest_first"} ELSE {})
  /\ UNCHANGED <<unchangedByRecovery, files, logs, store, tables>>

ReplayLog == logs[replay.chosen[replay.log]]

LastLeftOut == replay.rec < Len(ReplayLog)                       \* mutant
MoreRecords == replay.rec <= Len(ReplayLog)

(* One turn of _log_read's loop; jikukan_insert may find the list full. *)
ReadRecord ==
  /\ pc = "readlog"
  /\ MoreRecords
  /\ LET r == ReplayLog[replay.rec]
     IN /\ tables'  = [tables EXCEPT ![0] = Inserted(@, r)]
        /\ hazards' = IF tables'[0][r.key] = Entry(r) THEN hazards
                      ELSE hazards \cup {"overflow"}
  /\ replay' = [replay EXCEPT !.rec = @ + 1]
  /\ UNCHANGED <<unchangedByRecovery, files, logs, store, bloom, pc>>

(* The log is read.  An empty one makes log_recovery give up: what it read *)
(* before stays in the memtable, and nothing is merged.                    *)
ReadLogDone ==
  /\ pc = "readlog"
  /\ ~ MoreRecords
  /\ \/ /\ ReplayLog = << >>
        /\ pc' = "openlog"
        /\ replay'  = NoReplay
        /\ hazards' = IF \E n \in files : logs[n] # << >>
                      THEN hazards \cup {"refused"} ELSE hazards
     \/ /\ ReplayLog # << >> /\ replay.log < Len(replay.chosen)
        /\ replay' = [chosen |-> replay.chosen, log |-> 2, rec |-> 1]
        /\ UNCHANGED <<pc, hazards>>
     \/ /\ ReplayLog # << >> /\ replay.log = Len(replay.chosen)
        /\ pc' = "remerge"
        /\ UNCHANGED <<replay, hazards>>
  /\ UNCHANGED <<unchangedByRecovery, files, logs, store, tables, bloom>>

(* silopit_merge with fromlog set. *)
Remerge ==
  /\ pc = "remerge"
  /\ store'  = Merged(store, tables[0])
  /\ bloom'  = bloom \cup Adds(tables[0])
  /\ tables' = [tables EXCEPT ![0] = Empty]
  /\ pc'     = "remove"
  /\ UNCHANGED <<unchangedByRecovery, files, logs, replay, hazards>>

NotAdvanced == replay                                            \* mutant
LogsLeft == [NoReplay EXCEPT !.chosen = Tail(replay.chosen)]

(* remove(log_new), then remove(log_old). *)
RemoveLog ==
  /\ pc = "remove"
  /\ replay.chosen # << >>
  /\ files'  = files \ {Head(replay.chosen)}
  /\ logs'   = [logs EXCEPT ![Head(replay.chosen)] = << >>]
  /\ replay' = LogsLeft
  /\ UNCHANGED <<unchangedByRecovery, store, tables, bloom, pc, hazards>>

(* log_next(log, 0): 0.log is created, or truncated. *)
OpenLog ==
  /\ \/ pc = "remove" /\ replay.chosen = << >>
     \/ pc = "openlog"
  /\ files' = files \cup {0}
  /\ logs'  = [logs EXCEPT ![0] = << >>]
  /\ pc'    = "idle"
  /\ UNCHANGED <<unchangedByRecovery, store, tables, bloom, replay, hazards>>

-----------------------------------------------------------------------------
Add   == (\E k \in Keys, opt \in Opts : LogAppend(k, opt)) \/ Park \/ Spawn \/ Insert
Get   == (\E k \in Keys : GetList(k)) \/ GetPark \/ GetParked \/ GetSilo \/ GetDone
Close == CloseWait \/ CloseMerge \/ CloseLog \/ Exit
Open  == \/ \E new, old \in Lsns : Reopen(new, old)
         \/ ReadRecord \/ ReadLogDone \/ Remerge \/ RemoveLog \/ OpenLog
Fault == pc = "fault" /\ UNCHANGED vars     \* undefined behaviour: followed no further

Next ==
  \/ Add \/ Get \/ Close \/ Crash \/ Open \/ Fault
  \/ \E n \in Lsns : Job(n)

(* The operating system runs every thread, and a call that has begun goes  *)
(* on; clients need not call and processes need not die.                   *)
Fairness ==
  /\ \A n \in Lsns : WF_vars(Job(n))
  /\ WF_vars(Park \/ Spawn \/ Insert)
  /\ WF_vars(GetPark \/ GetParked \/ GetSilo \/ GetDone)
  /\ WF_vars(CloseMerge \/ CloseLog \/ Exit)
  /\ WF_vars(Open)

Spec     == Init /\ [][Next]_vars
FairSpec == Spec /\ Fairness

-----------------------------------------------------------------------------
(* Properties *)

Pcs == {"idle", "add", "spawn", "insert", "getpark", "getparked", "getsilo",
        "got", "closemerge", "closelog", "closing", "down", "readlog",
        "remerge", "remove", "openlog", "fault"}
JobPcs == {"none", "created", "gotlsn", "gotlist", "locked", "merged",
           "unparked", "done"}
Vias == {"none", "bloom", "list", "park", "freed", "parkdel", "silo"}
JobRecords == [pc : JobPcs, lsn : Lsns, list : Lsns \cup {NoList}]
Replays == [chosen : Seq(Lsns), log : {1, 2}, rec : Nat \ {0}]
Ops  == [key : Keys \cup {NoKey}, off : Nat, opt : Opts \cup {"NONE"}, via : Vias]

(* Every variable holds a value of its type, and the operation in progress *)
(* has the arguments its program counter needs: no thread indexes a table, *)
(* a log or the rotation counter out of range.                             *)
TypeOK ==
  /\ dbAlloc \in Nat \ {0}
  /\ files \subseteq Lsns
  /\ logs \in [Lsns -> Seq(Records)]
  /\ store \in [Keys -> Nat]
  /\ lsn \in Lsns
  /\ tables \in [Lsns -> Tables]
  /\ freed \subseteq Lsns
  /\ park \in [list : Lsns \cup {NoList}, lsn : Lsns]
  /\ mutex \in Lsns \cup {NoJob}
  /\ jobs \in [Lsns -> JobRecords]
  /\ bloom \subseteq Keys
  /\ pc \in Pcs
  /\ op \in Ops
  /\ replay \in Replays
  /\ latest \in [Keys -> Nat]
  /\ trigger \in [Lsns -> Ops]
  /\ hazards \subseteq {"unlogged", "outlived", "nolog", "unread",
                        "newest_first", "overflow", "refused", "overtaken"}
  /\ writes \in Nat
  /\ deaths \in Nat
  /\ pc = "spawn" => lsn < MaxLsn
  /\ pc \in {"add", "spawn", "insert"} => op.key \in Keys /\ op.opt \in Opts
  /\ pc \in {"getpark", "getparked", "getsilo"} => op.key \in Keys
  /\ pc = "getparked" => op.off \in Lsns
  /\ pc = "readlog" => replay.log \in DOMAIN replay.chosen

(* A lookup answers with the last write of its key, across rotations,      *)
(* merges that finish between its steps, shutdowns, crashes and recovery;  *)
(* except for a key whose delete sits in the parked memtable (index.c:237  *)
(* looks for ADD only), and except after one of the named hazards.         *)
GetIsLatest ==
  pc = "got" /\ op.via # "parkdel" /\ hazards = {} => op.off = latest[op.key]

Waiting(n) == jobs[n].pc \in {"created", "gotlsn", "gotlist", "locked"}

(* The merge thread of a rotation works on the memtable and the log of     *)
(* that very rotation, although it reads both from the shared park slot    *)
(* without the mutex, and the memtable is live until it merges it.         *)
JobOwnsItsTable ==
  \A n \in Lsns :
    /\ jobs[n].pc \in {"created", "gotlsn"} => park = [list |-> n, lsn |-> n]
    /\ jobs[n].pc \notin {"none", "created"} => jobs[n].lsn = n
    /\ jobs[n].pc \notin {"none", "created", "gotlsn"} => jobs[n].list = n
    /\ Waiting(n) => n \notin freed

(* No rotated memtable is forgotten: it is merged, or its thread is on its *)
(* way to merge it and a lookup still finds it in the park slot.           *)
NoLostTable ==
  Running => \A n \in Lsns : n < lsn => n \in freed \/ (Waiting(n) /\ park.list = n)

(* Memtables reach the sorted files in the order they were filled, or an   *)
(* older value would overwrite a newer one; a shutdown that overtakes a    *)
(* merge thread is the exception.                                          *)
MergesInOrder ==
  [][\A n \in freed' \ freed :
       "overtaken" \in hazards' \/ \A m \in Lsns : m < n => m \in freed]_vars

(* A log is removed only after its memtable is in the sorted files: by the *)
(* merge thread, at shutdown, and by recovery.                             *)
LogOutlivesTable ==
  [][\A n \in files \ files' : n \in freed \/ pc = "remove"]_vars

(* A write that has begun returns, however the merge threads are scheduled: *)
(* waiting for merge_mutex cannot deadlock.                                *)
AddReturns == pc = "add" ~> pc \in {"idle", "down", "fault"}

(* A rotated memtable is eventually merged and its log removed.            *)
RotatedIsMerged ==
  \A n \in Lsns : lsn > n ~> (jobs[n].pc = "done" \/ ~ Running)

(* Every restart ends with an index that serves, or another death.         *)
ReopenFinishes == pc = "down" ~> pc = "idle"

(* What the system documents, and the code does not do.                    *)

(* README.md:87 lists DEL among the commands: a deleted key is not found.  *)
DeletedStaysDeleted == pc = "got" /\ latest[op.key] = 0 => op.off = 0
=============================================================================
