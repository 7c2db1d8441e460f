---------------------------- MODULE IndexProofs ----------------------------
(* Theorems about Index, for every set of keys and every bound. *)
EXTENDS Index, FiniteSetTheorems, SequenceTheorems, TLAPS

(* A finite set of integers has a greatest element. *)
LEMMA GreatestElement ==
  ASSUME NEW S, S \subseteq Int, IsFiniteSet(S), S # {}
  PROVE  \E n \in S : \A m \in S : n >= m
  <1>1. PICK above : above = [n \in S |-> {m \in S : m > n}]
    OBVIOUS
  <1>2. PICK T : T = {above[n] : n \in S}
    OBVIOUS
  <1>3. T \subseteq FiniteSubsetsOf(S) /\ T # {}
    <2>1. \A t \in T : t \in SUBSET S
      BY <1>1, <1>2
    <2>2. \A t \in T : IsFiniteSet(t)
      BY <2>1, FS_Subset
    <2> QED
      BY <1>2, <2>1, <2>2 DEF FiniteSubsetsOf
  <1>4. PICK t \in T : \A u \in T : ~ (<<u, t>> \in StrictSubsetOrdering(S))
    BY <1>3, FS_StrictSubsetOrderingWellFounded, WFMin
  <1>5. PICK n \in S : t = above[n]
    BY <1>2, <1>4
  <1>6. ASSUME NEW m \in S, m > n PROVE FALSE
    <2>1. above[m] \subseteq above[n] /\ m \in above[n] /\ m \notin above[m]
      <3>1. above[m] = {k \in S : k > m} /\ above[n] = {k \in S : k > n}
        BY <1>1
      <3>2. ~ (m > m) /\ \A k \in S : k > m => k > n
        BY <1>6
      <3> QED
        BY <1>6, <3>1, <3>2
    <2>2. above[m] \in T /\ above[m] \subseteq S /\ above[n] \subseteq S
      BY <1>1, <1>2
    <2> QED
      BY <1>4, <1>5, <2>1, <2>2 DEF StrictSubsetOrdering
  <1> QED
    BY <1>6

-----------------------------------------------------------------------------
(* Type correctness *)

(* The helpers stay within their types. *)
LEMMA InsertedType ==
  ASSUME NEW t \in Tables, NEW r, r.key \in Keys, r.off \in Nat, r.opt \in Opts
  PROVE  Inserted(t, r) \in Tables
  BY DEF Inserted, Tables, Entry, Entries

LEMMA MergedType ==
  ASSUME NEW s \in [Keys -> Nat], NEW t \in Tables
  PROVE  Merged(s, t) \in [Keys -> Nat]
  <1>1. ASSUME NEW k \in Keys PROVE t[k].off \in Nat /\ s[k] \in Nat
    BY <1>1 DEF Tables, Entries
  <1> QED
    BY <1>1 DEF Merged

LEMMA DeathHazardsType == DeathHazards \subseteq {"unlogged", "outlived", "nolog"}
  BY DEF DeathHazards

LEMMA FreshMemoryType ==
  /\ 0 \in Lsns
  /\ Empty \in Tables
  /\ JobIdle \in JobRecords
  /\ NoOp \in Ops
  /\ NoReplay \in Replays
  <1> USE IndexAssumption
  <1>1. 0 \in Lsns
    BY DEF Lsns
  <1>2. Empty \in Tables /\ JobIdle \in JobRecords
    BY <1>1 DEF Empty, None, Tables, Entries, Opts, JobIdle, JobRecords, JobPcs, NoList
  <1>3. NoOp \in Ops
    BY DEF NoOp, Ops, Vias, Opts
  <1>4. NoReplay \in Replays
    BY DEF NoReplay, Replays
  <1> QED
    BY <1>1, <1>2, <1>3, <1>4

LEMMA JobPcType ==
  ASSUME NEW j \in [Lsns -> JobRecords], NEW n \in Lsns, NEW p \in JobPcs
  PROVE  [j EXCEPT ![n].pc = p] \in [Lsns -> JobRecords]
  <1>1. [j[n] EXCEPT !.pc = p] \in JobRecords
    BY DEF JobRecords
  <1> QED
    BY <1>1

LEMMA LogCutType ==
  ASSUME NEW l \in [Lsns -> Seq(Records)], NEW n
  PROVE  [l EXCEPT ![n] = << >>] \in [Lsns -> Seq(Records)]
  <1>1. << >> \in Seq(Records)
    OBVIOUS
  <1> QED
    BY <1>1

LEMMA InitType == Init => TypeOK
  BY FreshMemoryType DEF Init, TypeOK, Pcs

LEMMA DieType == TypeOK /\ Die => TypeOK'
  BY FreshMemoryType, DeathHazardsType DEF Die, TypeOK, Pcs, disk

LEMMA AddType == TypeOK /\ Add => TypeOK'
  <1> SUFFICES ASSUME TypeOK, Add PROVE TypeOK'
    OBVIOUS
  <1> USE IndexAssumption DEF memory, disk, Pcs
  <1>1. ASSUME NEW k \in Keys, NEW opt \in Opts, LogAppend(k, opt) PROVE TypeOK'
    <2>1. [key |-> k, off |-> dbAlloc, opt |-> opt] \in Records
      BY DEF TypeOK, Records
    <2>2. logs' \in [Lsns -> Seq(Records)]
      BY <1>1, <2>1 DEF TypeOK, LogAppend
    <2>3. op' \in Ops /\ op'.key \in Keys /\ op'.opt \in Opts
      BY <1>1 DEF TypeOK, LogAppend, Ops, Vias
    <2>4. latest' \in [Keys -> Nat] /\ dbAlloc' \in Nat \ {0} /\ writes' \in Nat
      BY <1>1 DEF TypeOK, LogAppend
    <2> QED
      BY <1>1, <2>2, <2>3, <2>4 DEF TypeOK, LogAppend
  <1>2. CASE Park
    BY <1>2 DEF TypeOK, Park
  <1>3. CASE Spawn
    <2>1. lsn \in Lsns /\ lsn + 1 \in Lsns
      BY <1>3 DEF TypeOK, Spawn, Lsns
    <2>2. jobs' \in [Lsns -> JobRecords]
      BY <1>3, <2>1, JobPcType DEF TypeOK, Spawn, NewThread, JobPcs
    <2>3. logs' \in [Lsns -> Seq(Records)]
      BY <1>3, LogCutType DEF TypeOK, Spawn
    <2>4. trigger' \in [Lsns -> Ops]
      BY <1>3 DEF TypeOK, Spawn
    <2> QED
      BY <1>3, <2>1, <2>2, <2>3, <2>4 DEF TypeOK, Spawn
  <1>4. CASE Insert
    <2>1. op.key \in Keys /\ op.off \in Nat /\ op.opt \in Opts
      BY <1>4 DEF TypeOK, Insert, Ops
    <2>2. tables' \in [Lsns -> Tables]
      BY <1>4, <2>1, InsertedType DEF TypeOK, Insert
    <2> QED
      BY <1>4, <2>1, <2>2, FreshMemoryType DEF TypeOK, Insert
  <1> QED
    BY <1>1, <1>2, <1>3, <1>4 DEF Add

LEMMA AnswerType ==
  ASSUME NEW k \in Keys, NEW off \in Nat, NEW via \in Vias, Answer(k, off, via)
  PROVE  op' \in Ops /\ pc' = "got"
  BY DEF Answer, Ops

LEMMA GetType == TypeOK /\ Get => TypeOK'
  <1> SUFFICES ASSUME TypeOK, Get PROVE TypeOK'
    OBVIOUS
  <1> DEFINE Good == /\ UNCHANGED unchangedByGet
                     /\ op' \in Ops /\ pc' \in Pcs
                     /\ pc' \notin {"add", "spawn", "insert", "readlog"}
                     /\ pc' \in {"getpark", "getparked", "getsilo"} => op'.key \in Keys
                     /\ pc' = "getparked" => op'.off \in Lsns
  <1> SUFFICES Good
    BY DEF TypeOK, unchangedByGet, memory, disk
  <1>1. \A n \in Lsns, k \in Keys : tables[n][k].off \in Nat
    BY DEF TypeOK, Tables, Entries
  <1>2. Lsns \subseteq Nat
    BY IndexAssumption DEF Lsns
  <1>3. {"none", "bloom", "list", "park", "freed", "parkdel", "silo"} = Vias /\ 0 \in Nat
    BY DEF Vias
  <1>4. ASSUME NEW k \in Keys, GetList(k) PROVE Good
    <2>1. [NoOp EXCEPT !.key = k] \in Ops /\ [NoOp EXCEPT !.key = k].key = k
      BY FreshMemoryType DEF Ops
    <2>2. tables[lsn][k].off \in Nat
      BY <1>1 DEF TypeOK
    <2> QED
      BY <1>4, <1>3, <2>1, <2>2, AnswerType DEF GetList, Pcs
  <1>5. CASE GetPark
    <2>1. park.list # NoList => park.list \in Lsns
      BY DEF TypeOK
    <2> QED
      BY <1>5, <1>2, <2>1 DEF GetPark, TypeOK, Pcs, Ops
  <1>6. CASE GetParked
    <2>1. op.key \in Keys /\ tables[op.off][op.key].off \in Nat
      BY <1>6, <1>1 DEF GetParked, TypeOK
    <2>2. ASSUME NEW v \in Vias
          PROVE  [op EXCEPT !.off = 0, !.via = v] \in Ops /\ [op EXCEPT !.off = 0, !.via = v].key = op.key
      BY DEF TypeOK, Ops
    <2> QED
      BY <1>6, <1>3, <2>1, <2>2, FreshMemoryType, AnswerType DEF GetParked, Pcs
  <1>7. CASE GetSilo
    <2>1. op.key \in Keys /\ store[op.key] \in Nat /\ op.via \in Vias
      BY <1>7 DEF GetSilo, TypeOK, Ops
    <2> QED
      BY <1>7, <1>3, <2>1, AnswerType DEF GetSilo, Pcs
  <1>8. CASE GetDone
    BY <1>8, FreshMemoryType DEF GetDone, Pcs
  <1> QED
    BY <1>4, <1>5, <1>6, <1>7, <1>8 DEF Get

LEMMA JobReadType ==
  ASSUME NEW r \in JobRecords, NEW p \in JobPcs, NEW l \in Lsns
  PROVE  /\ [r EXCEPT !.pc = p, !.lsn = l] \in JobRecords
         /\ [r EXCEPT !.pc = p, !.list = l] \in JobRecords
  BY DEF JobRecords

LEMMA JobType == ASSUME NEW n \in Lsns PROVE TypeOK /\ Job(n) => TypeOK'
  <1> SUFFICES ASSUME TypeOK, Job(n) PROVE TypeOK'
    OBVIOUS
  <1> USE DEF unchangedByJob
  <1>1. jobs \in [Lsns -> JobRecords] /\ park.lsn \in Lsns /\ park.list \in Lsns \cup {NoList}
    BY DEF TypeOK
  <1>2. CASE JobReadLsn(n)
    <2>1. jobs' \in [Lsns -> JobRecords]
      BY <1>1, <1>2, JobReadType DEF TypeOK, JobReadLsn, JobPcs
    <2> QED
      BY <1>2, <2>1 DEF TypeOK, JobReadLsn
  <1>3. CASE JobReadList(n)
    <2>1. jobs' \in [Lsns -> JobRecords]
      <3>1. park.list # NoList =>
              [jobs EXCEPT ![n] = [@ EXCEPT !.pc = "gotlist", !.list = park.list]]
                \in [Lsns -> JobRecords]
        BY <1>1, JobReadType DEF JobPcs
      <3> QED
        BY <1>1, <1>3, <3>1 DEF JobReadList
    <2> QED
      BY <1>3, <2>1, FreshMemoryType DEF TypeOK, JobReadList, Pcs
  <1>4. CASE JobLock(n)
    <2>1. jobs' \in [Lsns -> JobRecords]
      BY <1>4, JobPcType DEF TypeOK, JobLock, JobPcs
    <2> QED
      BY <1>4, <2>1 DEF TypeOK, JobLock, Lock
  <1>5. CASE JobMerge(n)
    <2>1. jobs' \in [Lsns -> JobRecords]
      <3>1. [jobs EXCEPT ![n].pc = "merged"] \in [Lsns -> JobRecords]
        BY <1>1, JobPcType DEF JobPcs
      <3> QED
        BY <1>1, <1>5, <3>1 DEF JobMerge
    <2>2. CASE jobs[n].list \in Lsns
      <3>1. Merged(store, tables[jobs[n].list]) \in [Keys -> Nat]
        BY <2>2, MergedType DEF TypeOK
      <3> QED
        BY <1>5, <2>1, <3>1, FreshMemoryType DEF TypeOK, JobMerge, Pcs
    <2>3. CASE jobs[n].list \notin Lsns
      BY <1>5, <2>1, <2>3, FreshMemoryType DEF TypeOK, JobMerge, Pcs
    <2> QED
      BY <2>2, <2>3
  <1>6. CASE JobUnpark(n)
    <2>1. jobs' \in [Lsns -> JobRecords]
      BY <1>6, JobPcType DEF TypeOK, JobUnpark, JobPcs
    <2> QED
      BY <1>6, <2>1 DEF TypeOK, JobUnpark, Unlock
  <1>7. CASE JobLogRemove(n)
    <2>1. jobs' \in [Lsns -> JobRecords]
      BY <1>7, JobPcType DEF TypeOK, JobLogRemove, JobPcs
    <2>2. logs' \in [Lsns -> Seq(Records)]
      BY <1>7, LogCutType DEF TypeOK, JobLogRemove
    <2> QED
      BY <1>7, <2>1, <2>2 DEF TypeOK, JobLogRemove
  <1> QED
    BY <1>2, <1>3, <1>4, <1>5, <1>6, <1>7 DEF Job

LEMMA CloseType == TypeOK /\ Close => TypeOK'
  <1> SUFFICES ASSUME TypeOK, Close PROVE TypeOK'
    OBVIOUS
  <1> USE DEF unchangedByClose
  <1>1. CASE CloseWait
    BY <1>1 DEF TypeOK, CloseWait, Pcs
  <1>2. CASE CloseMerge
    <2>1. store' \in [Keys -> Nat]
      BY <1>2, MergedType DEF TypeOK, CloseMerge
    <2> QED
      BY <1>2, <2>1 DEF TypeOK, CloseMerge, Pcs
  <1>3. CASE CloseLog
    <2>1. logs' \in [Lsns -> Seq(Records)]
      BY <1>3, LogCutType DEF TypeOK, CloseLog
    <2> QED
      BY <1>3, <2>1 DEF TypeOK, CloseLog, Pcs
  <1>4. CASE Exit
    BY <1>4, DieType DEF Exit
  <1> QED
    BY <1>1, <1>2, <1>3, <1>4 DEF Close

LEMMA ReplayType ==
  ASSUME NEW r \in Replays, NEW c \in Seq(Lsns)
  PROVE  /\ [r EXCEPT !.chosen = c] \in Replays
         /\ [r EXCEPT !.chosen = c].chosen = c
         /\ [r EXCEPT !.chosen = c].log = r.log
         /\ [r EXCEPT !.rec = @ + 1] \in Replays
         /\ [r EXCEPT !.rec = @ + 1].chosen = r.chosen
         /\ [r EXCEPT !.rec = @ + 1].log = r.log
         /\ [chosen |-> r.chosen, log |-> 2, rec |-> 1] \in Replays
  <1>1. r = [chosen |-> r.chosen, log |-> r.log, rec |-> r.rec]
    BY DEF Replays
  <1>2. r.chosen \in Seq(Lsns) /\ r.log \in {1, 2} /\ r.rec \in Nat \ {0} /\ r.rec + 1 \in Nat \ {0}
    BY DEF Replays
  <1>3. [r EXCEPT !.chosen = c] = [chosen |-> c, log |-> r.log, rec |-> r.rec]
    BY <1>1
  <1>4. [r EXCEPT !.rec = @ + 1] = [chosen |-> r.chosen, log |-> r.log, rec |-> r.rec + 1]
    BY <1>1
  <1> QED
    BY <1>2, <1>3, <1>4 DEF Replays

LEMMA OpenType == TypeOK /\ Open => TypeOK'
  <1> SUFFICES ASSUME TypeOK, Open PROVE TypeOK'
    OBVIOUS
  <1> USE DEF unchangedByRecovery
  <1>1. ASSUME NEW new \in Lsns, NEW old \in Lsns, Reopen(new, old) PROVE TypeOK'
    <2>1. bloom' \subseteq Keys
      BY <1>1 DEF Reopen, InStore
    <2>2. CASE UNCHANGED <<replay, hazards>> /\ pc' = "openlog"
      BY <1>1, <2>1, <2>2 DEF Reopen, TypeOK, Pcs
    <2>3. CASE pc' = "readlog"
      <3> DEFINE chosen == IF new = old THEN <<new>> ELSE <<new, old>>
      <3>1. chosen \in Seq(Lsns) /\ 1 \in DOMAIN chosen
        OBVIOUS
      <3>2. replay' = [NoReplay EXCEPT !.chosen = chosen]
        BY <1>1, <2>3 DEF Reopen
      <3>3. replay' \in Replays
            /\ replay'.log \in DOMAIN replay'.chosen
        <4>1. NoReplay.log = 1
          BY DEF NoReplay
        <4> HIDE DEF chosen
        <4> QED
          BY <4>1, <3>1, <3>2, ReplayType, FreshMemoryType
      <3>4. hazards' \subseteq hazards \cup {"unread", "newest_first"}
        BY <1>1, <2>3 DEF Reopen
      <3> QED
        BY <1>1, <2>1, <2>3, <3>3, <3>4 DEF Reopen, TypeOK, Pcs
    <2> QED
      BY <1>1, <2>2, <2>3 DEF Reopen
  <1>2. CASE ReadRecord
    <2>1. replay.chosen[replay.log] \in Lsns /\ replay.rec \in Nat \ {0}
      BY <1>2 DEF ReadRecord, TypeOK, Replays
    <2>2. ReplayLog[replay.rec] \in Records
      <3>1. ReplayLog \in Seq(Records)
        BY <2>1 DEF ReplayLog, TypeOK
      <3>2. replay.rec <= Len(ReplayLog)
        BY <1>2 DEF ReadRecord, MoreRecords
      <3> QED
        BY <2>1, <3>1, <3>2
    <2>3. Inserted(tables[0], ReplayLog[replay.rec]) \in Tables
      BY <2>2, InsertedType, FreshMemoryType DEF TypeOK, Records
    <2>4. tables' \in [Lsns -> Tables]
      BY <1>2, <2>3 DEF ReadRecord, TypeOK
    <2>5. replay' \in Replays
          /\ replay'.log = replay.log /\ replay'.chosen = replay.chosen
      <3>1. replay \in Replays /\ replay.chosen \in Seq(Lsns)
        BY DEF TypeOK, Replays
      <3> QED
        BY <1>2, <3>1, ReplayType DEF ReadRecord
    <2>6. hazards' \subseteq hazards \cup {"overflow"}
      BY <1>2 DEF ReadRecord
    <2> QED
      BY <1>2, <2>4, <2>5, <2>6 DEF ReadRecord, TypeOK, Pcs
  <1>3. CASE ReadLogDone
    <2>1. hazards' \subseteq hazards \cup {"refused"}
      BY <1>3 DEF ReadLogDone
    <2>2. /\ replay' \in Replays
          /\ pc' \in {"openlog", "readlog", "remerge"}
          /\ pc' = "readlog" => replay'.log \in DOMAIN replay'.chosen
      <3>1. replay \in Replays /\ replay.chosen \in Seq(Lsns)
            /\ pc = "readlog" /\ replay.log \in DOMAIN replay.chosen
            /\ replay.log \in {1, 2}
        BY <1>3 DEF TypeOK, Replays, ReadLogDone
      <3>2. replay.log < Len(replay.chosen) => 2 \in DOMAIN replay.chosen
        BY <3>1
      <3> QED
        <4>1. \/ pc' = "openlog" /\ replay' = NoReplay
              \/ /\ replay.log < Len(replay.chosen) /\ pc' = "readlog"
                 /\ replay' = [chosen |-> replay.chosen, log |-> 2, rec |-> 1]
              \/ pc' = "remerge" /\ replay' = replay
          BY <1>3, <3>1 DEF ReadLogDone
        <4>2. CASE pc' = "openlog" /\ replay' = NoReplay
          BY <4>2, FreshMemoryType
        <4>3. CASE /\ replay.log < Len(replay.chosen) /\ pc' = "readlog"
                   /\ replay' = [chosen |-> replay.chosen, log |-> 2, rec |-> 1]
          <5>1. replay' \in Replays
            BY <3>1, <4>3, ReplayType
          <5>2. replay'.log = 2 /\ replay'.chosen = replay.chosen
            BY <4>3
          <5> QED
            BY <3>2, <4>3, <5>1, <5>2
        <4>4. CASE pc' = "remerge" /\ replay' = replay
          BY <3>1, <4>4
        <4> QED
          BY <4>1, <4>2, <4>3, <4>4
    <2> QED
      BY <1>3, <2>1, <2>2 DEF ReadLogDone, TypeOK, Pcs
  <1>4. CASE Remerge
    <2>1. store' \in [Keys -> Nat]
      BY <1>4, MergedType, FreshMemoryType DEF TypeOK, Remerge
    <2>2. bloom' \subseteq Keys
      BY <1>4 DEF TypeOK, Remerge, Adds
    <2>3. tables' \in [Lsns -> Tables]
      BY <1>4, FreshMemoryType DEF TypeOK, Remerge
    <2> QED
      BY <1>4, <2>1, <2>2, <2>3 DEF TypeOK, Remerge, Pcs
  <1>5. CASE RemoveLog
    <2>1. logs' \in [Lsns -> Seq(Records)]
      BY <1>5, LogCutType DEF TypeOK, RemoveLog
    <2>2. Tail(replay.chosen) \in Seq(Lsns)
      BY <1>5 DEF TypeOK, RemoveLog, Replays
    <2>3. replay' \in Replays
      BY <1>5, <2>2, ReplayType, FreshMemoryType DEF RemoveLog, LogsLeft
    <2> QED
      BY <1>5, <2>1, <2>3 DEF TypeOK, RemoveLog, Pcs
  <1>6. CASE OpenLog
    <2>1. logs' \in [Lsns -> Seq(Records)]
      BY <1>6, LogCutType DEF TypeOK, OpenLog
    <2> QED
      BY <1>6, <2>1, FreshMemoryType DEF TypeOK, OpenLog, Pcs
  <1> QED
    BY <1>1, <1>2, <1>3, <1>4, <1>5, <1>6 DEF Open

LEMMA NextType == TypeOK /\ [Next]_vars => TypeOK'
  <1>1. TypeOK /\ UNCHANGED vars => TypeOK'
    BY DEF TypeOK, vars, disk, memory
  <1> QED
    BY <1>1, AddType, GetType, JobType, CloseType, OpenType, DieType
    DEF Next, Crash, Fault

(* The index never leaves its types: whatever the threads, the crashes and *)
(* recovery do, tables, logs and the rotation counter stay in range.       *)
THEOREM TypeCorrect == Spec => []TypeOK
  BY InitType, NextType, PTL DEF Spec

-----------------------------------------------------------------------------
(* The hand-over of memtables to merge threads.  The park slot has room    *)
(* for one memtable and is read without the mutex, so what makes it safe   *)
(* is that at most one rotation is pending: every thread that still needs  *)
(* the slot finds its own memtable there.  Protocol is that fact and what  *)
(* makes it inductive.                                                     *)

Pending(n) == jobs[n].pc \in {"created", "gotlsn", "gotlist", "locked", "merged"}

Protocol ==
  /\ \A n \in Lsns : Pending(n) => park.list = n /\ park.lsn = n
  /\ \A n \in Lsns : jobs[n].pc \notin {"none", "created"} => jobs[n].lsn = n
  /\ \A n \in Lsns : jobs[n].pc \notin {"none", "created", "gotlsn"} => jobs[n].list = n
  /\ \A n \in Lsns : jobs[n].pc \in {"locked", "merged"} => mutex = n
  /\ \A n \in Lsns : jobs[n].pc = "none" <=> n >= lsn
  /\ \A n \in Lsns : jobs[n].pc \in {"merged", "unparked", "done"} => n \in freed
  /\ \A n \in freed : \/ jobs[n].pc \in {"merged", "unparked", "done"}
                      \/ n = lsn /\ pc \in {"closelog", "closing", "fault"}
  /\ pc = "spawn" => park.list = lsn /\ park.lsn = lsn /\ \A n \in Lsns : ~ Pending(n)
  /\ pc = "closelog" => lsn \in freed

LEMMA InitProtocol == Init => Protocol
  BY DEF Init, Protocol, Pending, JobIdle, Lsns

LEMMA DieProtocol == Die => Protocol'
  BY DEF Die, Protocol, Pending, JobIdle, Lsns

LEMMA AddProtocol == PromptMerge /\ TypeOK /\ Protocol /\ Add => Protocol'
  <1> SUFFICES ASSUME PromptMerge, TypeOK, Protocol, Add PROVE Protocol'
    OBVIOUS
  <1> USE IndexAssumption DEF memory, Pending
  <1>1. ASSUME NEW k \in Keys, NEW opt \in Opts, LogAppend(k, opt) PROVE Protocol'
    BY <1>1 DEF LogAppend, Protocol
  <1>2. CASE Park
    <2>1. \A n \in Lsns : ~ Pending(n)
      <3>1. ASSUME NEW n \in Lsns, Pending(n) PROVE FALSE
        <4>1. jobs[n].pc \in {"locked", "merged"}
          BY <1>2, <3>1 DEF Park, MayPark
        <4>2. mutex = n /\ n # NoJob
          BY <4>1 DEF Protocol, Lsns, NoJob
        <4> QED
          BY <1>2, <4>2 DEF Park, MayPark
      <3> QED
        BY <3>1
    <2> QED
      BY <1>2, <2>1 DEF Park, Protocol
  <1>3. CASE Spawn
    <2>1. lsn \in Lsns /\ lsn + 1 \in Lsns
      BY <1>3 DEF TypeOK, Spawn, Lsns
    <2>2. jobs \in [Lsns -> JobRecords] /\ freed \subseteq Lsns
      BY DEF TypeOK
    <2>3. \A n \in Lsns \ {lsn} : jobs'[n] = jobs[n]
      BY <1>3, <2>2 DEF Spawn, NewThread
    <2>4. jobs'[lsn].pc = "created"
      BY <1>3, <2>1, <2>2 DEF Spawn, NewThread, JobRecords
    <2>5. jobs[lsn].pc = "none"
      BY <2>1 DEF Protocol, Lsns
    <2>6. \A n \in freed : jobs[n].pc \in {"merged", "unparked", "done"}
      BY <1>3 DEF Protocol, Spawn
    <2>7. \A n \in Lsns : jobs'[n].pc = "none" <=> n >= lsn + 1
      <3>1. ASSUME NEW n \in Lsns PROVE jobs'[n].pc = "none" <=> n >= lsn + 1
        <4>1. jobs[n].pc = "none" <=> n >= lsn
          BY DEF Protocol
        <4>2. n \in Int /\ lsn \in Int
          BY <2>1 DEF Lsns
        <4> QED
          BY <2>3, <2>4, <4>1, <4>2
      <3> QED
        BY <3>1
    <2> QED
      BY <1>3, <2>1, <2>2, <2>3, <2>4, <2>5, <2>6, <2>7 DEF Protocol, Spawn
  <1>4. CASE Insert
    BY <1>4 DEF Insert, Protocol
  <1> QED
    BY <1>1, <1>2, <1>3, <1>4 DEF Add

LEMMA GetProtocol == Protocol /\ Get => Protocol'
  BY DEF Protocol, Pending, Get, GetList, GetPark, GetParked, GetSilo, GetDone,
         Answer, unchangedByGet, memory, disk

LEMMA JobProtocol ==
  ASSUME NEW n \in Lsns
  PROVE  TypeOK /\ Protocol /\ Job(n) => Protocol'
  <1> SUFFICES ASSUME TypeOK, Protocol, Job(n) PROVE Protocol'
    OBVIOUS
  <1> USE DEF Pending, unchangedByJob
  <1>1. jobs \in [Lsns -> JobRecords] /\ freed \subseteq Lsns /\ lsn \in Lsns
    BY DEF TypeOK
  <1>2. \A m \in Lsns : Pending(m) /\ Pending(n) => m = n
    BY DEF Protocol
  <1>3. CASE JobReadLsn(n)
    <2>1. /\ \A m \in Lsns \ {n} : jobs'[m] = jobs[m]
          /\ jobs'[n].pc = "gotlsn" /\ jobs'[n].lsn = park.lsn
      BY <1>1, <1>3 DEF JobReadLsn, JobRecords
    <2> QED
      BY <1>1, <1>3, <2>1 DEF JobReadLsn, Protocol
  <1>4. CASE JobReadList(n)
    <2>1. park.list = n /\ n \notin freed /\ n # NoList
      BY <1>1, <1>4 DEF JobReadList, Protocol, Lsns, NoList
    <2>2. /\ \A m \in Lsns \ {n} : jobs'[m] = jobs[m]
          /\ jobs'[n].pc = "gotlist" /\ jobs'[n].lsn = jobs[n].lsn /\ jobs'[n].list = n
      <3>1. jobs' = [jobs EXCEPT ![n] = [@ EXCEPT !.pc = "gotlist", !.list = park.list]]
        BY <1>4, <2>1 DEF JobReadList
      <3> QED
        BY <1>1, <2>1, <3>1 DEF JobRecords
    <2> QED
      BY <1>1, <1>4, <2>1, <2>2 DEF JobReadList, Protocol
  <1>5. CASE JobLock(n)
    <2>1. /\ \A m \in Lsns \ {n} : jobs'[m] = jobs[m]
          /\ jobs'[n].pc = "locked" /\ jobs'[n].lsn = jobs[n].lsn
          /\ jobs'[n].list = jobs[n].list
      BY <1>1, <1>5 DEF JobLock, JobRecords
    <2> QED
      BY <1>1, <1>2, <1>5, <2>1 DEF JobLock, Lock, Protocol
  <1>6. CASE JobMerge(n)
    <2>1. jobs[n].list = n /\ n \notin freed
      BY <1>1, <1>6 DEF JobMerge, Protocol, Lsns
    <2>2. /\ \A m \in Lsns \ {n} : jobs'[m] = jobs[m]
          /\ jobs'[n].pc = "merged" /\ jobs'[n].lsn = jobs[n].lsn
          /\ jobs'[n].list = jobs[n].list
          /\ freed' = freed \cup {n}
      BY <1>1, <1>6, <2>1 DEF JobMerge, JobRecords
    <2> QED
      BY <1>1, <1>2, <1>6, <2>1, <2>2 DEF JobMerge, Protocol
  <1>7. CASE JobUnpark(n)
    <2>1. /\ \A m \in Lsns \ {n} : jobs'[m] = jobs[m]
          /\ jobs'[n].pc = "unparked" /\ jobs'[n].lsn = jobs[n].lsn
          /\ jobs'[n].list = jobs[n].list
      BY <1>1, <1>7 DEF JobUnpark, JobRecords
    <2>2. \A m \in Lsns : ~ Pending(m)'
      BY <1>2, <1>7, <2>1 DEF JobUnpark
    <2> QED
      BY <1>1, <1>2, <1>7, <2>1, <2>2 DEF JobUnpark, Unlock, Protocol
  <1>8. CASE JobLogRemove(n)
    <2>1. /\ \A m \in Lsns \ {n} : jobs'[m] = jobs[m]
          /\ jobs'[n].pc = "done" /\ jobs'[n].lsn = jobs[n].lsn
          /\ jobs'[n].list = jobs[n].list
      BY <1>1, <1>8 DEF JobLogRemove, JobRecords
    <2> QED
      BY <1>1, <1>8, <2>1 DEF JobLogRemove, Protocol
  <1> QED
    BY <1>3, <1>4, <1>5, <1>6, <1>7, <1>8 DEF Job

LEMMA CloseProtocol == Protocol /\ Close => Protocol'
  BY DieProtocol
  DEF Protocol, Pending, Close, CloseWait, CloseMerge, CloseLog, Exit, unchangedByClose

LEMMA OpenProtocol == Protocol /\ Open => Protocol'
  BY DEF Protocol, Pending, Open, Reopen, ReadRecord, ReadLogDone, Remerge,
         RemoveLog, OpenLog, unchangedByRecovery

LEMMA NextProtocol == PromptMerge /\ TypeOK /\ Protocol /\ [Next]_vars => Protocol'
  <1>1. Protocol /\ UNCHANGED vars => Protocol'
    BY DEF Protocol, Pending, vars, memory
  <1> QED
    BY <1>1, AddProtocol, GetProtocol, JobProtocol, CloseProtocol, OpenProtocol, DieProtocol
    DEF Next, Crash, Fault

LEMMA ProtocolInvariant == PromptMerge => (Spec => [](TypeOK /\ Protocol))
  <1> SUFFICES ASSUME PromptMerge PROVE Spec => [](TypeOK /\ Protocol)
    OBVIOUS
  <1>1. TypeOK /\ Protocol /\ [Next]_vars => (TypeOK /\ Protocol)'
    BY NextType, NextProtocol
  <1> QED
    BY <1>1, InitType, InitProtocol, PTL DEF Spec

(* A merge thread works on the memtable and log of its own rotation, and   *)
(* that memtable is live until it merges it.                               *)
THEOREM JobsAreSafe == PromptMerge => (Spec => []JobOwnsItsTable)
  <1> SUFFICES ASSUME PromptMerge PROVE Spec => []JobOwnsItsTable
    OBVIOUS
  <1>1. TypeOK /\ Protocol => JobOwnsItsTable
    BY DEF TypeOK, Protocol, JobOwnsItsTable, Pending, Waiting, Lsns
  <1> QED
    BY <1>1, ProtocolInvariant, PTL

(* No rotated memtable is forgotten.                                       *)
THEOREM NoTableIsLost == PromptMerge => (Spec => []NoLostTable)
  <1> SUFFICES ASSUME PromptMerge PROVE Spec => []NoLostTable
    OBVIOUS
  <1>1. TypeOK /\ Protocol => NoLostTable
    <2> SUFFICES ASSUME TypeOK, Protocol, NEW n \in Lsns, n < lsn
                 PROVE  n \in freed \/ (Waiting(n) /\ park.list = n)
      BY DEF NoLostTable
    <2>1. jobs[n].pc # "none" /\ jobs[n].pc \in JobPcs
      <3>1. ~ (n >= lsn)
        BY DEF Lsns, TypeOK
      <3> QED
        BY <3>1 DEF Protocol, TypeOK, JobRecords
    <2> QED
      BY <2>1 DEF Protocol, Pending, Waiting, JobPcs
  <1> QED
    BY <1>1, ProtocolInvariant, PTL

(* Memtables are merged in the order they were filled.                     *)
THEOREM MergesAreInOrder == PromptMerge => (Spec => MergesInOrder)
  <1> SUFFICES ASSUME PromptMerge PROVE Spec => MergesInOrder
    OBVIOUS
  <1> DEFINE Ordered == \A n \in freed' \ freed :
                 "overtaken" \in hazards' \/ \A m \in Lsns : m < n => m \in freed
  <1>1. TypeOK /\ Protocol /\ [Next]_vars => [Ordered]_vars
    <2> SUFFICES ASSUME TypeOK, Protocol, Next, NEW n \in freed' \ freed,
                        NEW m \in Lsns, m < n, m \notin freed
                 PROVE  "overtaken" \in hazards'
      OBVIOUS
    <2>1. CASE CloseMerge
      BY <2>1 DEF CloseMerge, TypeOK
    <2>2. ASSUME NEW j \in Lsns, JobMerge(j) PROVE FALSE
      <3>1. n = j /\ Pending(j)
        BY <2>2 DEF JobMerge, Protocol, Pending
      <3>2. j < lsn
        BY <2>2 DEF JobMerge, Protocol, TypeOK, Lsns
      <3>3. jobs[m].pc # "none" /\ jobs[m].pc \in JobPcs
        <4>1. ~ (m >= lsn)
          BY <3>1, <3>2 DEF TypeOK, Lsns
        <4> QED
          BY <4>1 DEF Protocol, TypeOK, JobRecords
      <3>4. Pending(m)
        BY <3>3 DEF Protocol, Pending, JobPcs
      <3>5. m # n
        BY DEF TypeOK, Lsns
      <3> QED
        BY <3>1, <3>4, <3>5, <2>2 DEF Protocol
    <2>3. freed' \subseteq freed \/ CloseMerge \/ \E j \in Lsns : JobMerge(j)
      BY DEF Next, Add, LogAppend, Park, Spawn, Insert, Get, GetList, GetPark,
             GetParked, GetSilo, GetDone, unchangedByGet, memory, Close, CloseWait,
             CloseLog, Exit, unchangedByClose, Crash, Die, Open, Reopen, ReadRecord,
             ReadLogDone, Remerge, RemoveLog, OpenLog, unchangedByRecovery, Fault,
             vars, Job, JobReadLsn, JobReadList, JobLock, JobUnpark, JobLogRemove,
             unchangedByJob
    <2> QED
      BY <2>1, <2>2, <2>3
  <1> QED
    BY <1>1, ProtocolInvariant, PTL DEF Spec, MergesInOrder

(* A log is removed only when its memtable is in the sorted files.         *)
THEOREM LogsOutliveTables == PromptMerge => (Spec => LogOutlivesTable)
  <1> SUFFICES ASSUME PromptMerge PROVE Spec => LogOutlivesTable
    OBVIOUS
  <1> DEFINE Kept == \A n \in files \ files' : n \in freed \/ pc = "remove"
  <1>1. TypeOK /\ Protocol /\ [Next]_vars => [Kept]_vars
    <2> SUFFICES ASSUME TypeOK, Protocol, Next, NEW n \in files \ files'
                 PROVE  n \in freed \/ pc = "remove"
      OBVIOUS
    <2>1. CASE CloseLog
      BY <2>1 DEF CloseLog, Protocol
    <2>2. ASSUME NEW j \in Lsns, JobLogRemove(j) PROVE n \in freed
      BY <2>2 DEF JobLogRemove, LogOf, Protocol
    <2>3. files \subseteq files' \/ CloseLog \/ RemoveLog \/ \E j \in Lsns : JobLogRemove(j)
      BY DEF Next, Add, LogAppend, Park, Spawn, Insert, Get, GetList, GetPark,
             GetParked, GetSilo, GetDone, unchangedByGet, disk, Close, CloseWait,
             CloseMerge, Exit, unchangedByClose, Crash, Die, Open, Reopen, ReadRecord,
             ReadLogDone, Remerge, OpenLog, unchangedByRecovery, Fault,
             vars, Job, JobReadLsn, JobReadList, JobLock, JobMerge, JobUnpark,
             unchangedByJob
    <2> QED
      BY <2>1, <2>2, <2>3 DEF RemoveLog
  <1> QED
    BY <1>1, ProtocolInvariant, PTL DEF Spec, LogOutlivesTable

-----------------------------------------------------------------------------
(* Lookups, across rotations, merges, deaths and recovery.  As long as none *)
(* of the named events has happened, the memtables in use, over the sorted  *)
(* files, hold the last writes; and so do the logs over the sorted files,   *)
(* for a process that died.  Readable has both and what makes them last.    *)

Value(e) == IF e.opt = "ADD" THEN e.off ELSE 0

ReadPcs == {"getpark", "getparked", "getsilo"}
Up      == pc \in {"idle", "add", "spawn", "insert", "got", "closemerge", "closelog", "closing"} \cup ReadPcs

(* What a key's memtables and files say. *)
Held(k) ==
  IF tables[lsn][k].opt # "NONE" THEN Value(tables[lsn][k])
  ELSE IF lsn > 0 /\ tables[lsn - 1][k].opt # "NONE" THEN Value(tables[lsn - 1][k])
  ELSE store[k]

(* At most the last rotation's memtable is not merged. *)
Rotation ==
  /\ \A n \in Lsns : n > lsn => tables[n] = Empty /\ logs[n] = << >>
  /\ \A n \in Lsns : n < lsn - 1 => n \in freed
  /\ pc = "spawn" => \A n \in Lsns : n < lsn => n \in freed
  /\ pc # "spawn" => park.list = NoList \/ (park.list = lsn - 1 /\ lsn > 0)
  /\ pc = "insert" => lsn > 0 /\ tables[lsn] = Empty /\ logs[lsn] = << >> /\ trigger[lsn] = op

(* The memtables and the files hold the last writes. *)
Current ==
  /\ \A k \in Keys : latest[k] = IF Writing /\ op.key = k THEN Value(op) ELSE Held(k)
  /\ lsn \in freed => /\ \A k \in Keys : store[k] = Held(k)
                      /\ \A n \in Lsns : n < lsn => n \in freed
  /\ \A k \in Keys, n \in 0 .. lsn :
       /\ n \in freed /\ tables[n][k].opt # "NONE"
       /\ \A m \in 0 .. lsn : m > n /\ m \in freed => tables[m][k].opt = "NONE"
       => store[k] = Value(tables[n][k])

Filtered ==
  /\ \A k \in InStore : k \in bloom
  /\ \A n \in Lsns : \A k \in Adds(tables[n]) : k \in bloom

(* What a lookup has found so far. *)
Reading ==
  /\ pc \in ReadPcs => tables[lsn][op.key].opt = "NONE" /\ op.via \in {"none", "parkdel"}
  /\ pc \in {"getpark", "getparked"} => op.via = "none"
  /\ pc = "getparked" => op.off = lsn - 1 /\ lsn > 0
  /\ pc = "getsilo" /\ op.via = "none" =>
       lsn = 0 \/ lsn - 1 \in freed \/ tables[lsn - 1][op.key].opt = "NONE"
  /\ pc = "got" /\ op.via # "parkdel" => op.off = latest[op.key]

(* Is key k written after memtable n was full, or not yet in it? *)
Later(n, k) ==
  \/ n < lsn /\ trigger[n + 1].key = k
  \/ n = lsn /\ pc \in {"add", "spawn"} /\ op.key = k

LastWrite(n) == IF n < lsn THEN trigger[n + 1] ELSE op

(* Each log has what its memtable got, except for the first write of it,   *)
(* which is in the log before; and the first write of the next.            *)
Logged ==
  /\ \A n \in (0 .. lsn) \ freed : n \in files
  /\ \A n \in 1 .. lsn : /\ trigger[n].key \in Keys /\ trigger[n].opt \in Opts
                         /\ n < lsn \/ pc # "insert" => tables[n][trigger[n].key].opt # "NONE"
  /\ IsLog => \A n \in 0 .. lsn : n \in files => \A k \in Keys :
       /\ Later(n, k) => LastRecord(logs[n], k, Entry(LastWrite(n)))
       /\ k \in KeysOf(logs[n]) /\ ~ Later(n, k) => LastRecord(logs[n], k, tables[n][k])
       /\ k \notin KeysOf(logs[n]) /\ tables[n][k].opt # "NONE" =>
            n > 0 /\ trigger[n].key = k /\ tables[n][k] = Entry(trigger[n])

Serving == Rotation /\ Current /\ Filtered /\ Reading /\ Logged

(* Of the logs that have key k the youngest has its last write; if none    *)
(* has, the files do.                                                      *)
Comes(k) ==
  /\ (\A n \in files : k \notin KeysOf(logs[n])) => store[k] = latest[k]
  /\ \A n \in files : \A i \in DOMAIN logs[n] :
       /\ logs[n][i].key = k
       /\ \A j \in DOMAIN logs[n] : j > i => logs[n][j].key # k
       /\ \A m \in files : m > n => k \notin KeysOf(logs[m])
       => Value(logs[n][i]) = latest[k]

Recoverable == \A k \in Keys : Comes(k)

Chosen(i) == replay.chosen[i]

(* Of two logs, the older is replayed first, or they share no key; others  *)
(* are empty.                                                              *)
Selected ==
  /\ replay.chosen \in Seq(files) /\ Len(replay.chosen) <= 2
  /\ \A n \in files : (\A i \in DOMAIN replay.chosen : Chosen(i) # n) => logs[n] = << >>
  /\ Len(replay.chosen) = 2 =>
       /\ Chosen(1) # Chosen(2)
       /\ Chosen(1) < Chosen(2) \/ KeysOf(logs[Chosen(1)]) \cap KeysOf(logs[Chosen(2)]) = {}

(* The memtable has what was read of the logs. *)
ReadUpTo(l, last) ==
  \A k \in Keys :
    /\ \A i \in DOMAIN logs[Chosen(l)] :
         /\ i <= last /\ logs[Chosen(l)][i].key = k
         /\ \A j \in DOMAIN logs[Chosen(l)] : j > i /\ j <= last => logs[Chosen(l)][j].key # k
         => tables[0][k] = Entry(logs[Chosen(l)][i])
    /\ (\A i \in DOMAIN logs[Chosen(l)] : i <= last => logs[Chosen(l)][i].key # k) =>
         IF l = 1 THEN tables[0][k] = None
         ELSE /\ k \notin KeysOf(logs[Chosen(1)]) => tables[0][k] = None
              /\ \A i \in DOMAIN logs[Chosen(1)] :
                   /\ logs[Chosen(1)][i].key = k
                   /\ \A j \in DOMAIN logs[Chosen(1)] : j > i => logs[Chosen(1)][j].key # k
                   => tables[0][k] = Entry(logs[Chosen(1)][i])

Recovering ==
  /\ lsn = 0 /\ freed = {} /\ park.list = NoList
  /\ \A n \in Lsns : (n > 0 \/ pc \notin {"readlog", "remerge"} => tables[n] = Empty) /\ trigger[n].key = NoKey
  /\ Recoverable
  /\ pc # "down" => \A k \in InStore : k \in bloom
  /\ pc = "openlog" => \A n \in Lsns : logs[n] = << >>
  /\ pc \in {"readlog", "remerge", "remove"} => Selected
  /\ pc = "readlog" => /\ replay.rec <= Len(ReplayLog) + 1
                       /\ replay.chosen # << >>
                       /\ ReadUpTo(replay.log, replay.rec - 1)
                       /\ replay.log = 2 => logs[Chosen(1)] # << >>
  /\ pc = "remerge" => replay.chosen # << >> /\ ReadUpTo(Len(replay.chosen), Len(logs[Chosen(Len(replay.chosen))]))
  /\ pc = "remove" => \A k \in Keys : store[k] = latest[k]

LogFiles ==
  /\ \A n \in Lsns \ files : logs[n] = << >>
  /\ ~ IsLog => \A n \in Lsns : logs[n] = << >>

Readable ==
  hazards = {} =>
    /\ LogFiles
    /\ Up => Serving
    /\ ~ Up /\ pc # "fault" => Recovering

-----------------------------------------------------------------------------
(* The operators *)

LEMMA EntriesHaveValues ==
  ASSUME NEW r, r.opt \in Opts
  PROVE  Entry(r).opt = r.opt /\ Entry(r) # None /\ Value(Entry(r)) = Value(r)
  BY DEF Entry, None, Value, Opts

LEMMA EmptyHasNone == \A k \in Keys : Empty[k] = None /\ Empty[k].opt = "NONE" /\ None.opt = "NONE"
  BY DEF Empty, None

LEMMA TableEntries ==
  ASSUME NEW t \in Tables, NEW k \in Keys
  PROVE  /\ t[k].opt \in {"ADD", "DEL", "NONE"} /\ t[k] \in Entries
         /\ t[k] = None => t[k].opt = "NONE"
  BY DEF Tables, Entries, Opts, None

LEMMA EmptyIsNotFull == NotFull(Empty)
  <1>1. {k \in Keys : Empty[k].opt # "NONE"} = {}
    BY EmptyHasNone
  <1>2. Count(Empty) = 0
    BY <1>1, FS_EmptySet DEF Count
  <1> QED
    BY <1>2, IndexAssumption DEF NotFull

LEMMA MergedIs ==
  ASSUME NEW s \in [Keys -> Nat], NEW t \in Tables, NEW k \in Keys
  PROVE  Merged(s, t)[k] = IF t[k].opt = "NONE" THEN s[k] ELSE Value(t[k])
  BY TableEntries DEF Merged, Value

LEMMA KeysOfEmpty == KeysOf(<< >>) = {}
  BY DEF KeysOf

LEMMA AppendedRecord ==
  ASSUME NEW l \in Seq(Records), NEW r \in Records
  PROVE  /\ LastRecord(Append(l, r), r.key, Entry(r))
         /\ KeysOf(Append(l, r)) = KeysOf(l) \cup {r.key}
         /\ \A k, e : k # r.key /\ LastRecord(l, k, e) => LastRecord(Append(l, r), k, e)
  <1> DEFINE a == Append(l, r)
  <1>1. /\ Len(l) \in Nat /\ DOMAIN l = 1 .. Len(l) /\ DOMAIN a = 1 .. Len(l) + 1
        /\ \A i \in DOMAIN l : i \in DOMAIN a /\ a[i] = l[i]
        /\ Len(l) + 1 \in DOMAIN a /\ a[Len(l) + 1] = r
    OBVIOUS
  <1>2. \A i \in DOMAIN a : i \in DOMAIN l \/ i = Len(l) + 1
    BY <1>1
  <1> HIDE DEF a
  <1>3. LastRecord(a, r.key, Entry(r))
    <2>1. \A j \in DOMAIN a : ~ j > Len(l) + 1
      BY <1>1
    <2> QED
      BY <1>1, <2>1 DEF LastRecord
  <1>4. KeysOf(a) = KeysOf(l) \cup {r.key}
    BY <1>1, <1>2 DEF KeysOf
  <1>5. \A k, e : k # r.key /\ LastRecord(l, k, e) => LastRecord(a, k, e)
    BY <1>1, <1>2 DEF LastRecord
  <1> QED
    BY <1>3, <1>4, <1>5 DEF a

(* A key's last record in a log, if it has one. *)
LEMMA LastIsThere ==
  ASSUME NEW l \in Seq(Records), NEW k \in KeysOf(l)
  PROVE  \E i \in DOMAIN l : l[i].key = k /\ \A j \in DOMAIN l : j > i => l[j].key # k
  <1> DEFINE is == {i \in DOMAIN l : l[i].key = k}
  <1>1. Len(l) \in Nat /\ DOMAIN l = 1 .. Len(l)
    OBVIOUS
  <1>2. is \in SUBSET (1 .. Len(l)) /\ is # {} /\ is \subseteq Int
    BY <1>1 DEF KeysOf
  <1>3. IsFiniteSet(1 .. Len(l))
    BY <1>1, FS_Interval
  <1>4. IsFiniteSet(is)
    <2> HIDE DEF is
    <2> QED
      BY <1>2, <1>3, FS_Subset
  <1>5. PICK i \in is : \A j \in is : i >= j
    <2> HIDE DEF is
    <2> QED
      BY <1>2, <1>4, GreatestElement
  <1>6. i \in DOMAIN l /\ l[i].key = k
    OBVIOUS
  <1>7. \A j \in DOMAIN l : j > i => l[j].key # k
    BY <1>1, <1>5, <1>6
  <1> QED
    BY <1>6, <1>7

LEMMA LastIsUnique ==
  ASSUME NEW l \in Seq(Records), NEW k, NEW e, LastRecord(l, k, e),
         NEW i \in DOMAIN l, l[i].key = k, \A j \in DOMAIN l : j > i => l[j].key # k
  PROVE  Entry(l[i]) = e /\ Value(l[i]) = Value(e) /\ e # None /\ k \in KeysOf(l)
  <1>1. PICK m \in DOMAIN l : /\ l[m].key = k /\ Entry(l[m]) = e
                              /\ \A j \in DOMAIN l : j > m => l[j].key # k
    BY DEF LastRecord
  <1>2. i \in Nat /\ m \in Nat
    OBVIOUS
  <1>3. i = m
    BY <1>1, <1>2
  <1>4. l[i] \in Records
    OBVIOUS
  <1> QED
    BY <1>1, <1>3, <1>4, EntriesHaveValues DEF KeysOf, Records

LEMMA LastIsRecorded ==
  ASSUME NEW l \in Seq(Records), NEW k, NEW e, LastRecord(l, k, e)
  PROVE  k \in KeysOf(l) /\ e.opt \in Opts
  <1>1. PICK i \in DOMAIN l : l[i].key = k /\ Entry(l[i]) = e
    BY DEF LastRecord
  <1>2. l[i] \in Records
    OBVIOUS
  <1> QED
    BY <1>1, <1>2, EntriesHaveValues DEF KeysOf, Records

-----------------------------------------------------------------------------
(* index_add *)

LEMMA CurrentIsLive ==
  ASSUME TypeOK, Protocol, pc \notin {"closelog", "closing", "fault"}
  PROVE  lsn \notin freed
  <1>1. lsn \in Lsns /\ lsn >= lsn
    BY IndexAssumption DEF TypeOK, Lsns
  <1>2. jobs[lsn].pc = "none"
    BY <1>1 DEF Protocol
  <1> QED
    BY <1>2 DEF Protocol

LEMMA InitReadable == Init => Readable
  <1> SUFFICES ASSUME Init PROVE LogFiles /\ Serving
    BY DEF Readable, Up, Init
  <1>1. Lsns \subseteq Int /\ 0 \in Lsns
    BY IndexAssumption DEF Lsns
  <1>2. LogFiles
    BY DEF Init, LogFiles
  <1>3. Rotation
    BY <1>1 DEF Init, Rotation, Lsns
  <1>4. Current
    BY <1>1, EmptyHasNone DEF Init, Current, Held, Writing
  <1>5. Filtered
    BY <1>1, EmptyHasNone DEF Init, Filtered, InStore, Adds
  <1>6. Reading
    BY DEF Init, Reading, ReadPcs
  <1>7. Logged
    BY <1>1, EmptyHasNone, KeysOfEmpty DEF Init, Logged, Later
  <1> QED
    BY <1>2, <1>3, <1>4, <1>5, <1>6, <1>7 DEF Serving

LEMMA LogAppendReads ==
  ASSUME TypeOK, Protocol, LogFiles, Serving,
         NEW k \in Keys, NEW opt \in Opts, LogAppend(k, opt)
  PROVE  LogFiles' /\ Serving'
  <1> USE DEF memory
  <1> DEFINE r == [key |-> k, off |-> dbAlloc, opt |-> opt]
  <1>1. /\ r \in Records /\ lsn \in Lsns /\ lsn \in Nat /\ Lsns \subseteq Nat
        /\ \A n \in 0 .. lsn : n \in Lsns
    BY IndexAssumption DEF TypeOK, Records, Lsns
  <1>2. /\ logs' = IF IsLog THEN [logs EXCEPT ![lsn] = Append(@, r)] ELSE logs
        /\ UNCHANGED <<files, store, lsn, tables, freed, park, bloom, trigger>>
        /\ pc = "idle" /\ pc' = "add" /\ op'.key = k /\ op'.off = dbAlloc /\ op'.opt = opt
        /\ latest' = [latest EXCEPT ![k] = IF opt = "ADD" THEN dbAlloc ELSE 0]
    BY DEF LogAppend
  <1>3. lsn \notin freed /\ lsn \in files
    BY <1>1, <1>2, CurrentIsLive DEF Serving, Logged
  <1>4. /\ \A n \in Lsns : n # lsn => logs'[n] = logs[n]
        /\ IsLog => logs'[lsn] = Append(logs[lsn], r)
        /\ ~ IsLog => logs' = logs
    BY <1>1, <1>2 DEF TypeOK
  <1>5. LogFiles'
    BY <1>2, <1>3, <1>4 DEF LogFiles
  <1>6. Rotation'
    BY <1>1, <1>2, <1>4 DEF Serving, Rotation
  <1>7. Current'
    <2>1. \A j \in Keys : latest'[j] = IF j = k THEN Value(op') ELSE Held(j)
      BY <1>2 DEF TypeOK, Serving, Current, Writing, Value
    <2>2. \A j \in Keys : Held(j)' = Held(j)
      BY <1>2 DEF Held
    <2> QED
      BY <1>2, <1>3, <2>1, <2>2 DEF Serving, Current, Writing
  <1>8. Filtered' /\ Reading'
    BY <1>2 DEF Serving, Filtered, Reading, InStore, Adds, ReadPcs
  <1>9. Logged'
    <2> USE DEF Serving, Logged
    <2>1. /\ \A n \in (0 .. lsn) \ freed : n \in files
          /\ \A n \in 1 .. lsn : /\ trigger[n].key \in Keys /\ trigger[n].opt \in Opts
                                 /\ tables[n][trigger[n].key].opt # "NONE"
      BY <1>2
    <2>2. ASSUME IsLog, NEW n \in 0 .. lsn, n \in files, NEW j \in Keys
          PROVE  /\ Later(n, j)' => LastRecord(logs'[n], j, Entry(LastWrite(n)'))
                 /\ j \in KeysOf(logs'[n]) /\ ~ Later(n, j)' => LastRecord(logs'[n], j, tables[n][j])
                 /\ j \notin KeysOf(logs'[n]) /\ tables[n][j].opt # "NONE" =>
                      n > 0 /\ trigger[n].key = j /\ tables[n][j] = Entry(trigger[n])
      <3>1. CASE n < lsn
        <4>1. logs'[n] = logs[n]
          BY <1>1, <1>4, <3>1
        <4>2. Later(n, j)' <=> Later(n, j)
          BY <1>1, <1>2, <3>1 DEF Later
        <4>3. LastWrite(n)' = LastWrite(n)
          BY <1>2, <3>1 DEF LastWrite
        <4> QED
          BY <2>2, <4>1, <4>2, <4>3
      <3>2. CASE n = lsn
        <4>1. logs[lsn] \in Seq(Records) /\ logs'[lsn] = Append(logs[lsn], r)
          BY <1>1, <1>4, <2>2 DEF TypeOK
        <4>2. /\ LastRecord(logs'[lsn], k, Entry(r))
              /\ KeysOf(logs'[lsn]) = KeysOf(logs[lsn]) \cup {k}
              /\ \A e : j # k /\ LastRecord(logs[lsn], j, e) => LastRecord(logs'[lsn], j, e)
          BY <1>1, <4>1, AppendedRecord
        <4>3. Later(n, j)' <=> j = k
          BY <1>1, <1>2, <3>2 DEF Later
        <4>4. ~ Later(n, j)
          BY <1>1, <1>2, <3>2 DEF Later
        <4>5. Entry(LastWrite(n)') = Entry(r)
          BY <1>1, <1>2, <3>2 DEF LastWrite, Entry
        <4> QED
          BY <2>2, <3>2, <4>2, <4>3, <4>4, <4>5
      <3> QED
        BY <1>1, <3>1, <3>2
    <2> QED
      BY <1>2, <2>1, <2>2
  <1> QED
    BY <1>5, <1>6, <1>7, <1>8, <1>9 DEF Serving

LEMMA ParkReads ==
  ASSUME PromptMerge, TypeOK, Protocol, LogFiles, Serving, Park
  PROVE  LogFiles' /\ Serving'
  <1>1. /\ UNCHANGED <<files, logs, store, lsn, tables, freed, bloom, trigger, op, latest>>
        /\ pc = "add" /\ pc' = "spawn"
    BY DEF Park, disk
  <1>2. \A n \in Lsns : n < lsn => n \in freed
    <2>1. ASSUME NEW n \in Lsns, n < lsn PROVE n \in freed
      <3>1. ~ (n >= lsn) /\ n # NoJob
        BY <2>1 DEF Lsns, TypeOK, NoJob
      <3>2. jobs[n].pc \in JobPcs \ {"none"}
        BY <3>1 DEF Protocol, TypeOK, JobRecords
      <3>3. ~ Pending(n)
        BY <3>1 DEF Park, MayPark, Pending, Protocol
      <3> QED
        BY <3>2, <3>3 DEF Protocol, Pending, JobPcs
    <2> QED
      BY <2>1
  <1>3. LogFiles' /\ Filtered' /\ Reading'
    BY <1>1 DEF LogFiles, Serving, Filtered, Reading, InStore, Adds, ReadPcs
  <1>4. Rotation'
    BY <1>1, <1>2 DEF Serving, Rotation
  <1>5. Current'
    BY <1>1 DEF Serving, Current, Held, Writing
  <1>6. Logged'
    BY <1>1 DEF Serving, Logged, Later, LastWrite
  <1> QED
    BY <1>3, <1>4, <1>5, <1>6 DEF Serving

LEMMA SpawnReads ==
  ASSUME TypeOK, Protocol, LogFiles, Serving, Spawn
  PROVE  LogFiles' /\ Serving'
  <1>1. /\ lsn \in Lsns /\ lsn + 1 \in Lsns /\ Lsns \subseteq Nat /\ lsn \in Nat
        /\ \A n \in 0 .. lsn : n \in Lsns
    BY IndexAssumption DEF TypeOK, Spawn, Lsns
  <1>2. /\ UNCHANGED <<store, tables, freed, park, bloom, op, latest>>
        /\ lsn' = lsn + 1 /\ pc = "spawn" /\ pc' = "insert"
        /\ files' = files \cup {lsn + 1}
        /\ \A n \in Lsns : n # lsn + 1 => logs'[n] = logs[n] /\ trigger'[n] = trigger[n]
        /\ logs'[lsn + 1] = << >> /\ trigger'[lsn + 1] = op
        /\ park.list = lsn
    BY <1>1 DEF Spawn, TypeOK, Protocol
  <1>3. lsn \notin freed /\ lsn + 1 \notin freed
    <2>1. jobs[lsn].pc = "none" /\ jobs[lsn + 1].pc = "none"
      BY <1>1 DEF Protocol
    <2> QED
      BY <1>1, <1>2, <2>1 DEF Protocol
  <1>4. tables[lsn + 1] = Empty
    BY <1>1 DEF Serving, Rotation
  <1>5. LogFiles'
    BY <1>1, <1>2 DEF LogFiles
  <1>6. Rotation'
    BY <1>1, <1>2, <1>4 DEF Serving, Rotation
  <1>7. Current'
    <2>1. \A k \in Keys : Held(k)' = Held(k)
      <3> TAKE k \in Keys
      <3>1. Held(k)' = IF tables[lsn][k].opt # "NONE" THEN Value(tables[lsn][k]) ELSE store[k]
        BY <1>1, <1>2, <1>4, EmptyHasNone DEF Held
      <3>2. CASE tables[lsn][k].opt = "NONE" /\ lsn > 0 /\ tables[lsn - 1][k].opt # "NONE"
        <4>1. lsn - 1 \in freed /\ lsn - 1 \in 0 .. lsn
          BY <1>1, <1>2, <3>2 DEF Serving, Rotation, Lsns
        <4>2. \A m \in 0 .. lsn : m > lsn - 1 /\ m \in freed => tables[m][k].opt = "NONE"
          BY <1>1, <3>2
        <4>3. store[k] = Value(tables[lsn - 1][k])
          BY <3>2, <4>1, <4>2 DEF Serving, Current
        <4> QED
          BY <3>1, <3>2, <4>3 DEF Held
      <3> QED
        BY <3>1, <3>2 DEF Held
    <2>2. \A k \in Keys, n \in 0 .. lsn + 1 :
            /\ n \in freed /\ tables[n][k].opt # "NONE"
            /\ \A m \in 0 .. lsn + 1 : m > n /\ m \in freed => tables[m][k].opt = "NONE"
            => store[k] = Value(tables[n][k])
      <3>1. \A n \in 0 .. lsn + 1 : n \in freed => n \in 0 .. lsn
        BY <1>1, <1>3
      <3>2. \A m \in 0 .. lsn : m \in 0 .. lsn + 1
        BY <1>1
      <3> QED
        BY <3>1, <3>2 DEF Serving, Current
    <2> QED
      BY <1>2, <1>3, <2>1, <2>2 DEF Serving, Current, Writing
  <1>8. Filtered' /\ Reading'
    BY <1>2 DEF Serving, Filtered, Reading, InStore, Adds, ReadPcs
  <1>9. Logged'
    <2> USE DEF Serving, Logged
    <2>1. \A n \in (0 .. lsn + 1) \ freed : n \in files'
      BY <1>1, <1>2
    <2>2. ASSUME NEW n \in 1 .. lsn + 1
          PROVE  /\ trigger'[n].key \in Keys /\ trigger'[n].opt \in Opts
                 /\ n < lsn + 1 => tables[n][trigger'[n].key].opt # "NONE"
      <3>1. CASE n = lsn + 1
        BY <1>2, <3>1 DEF TypeOK
      <3>2. CASE n # lsn + 1
        <4>1. n \in 1 .. lsn /\ n \in Lsns
          BY <1>1, <3>2
        <4> QED
          BY <1>2, <3>2, <4>1
      <3> QED
        BY <3>1, <3>2
    <2>3. ASSUME IsLog, NEW n \in 0 .. lsn + 1, n \in files', NEW k \in Keys
          PROVE  /\ Later(n, k)' => LastRecord(logs'[n], k, Entry(LastWrite(n)'))
                 /\ k \in KeysOf(logs'[n]) /\ ~ Later(n, k)' => LastRecord(logs'[n], k, tables[n][k])
                 /\ k \notin KeysOf(logs'[n]) /\ tables[n][k].opt # "NONE" =>
                      n > 0 /\ trigger'[n].key = k /\ tables[n][k] = Entry(trigger'[n])
      <3>1. CASE n = lsn + 1
        <4>1. ~ Later(n, k)'
          BY <1>1, <1>2, <3>1 DEF Later
        <4> QED
          BY <1>2, <1>4, <3>1, <4>1, KeysOfEmpty, EmptyHasNone
      <3>2. CASE n # lsn + 1
        <4>1. n \in 0 .. lsn /\ n \in Lsns /\ n \in files /\ n < lsn + 1
          BY <1>1, <1>2, <2>3, <3>2
        <4>2. logs'[n] = logs[n] /\ trigger'[n] = trigger[n]
          BY <1>2, <3>2, <4>1
        <4>3. n < lsn => n + 1 \in Lsns /\ n + 1 # lsn + 1 /\ trigger'[n + 1] = trigger[n + 1]
          BY <1>1, <1>2, <4>1 DEF Lsns
        <4>4. n = lsn \/ n < lsn
          BY <1>1, <4>1
        <4>5. Later(n, k)' <=> Later(n, k)
          BY <1>1, <1>2, <4>1, <4>3, <4>4 DEF Later
        <4>6. LastWrite(n)' = LastWrite(n)
          BY <1>1, <1>2, <4>1, <4>3, <4>4 DEF LastWrite
        <4> QED
          BY <2>3, <4>1, <4>2, <4>5, <4>6
      <3> QED
        BY <3>1, <3>2
    <2> QED
      BY <1>2, <2>1, <2>2, <2>3
  <1> QED
    BY <1>5, <1>6, <1>7, <1>8, <1>9 DEF Serving

LEMMA InsertReads ==
  ASSUME TypeOK, Protocol, LogFiles, Serving, Insert
  PROVE  LogFiles' /\ Serving'
  <1>1. /\ lsn \in Lsns /\ Lsns \subseteq Nat /\ lsn \in Nat /\ tables \in [Lsns -> Tables]
        /\ \A n \in 0 .. lsn : n \in Lsns
        /\ op.key \in Keys /\ op.opt \in Opts
    BY IndexAssumption DEF TypeOK, Insert, Lsns
  <1>2. /\ UNCHANGED <<files, logs, store, lsn, freed, park, trigger, latest>>
        /\ pc \in {"add", "insert"} /\ pc' = "idle"
        /\ bloom' = IF op.opt = "ADD" THEN bloom \cup {op.key} ELSE bloom
    BY DEF Insert, disk
  <1>3. NotFull(tables[lsn])
    BY EmptyIsNotFull DEF Insert, Serving, Rotation
  <1>4. /\ \A n \in Lsns : n # lsn => tables'[n] = tables[n]
        /\ tables'[lsn] = [tables[lsn] EXCEPT ![op.key] = Entry(op)]
    BY <1>1, <1>3 DEF Insert, Inserted
  <1>5. /\ tables'[lsn][op.key] = Entry(op) /\ Entry(op).opt # "NONE"
        /\ \A k \in Keys : k # op.key => tables'[lsn][k] = tables[lsn][k]
    BY <1>1, <1>4, EntriesHaveValues DEF Tables, Opts
  <1>6. lsn \notin freed
    BY <1>2, CurrentIsLive
  <1>7. LogFiles'
    BY <1>2 DEF LogFiles
  <1>8. Rotation'
    BY <1>1, <1>2, <1>4 DEF Serving, Rotation
  <1>9. Current'
    <2>1. \A k \in Keys : Held(k)' = IF k = op.key THEN Value(op) ELSE Held(k)
      <3> TAKE k \in Keys
      <3>1. lsn > 0 => tables'[lsn - 1] = tables[lsn - 1]
        BY <1>1, <1>4 DEF Lsns
      <3> QED
        BY <1>1, <1>2, <1>5, <3>1, EntriesHaveValues DEF Held
    <2>2. \A k \in Keys : latest'[k] = Held(k)'
      BY <1>2, <2>1 DEF Serving, Current, Writing
    <2>3. \A n \in 0 .. lsn : n \in freed => tables'[n] = tables[n]
      BY <1>1, <1>4, <1>6
    <2> QED
      BY <1>2, <1>6, <2>2, <2>3 DEF Serving, Current, Writing
  <1>10. Filtered'
    <2>1. \A k \in Adds(tables'[lsn]) : k \in bloom'
      <3> TAKE k \in Adds(tables'[lsn])
      <3>1. CASE k = op.key
        BY <1>2, <1>5, <3>1, <1>1, EntriesHaveValues DEF Adds
      <3>2. CASE k # op.key
        BY <1>1, <1>2, <1>5, <3>2 DEF Serving, Filtered, Adds
      <3> QED
        BY <3>1, <3>2
    <2> QED
      BY <1>2, <1>4, <2>1 DEF Serving, Filtered, InStore
  <1>11. Reading'
    BY <1>2 DEF Reading, ReadPcs
  <1>12. Logged'
    <2> USE DEF Serving, Logged
    <2>1. ASSUME NEW n \in 1 .. lsn
          PROVE  /\ trigger[n].key \in Keys /\ trigger[n].opt \in Opts
                 /\ tables'[n][trigger[n].key].opt # "NONE"
      <3>1. CASE n = lsn /\ pc = "insert"
        BY <1>1, <1>5, <2>1, <3>1 DEF Rotation
      <3>2. CASE n # lsn \/ pc = "add"
        <4>1. tables[n][trigger[n].key].opt # "NONE" /\ trigger[n].key \in Keys /\ n \in Lsns
          BY <1>1, <2>1, <3>2
        <4> QED
          <5>1. n \in Lsns /\ trigger[n].key \in Keys /\ trigger[n].opt \in Opts
            BY <1>1, <2>1, <4>1
          <5>2. CASE n # lsn
            BY <1>4, <4>1, <5>1, <5>2
          <5>3. CASE n = lsn
            BY <1>5, <4>1, <5>1, <5>3
          <5> QED
            BY <5>1, <5>2, <5>3
      <3> QED
        BY <1>2, <3>1, <3>2
    <2>2. ASSUME IsLog, NEW n \in 0 .. lsn, n \in files, NEW k \in Keys
          PROVE  /\ Later(n, k)' => LastRecord(logs[n], k, Entry(LastWrite(n)'))
                 /\ k \in KeysOf(logs[n]) /\ ~ Later(n, k)' => LastRecord(logs[n], k, tables'[n][k])
                 /\ k \notin KeysOf(logs[n]) /\ tables'[n][k].opt # "NONE" =>
                      n > 0 /\ trigger[n].key = k /\ tables'[n][k] = Entry(trigger[n])
      <3>1. CASE n < lsn
        <4>1. tables'[n] = tables[n]
          BY <1>1, <1>4, <3>1 DEF Lsns
        <4>2. Later(n, k)' <=> Later(n, k)
          BY <1>1, <1>2, <3>1 DEF Later
        <4>3. LastWrite(n)' = LastWrite(n)
          BY <1>2, <3>1 DEF LastWrite
        <4> QED
          BY <2>2, <4>1, <4>2, <4>3
      <3>2. CASE n = lsn /\ pc = "add"
        <4>1. ~ Later(n, k)'
          BY <1>1, <1>2, <3>2 DEF Later
        <4>2. Later(n, k) <=> k = op.key
          BY <1>1, <1>2, <3>2 DEF Later
        <4>3. LastWrite(n) = op
          BY <1>1, <3>2 DEF LastWrite
        <4>4. k = op.key => LastRecord(logs[n], k, Entry(op)) /\ k \in KeysOf(logs[n])
          <5>1. logs[n] \in Seq(Records)
            BY <1>1 DEF TypeOK
          <5> QED
            BY <2>2, <4>2, <4>3, <5>1, LastIsRecorded
        <4> QED
          BY <1>5, <2>2, <3>2, <4>1, <4>2, <4>4
      <3>3. CASE n = lsn /\ pc = "insert"
        <4>1. ~ Later(n, k)'
          BY <1>1, <1>2, <3>3 DEF Later
        <4>2. logs[n] = << >> /\ trigger[n] = op /\ tables[n] = Empty /\ n > 0
          BY <3>3 DEF Rotation
        <4> QED
          BY <1>5, <3>3, <4>1, <4>2, KeysOfEmpty, EmptyHasNone
      <3> QED
        BY <1>1, <1>2, <3>1, <3>2, <3>3
    <2> QED
      BY <1>2, <2>1, <2>2
  <1> QED
    BY <1>7, <1>8, <1>9, <1>10, <1>11, <1>12 DEF Serving

-----------------------------------------------------------------------------
(* index_get *)

(* A step of a lookup.                                                     *)
LEMMA LookupReads ==
  ASSUME LogFiles, Serving, UNCHANGED unchangedByGet,
         pc \in {"idle", "got"} \cup ReadPcs, pc' \in {"idle", "got"} \cup ReadPcs, Reading'
  PROVE  LogFiles' /\ Serving'
  <1>1. /\ UNCHANGED <<files, logs, store, lsn, tables, freed, park, bloom, trigger, latest>>
        /\ pc \notin {"add", "spawn", "insert"} /\ pc' \notin {"add", "spawn", "insert"}
    BY DEF unchangedByGet, disk, memory, ReadPcs
  <1>2. LogFiles' /\ Rotation' /\ Filtered'
    BY <1>1 DEF LogFiles, Serving, Rotation, Filtered, InStore, Adds
  <1>3. Current'
    BY <1>1 DEF Serving, Current, Held, Writing
  <1>4. Logged'
    BY <1>1 DEF Serving, Logged, Later, LastWrite
  <1> QED
    BY <1>2, <1>3, <1>4 DEF Serving

(* A lookup through the tables it has not found its key in. *)
LEMMA BehindTheTable ==
  ASSUME TypeOK, Protocol, Serving, pc \in ReadPcs, op.key \in Keys,
         lsn = 0 \/ lsn - 1 \in freed \/ tables[lsn - 1][op.key].opt = "NONE"
  PROVE  store[op.key] = latest[op.key]
  <1>1. lsn \in Nat /\ lsn \notin freed /\ tables[lsn][op.key].opt = "NONE"
    BY CurrentIsLive, IndexAssumption, SMTT(30) DEF TypeOK, Lsns, Serving, Reading, ReadPcs
  <1>2. latest[op.key] = Held(op.key)
    BY DEF Serving, Current, Writing, ReadPcs
  <1>3. CASE lsn > 0 /\ tables[lsn - 1][op.key].opt # "NONE"
    <2>1. lsn - 1 \in 0 .. lsn /\ lsn - 1 \in freed
      BY <1>1, <1>3
    <2>2. \A m \in 0 .. lsn : m > lsn - 1 /\ m \in freed => tables[m][op.key].opt = "NONE"
      BY <1>1
    <2>3. store[op.key] = Value(tables[lsn - 1][op.key])
      BY <1>3, <2>1, <2>2 DEF Serving, Current
    <2> QED
      BY <1>1, <1>2, <1>3, <2>3 DEF Held
  <1> QED
    BY <1>1, <1>2, <1>3 DEF Held

LEMMA GetListReads ==
  ASSUME TypeOK, Protocol, LogFiles, Serving, NEW k \in Keys, GetList(k)
  PROVE  LogFiles' /\ Serving'
  <1>1. /\ UNCHANGED unchangedByGet /\ pc = "idle" /\ pc' \in {"got", "getpark"}
        /\ UNCHANGED <<tables, lsn, latest>>
    BY DEF GetList, Answer, unchangedByGet, memory
  <1>2. latest[k] = Held(k)
    BY <1>1 DEF Serving, Current, Writing
  <1>3. lsn \in Lsns /\ (lsn > 0 => lsn - 1 \in Lsns)
    BY IndexAssumption DEF TypeOK, Lsns
  <1>4. ASSUME k \notin bloom PROVE Held(k) = 0
    <2>1. \A n \in Lsns : Value(tables[n][k]) = 0
      BY <1>4 DEF Serving, Filtered, Adds, Value
    <2>2. store[k] = 0
      BY <1>4 DEF Serving, Filtered, InStore
    <2>3. lsn > 0 => lsn - 1 \in Lsns
      BY <1>3
    <2> QED
      BY <1>3, <2>1, <2>2, <2>3 DEF Held
  <1>5. tables[lsn][k].opt # "NONE" => Held(k) = Value(tables[lsn][k])
    BY DEF Held
  <1>6. Reading'
    <2>1. CASE pc' = "got"
      <3>1. op'.off = Held(k) /\ op'.key = k
        BY <1>4, <1>5, <2>1 DEF GetList, Answer, Value
      <3> QED
        BY <1>1, <1>2, <2>1, <3>1 DEF Reading, ReadPcs
    <2>2. CASE pc' = "getpark"
      <3>1. tables[lsn][k].opt = "NONE" /\ op' = [NoOp EXCEPT !.key = k]
        BY <2>2 DEF GetList, Answer
      <3> QED
        BY <1>1, <2>2, <3>1 DEF Reading, ReadPcs, NoOp
    <2> QED
      BY <1>1, <2>1, <2>2
  <1> QED
    BY <1>1, <1>6, LookupReads DEF ReadPcs

LEMMA GetParkReads ==
  ASSUME TypeOK, Protocol, LogFiles, Serving, GetPark
  PROVE  LogFiles' /\ Serving'
  <1>1. /\ UNCHANGED unchangedByGet /\ pc = "getpark" /\ pc' \in {"getsilo", "getparked"}
        /\ UNCHANGED <<tables, lsn, latest, freed, park>> /\ op.via = "none"
        /\ op \in Ops
    BY DEF GetPark, unchangedByGet, memory, Serving, Reading, TypeOK
  <1>2. lsn \in Nat /\ lsn \notin freed
    BY <1>1, CurrentIsLive, IndexAssumption DEF TypeOK, Lsns
  <1>3. CASE park.list = NoList
    <2>1. pc' = "getsilo" /\ op' = op
      BY <1>3 DEF GetPark
    <2>2. lsn = 0 \/ lsn - 1 \in freed
      <3>1. ASSUME lsn > 0 PROVE lsn - 1 \in freed
        <4>1. lsn - 1 \in Lsns /\ ~ (lsn - 1 >= lsn) /\ lsn - 1 # NoList
          BY <1>2, <3>1, IndexAssumption DEF TypeOK, Lsns, NoList
        <4>2. jobs[lsn - 1].pc \in JobPcs \ {"none"} /\ ~ Pending(lsn - 1)
          BY <1>3, <4>1 DEF Protocol, TypeOK, JobRecords
        <4> QED
          BY <4>1, <4>2 DEF Protocol, Pending, JobPcs
      <3> QED
        BY <1>2, <3>1
    <2>3. Reading'
      BY <1>1, <2>1, <2>2 DEF Serving, Reading, ReadPcs
    <2> QED
      BY <1>1, <2>1, <2>3, LookupReads DEF ReadPcs
  <1>4. CASE park.list # NoList
    <2>1. pc' = "getparked" /\ op' = [op EXCEPT !.off = park.list]
      BY <1>4 DEF GetPark
    <2>2. park.list = lsn - 1 /\ lsn > 0
      BY <1>1, <1>4 DEF Serving, Rotation
    <2>3. op'.key = op.key /\ op'.via = op.via /\ op'.off = lsn - 1
      BY <1>1, <2>1, <2>2 DEF Ops
    <2>4. Reading'
      BY <1>1, <2>1, <2>2, <2>3 DEF Serving, Reading, ReadPcs
    <2> QED
      BY <1>1, <2>1, <2>4, LookupReads DEF ReadPcs
  <1> QED
    BY <1>3, <1>4

LEMMA GetParkedReads ==
  ASSUME TypeOK, Protocol, LogFiles, Serving, GetParked, pc' # "fault"
  PROVE  LogFiles' /\ Serving'
  <1>1. /\ UNCHANGED unchangedByGet /\ pc = "getparked" /\ pc' \in {"getsilo", "got"}
        /\ UNCHANGED <<tables, lsn, latest, freed>>
        /\ op \in Ops /\ op.key \in Keys /\ op.off = lsn - 1 /\ lsn > 0
        /\ tables[lsn][op.key].opt = "NONE"
    BY DEF GetParked, Answer, unchangedByGet, memory, Serving, Reading, TypeOK, ReadPcs
  <1>2. latest[op.key] = Held(op.key)
    BY <1>1 DEF Serving, Current, Writing
  <1>3. tables[lsn - 1][op.key].opt \in {"ADD", "DEL", "NONE"}
    BY <1>1, TableEntries DEF TypeOK
  <1>4. Reading'
    <2>1. CASE pc' = "got"
      <3>1. /\ tables[lsn - 1][op.key].opt = "ADD"
            /\ op'.off = tables[lsn - 1][op.key].off /\ op'.key = op.key
        BY <1>1, <2>1 DEF GetParked, Answer
      <3>2. Held(op.key) = tables[lsn - 1][op.key].off
        BY <1>1, <3>1 DEF Held, Value
      <3> QED
        BY <1>1, <1>2, <2>1, <3>1, <3>2 DEF Reading, ReadPcs
    <2>2. CASE pc' = "getsilo"
      <3> DEFINE v == IF tables[lsn - 1][op.key].opt = "DEL" THEN "parkdel" ELSE "none"
      <3>1. /\ op' = [op EXCEPT !.off = 0, !.via = v]
            /\ tables[lsn - 1][op.key].opt # "ADD" \/ lsn - 1 \in freed
        BY <1>1, <2>2 DEF GetParked, Answer
      <3>2. op'.key = op.key /\ op'.via = v
        BY <1>1, <3>1 DEF Ops
      <3> QED
        BY <1>1, <1>3, <2>2, <3>1, <3>2 DEF Reading, ReadPcs
    <2> QED
      BY <1>1, <2>1, <2>2
  <1> QED
    BY <1>1, <1>4, LookupReads DEF ReadPcs

LEMMA GetSiloReads ==
  ASSUME TypeOK, Protocol, LogFiles, Serving, GetSilo
  PROVE  LogFiles' /\ Serving'
  <1>1. /\ UNCHANGED unchangedByGet /\ pc = "getsilo" /\ pc' = "got"
        /\ UNCHANGED latest /\ op.key \in Keys
        /\ op'.key = op.key /\ op'.off = store[op.key]
        /\ op'.via = IF op.via = "none" THEN "silo" ELSE op.via
    BY DEF GetSilo, Answer, unchangedByGet, TypeOK
  <1>2. op.via \in {"none", "parkdel"}
    BY <1>1 DEF Serving, Reading, ReadPcs
  <1>3. op.via = "none" => store[op.key] = latest[op.key]
    BY <1>1, BehindTheTable DEF Serving, Reading, ReadPcs
  <1>4. Reading'
    BY <1>1, <1>2, <1>3 DEF Reading, ReadPcs
  <1> QED
    BY <1>1, <1>4, LookupReads DEF ReadPcs

LEMMA GetDoneReads ==
  ASSUME LogFiles, Serving, GetDone
  PROVE  LogFiles' /\ Serving'
  <1>1. UNCHANGED unchangedByGet /\ pc = "got" /\ pc' = "idle"
    BY DEF GetDone
  <1>2. Reading'
    BY <1>1 DEF Reading, ReadPcs
  <1> QED
    BY <1>1, <1>2, LookupReads

-----------------------------------------------------------------------------
(* _merge_job and index_free *)

LEMMA JobMergeReads ==
  ASSUME TypeOK, Protocol, LogFiles, Serving, NEW n \in Lsns, JobMerge(n), pc' # "fault"
  PROVE  LogFiles' /\ Serving'
  <1>1. /\ lsn \in Lsns /\ Lsns \subseteq Nat /\ lsn \in Nat /\ \A m \in 0 .. lsn : m \in Lsns
        /\ store \in [Keys -> Nat]
        /\ \A m \in Lsns : tables[m] \in Tables
    <2>1. lsn \in Lsns /\ store \in [Keys -> Nat] /\ \A m \in Lsns : tables[m] \in Tables
      BY DEF TypeOK
    <2>2. Lsns \subseteq Nat
      BY IndexAssumption DEF Lsns
    <2>3. \A m \in 0 .. lsn : m \in Lsns
      BY <2>1, IndexAssumption DEF Lsns
    <2> QED
      BY <2>1, <2>2, <2>3
  <1>2. /\ UNCHANGED <<files, logs, lsn, tables, park, bloom, trigger, op, latest, pc>>
        /\ n \notin freed /\ freed' = freed \cup {n} /\ Pending(n)
        /\ store' = Merged(store, tables[n])
    BY DEF JobMerge, unchangedByJob, Protocol, Pending
  <1>3. n = lsn - 1 /\ lsn > 0 /\ lsn \notin freed /\ pc # "spawn"
    <2>1. n < lsn /\ pc # "spawn"
      BY <1>1, <1>2 DEF Protocol, Pending
    <2>2. ~ (n < lsn - 1) /\ lsn \notin freed
      BY <1>1, <1>2, <2>1 DEF Serving, Rotation, Current
    <2> QED
      BY <1>1, <2>1, <2>2
  <1>4. \A k \in Keys : store'[k] = IF tables[n][k].opt = "NONE" THEN store[k] ELSE Value(tables[n][k])
    BY <1>1, <1>2, MergedIs
  <1>5. LogFiles'
    BY <1>2 DEF LogFiles
  <1>6. Rotation'
    BY <1>2 DEF Serving, Rotation
  <1>7. Current'
    <2>1. \A k \in Keys : Held(k)' = Held(k)
      BY <1>2, <1>3, <1>4 DEF Held
    <2>2. ASSUME NEW k \in Keys, NEW i \in 0 .. lsn, i \in freed', tables[i][k].opt # "NONE",
                 \A m \in 0 .. lsn : m > i /\ m \in freed' => tables[m][k].opt = "NONE"
          PROVE  store'[k] = Value(tables[i][k])
      <3>1. CASE i = n
        BY <1>4, <2>2, <3>1
      <3>2. CASE i # n
        <4>1. i \in freed /\ i < n /\ n \in 0 .. lsn /\ n \in freed'
          BY <1>1, <1>2, <1>3, <2>2, <3>2
        <4>2. tables[n][k].opt = "NONE"
          BY <2>2, <4>1
        <4>3. store[k] = Value(tables[i][k])
          BY <1>2, <2>2, <4>1 DEF Serving, Current
        <4> QED
          BY <1>4, <4>2, <4>3
      <3> QED
        BY <3>1, <3>2
    <2>3. lsn \notin freed'
      BY <1>1, <1>2, <1>3
    <2> QED
      BY <1>2, <2>1, <2>2, <2>3 DEF Serving, Current, Writing
  <1>8. Filtered'
    <2>1. \A k \in Keys : store'[k] # 0 => store[k] # 0 \/ k \in Adds(tables[n])
      BY <1>1, <1>4, TableEntries DEF Value, Adds
    <2> QED
      BY <1>2, <2>1 DEF Serving, Filtered, InStore
  <1>9. Reading'
    BY <1>2 DEF Serving, Reading
  <1>10. Logged'
    BY <1>2 DEF Serving, Logged, Later, LastWrite
  <1> QED
    BY <1>5, <1>6, <1>7, <1>8, <1>9, <1>10 DEF Serving

LEMMA JobReads ==
  ASSUME TypeOK, Protocol, LogFiles, Serving, NEW n \in Lsns, Job(n), pc' # "fault"
  PROVE  LogFiles' /\ Serving'
  <1>1. CASE JobReadLsn(n) \/ JobReadList(n) \/ JobLock(n)
    <2>1. UNCHANGED <<files, logs, store, lsn, tables, freed, park, bloom, trigger, op, latest, pc>>
      BY <1>1 DEF JobReadLsn, JobReadList, JobLock, unchangedByJob
    <2>2. LogFiles' /\ Rotation' /\ Current' /\ Filtered'
      BY <2>1 DEF LogFiles, Serving, Rotation, Current, Held, Writing, Filtered, InStore, Adds
    <2>3. Reading' /\ Logged'
      BY <2>1 DEF Serving, Reading, Logged, Later, LastWrite
    <2> QED
      BY <2>2, <2>3 DEF Serving
  <1>2. CASE JobMerge(n)
    BY <1>2, JobMergeReads
  <1>3. CASE JobUnpark(n)
    <2>1. /\ UNCHANGED <<files, logs, store, lsn, tables, freed, bloom, trigger, op, latest, pc>>
          /\ park' = [park EXCEPT !.list = NoList]
      BY <1>3 DEF JobUnpark, unchangedByJob
    <2>2. LogFiles' /\ Current' /\ Filtered'
      BY <2>1 DEF LogFiles, Serving, Current, Held, Writing, Filtered, InStore, Adds
    <2>3. park'.list = NoList
      BY <2>1 DEF TypeOK
    <2>4. Rotation'
      BY <2>1, <2>3 DEF Serving, Rotation
    <2>5. Reading' /\ Logged'
      BY <2>1 DEF Serving, Reading, Logged, Later, LastWrite
    <2> QED
      BY <2>2, <2>4, <2>5 DEF Serving
  <1>4. CASE JobLogRemove(n)
    <2>1. n \in freed /\ LogOf(n) = n
      BY <1>4 DEF JobLogRemove, LogOf, Protocol
    <2>2. /\ UNCHANGED <<store, lsn, tables, freed, park, bloom, trigger, op, latest, pc>>
          /\ files' = files \ {n} /\ logs' = [logs EXCEPT ![n] = << >>]
      BY <1>4, <2>1 DEF JobLogRemove, unchangedByJob
    <2>3. logs'[n] = << >> /\ \A m \in Lsns : m # n => logs'[m] = logs[m]
      BY <2>2 DEF TypeOK
    <2>4. LogFiles' /\ Current' /\ Filtered'
      BY <2>2, <2>3 DEF LogFiles, Serving, Current, Held, Writing, Filtered, InStore, Adds
    <2>5. Rotation' /\ Reading'
      <3>1. pc = "insert" => logs'[lsn] = << >>
        BY <2>3 DEF Serving, Rotation, TypeOK
      <3> QED
        BY <2>2, <2>3, <3>1 DEF Serving, Rotation, Reading
    <2>6. Logged'
      <3>1. \A m \in 0 .. lsn : m \in files' => m \in files /\ logs'[m] = logs[m]
        BY <2>2, <2>3 DEF TypeOK
      <3>2. \A m \in (0 .. lsn) \ freed : m \in files'
        BY <2>1, <2>2 DEF Serving, Logged
      <3> QED
        BY <2>2, <3>1, <3>2 DEF Serving, Logged, Later, LastWrite
    <2> QED
      BY <2>4, <2>5, <2>6 DEF Serving
  <1> QED
    BY <1>1, <1>2, <1>3, <1>4 DEF Job

LEMMA CloseMergeReads ==
  ASSUME TypeOK, Protocol, LogFiles, Serving, CloseMerge, hazards' = {}
  PROVE  LogFiles' /\ Serving'
  <1>1. /\ lsn \in Lsns /\ Lsns \subseteq Nat /\ lsn \in Nat /\ \A m \in 0 .. lsn : m \in Lsns
        /\ store \in [Keys -> Nat]
        /\ \A m \in Lsns : tables[m] \in Tables
    BY IndexAssumption DEF TypeOK, Lsns
  <1>2. /\ UNCHANGED <<files, logs, lsn, tables, park, bloom, trigger, op, latest>>
        /\ pc = "closemerge" /\ pc' = "closelog"
        /\ freed' = freed \cup {lsn} /\ lsn \notin freed
        /\ store' = Merged(store, tables[lsn])
    BY CurrentIsLive DEF CloseMerge, unchangedByClose
  <1>3. \A n \in Lsns : n < lsn => n \in freed
    BY DEF CloseMerge
  <1>4. \A k \in Keys : store'[k] = IF tables[lsn][k].opt = "NONE" THEN store[k] ELSE Value(tables[lsn][k])
    BY <1>1, <1>2, MergedIs
  <1>5. LogFiles'
    BY <1>2 DEF LogFiles
  <1>6. Rotation'
    BY <1>2 DEF Serving, Rotation
  <1>7. \A k \in Keys : Held(k) = store'[k] /\ Held(k)' = store'[k]
    <2> TAKE k \in Keys
    <2>1. ASSUME lsn > 0, tables[lsn][k].opt = "NONE", tables[lsn - 1][k].opt # "NONE"
          PROVE  store[k] = Value(tables[lsn - 1][k])
      <3>1. lsn - 1 \in freed /\ lsn - 1 \in 0 .. lsn
        BY <1>1, <1>3, <2>1 DEF Lsns
      <3>2. \A m \in 0 .. lsn : m > lsn - 1 /\ m \in freed => tables[m][k].opt = "NONE"
        BY <1>1, <2>1
      <3> QED
        BY <2>1, <3>1, <3>2 DEF Serving, Current
    <2>2. Held(k) = store'[k]
      BY <1>4, <2>1 DEF Held
    <2>3. Held(k)' = store'[k]
      BY <1>2, <1>4, <2>1 DEF Held
    <2> QED
      BY <2>2, <2>3
  <1>8. Current'
    <2>1. ASSUME NEW k \in Keys, NEW i \in 0 .. lsn, i \in freed', tables[i][k].opt # "NONE",
                 \A m \in 0 .. lsn : m > i /\ m \in freed' => tables[m][k].opt = "NONE"
          PROVE  store'[k] = Value(tables[i][k])
      <3>1. CASE i = lsn
        BY <1>4, <2>1, <3>1
      <3>2. CASE i # lsn
        <4>1. i \in freed /\ i < lsn /\ lsn \in 0 .. lsn
          BY <1>1, <1>2, <2>1, <3>2
        <4>2. tables[lsn][k].opt = "NONE"
          BY <1>2, <2>1, <4>1
        <4>3. store[k] = Value(tables[i][k])
          BY <1>2, <2>1, <4>1 DEF Serving, Current
        <4> QED
          BY <1>4, <4>2, <4>3
      <3> QED
        BY <3>1, <3>2
    <2> QED
      BY <1>2, <1>3, <1>7, <2>1 DEF Serving, Current, Writing
  <1>9. Filtered'
    <2>1. \A k \in Keys : store'[k] # 0 => store[k] # 0 \/ k \in Adds(tables[lsn])
      BY <1>1, <1>4, TableEntries DEF Value, Adds
    <2> QED
      BY <1>1, <1>2, <2>1 DEF Serving, Filtered, InStore
  <1>10. Reading'
    BY <1>2 DEF Reading, ReadPcs
  <1>11. Logged'
    BY <1>2 DEF Serving, Logged, Later, LastWrite
  <1> QED
    BY <1>5, <1>6, <1>8, <1>9, <1>10, <1>11 DEF Serving

LEMMA CloseReads ==
  ASSUME TypeOK, Protocol, LogFiles, Serving, CloseWait \/ CloseMerge \/ CloseLog, hazards' = {}
  PROVE  LogFiles' /\ Serving'
  <1>1. CASE CloseWait
    <2>1. /\ UNCHANGED <<files, logs, store, lsn, tables, freed, park, bloom, trigger, op, latest>>
          /\ pc = "idle" /\ pc' \in {"closemerge", "closing"}
      BY <1>1 DEF CloseWait, unchangedByClose
    <2>2. LogFiles' /\ Rotation' /\ Current' /\ Filtered'
      BY <2>1 DEF LogFiles, Serving, Rotation, Current, Held, Writing, Filtered, InStore, Adds
    <2>3. Reading'
      BY <2>1 DEF Reading, ReadPcs
    <2>4. Logged'
      BY <2>1 DEF Serving, Logged, Later, LastWrite
    <2> QED
      BY <2>2, <2>3, <2>4 DEF Serving
  <1>2. CASE CloseMerge
    BY <1>2, CloseMergeReads
  <1>3. CASE CloseLog
    <2>1. /\ UNCHANGED <<store, lsn, tables, freed, park, bloom, trigger, op, latest>>
          /\ pc = "closelog" /\ pc' = "closing" /\ lsn \in freed /\ lsn \in Lsns
          /\ files' = files \ {lsn} /\ logs' = [logs EXCEPT ![lsn] = << >>]
      BY <1>3 DEF CloseLog, unchangedByClose, Protocol, TypeOK
    <2>2. logs'[lsn] = << >> /\ \A m \in Lsns : m # lsn => logs'[m] = logs[m]
      BY <2>1 DEF TypeOK
    <2>3. LogFiles' /\ Current' /\ Filtered'
      BY <2>1, <2>2 DEF LogFiles, Serving, Current, Held, Writing, Filtered, InStore, Adds
    <2>4. Rotation' /\ Reading'
      BY <2>1, <2>2 DEF Serving, Rotation, Reading, ReadPcs
    <2>5. Logged'
      <3>1. \A m \in 0 .. lsn : m \in files' => m \in files /\ logs'[m] = logs[m]
        BY <2>1, <2>2 DEF TypeOK
      <3>2. \A m \in (0 .. lsn) \ freed : m \in files'
        BY <2>1 DEF Serving, Logged
      <3> QED
        BY <2>1, <3>1, <3>2 DEF Serving, Logged, Later, LastWrite
    <2> QED
      BY <2>3, <2>4, <2>5 DEF Serving
  <1> QED
    BY <1>1, <1>2, <1>3

-----------------------------------------------------------------------------
(* Death *)

(* No log younger than the last memtable that has key k knows of it.       *)
LEMMA NothingYounger ==
  ASSUME TypeOK, Serving, IsLog, NEW k \in Keys, ~ (Writing /\ op.key = k),
         NEW m \in -1 .. lsn, \A j \in 0 .. lsn : j > m => tables[j][k].opt = "NONE",
         NEW n \in files, n > m
  PROVE  k \notin KeysOf(logs[n])
  <1>1. n \in Lsns /\ logs[n] \in Seq(Records) /\ lsn \in Nat /\ Lsns \subseteq Nat
    <2>1. n \in Lsns /\ logs[n] \in Seq(Records) /\ lsn \in Lsns
      BY DEF TypeOK
    <2>2. Lsns \subseteq Nat
      BY IndexAssumption DEF Lsns
    <2> QED
      BY <2>1, <2>2
  <1>2. CASE n > lsn
    BY <1>1, <1>2, KeysOfEmpty DEF Serving, Rotation
  <1>3. CASE ~ n > lsn
    <2>1. n \in 0 .. lsn
      BY <1>1, <1>3
    <2>2. ~ Later(n, k)
      <3>1. CASE n < lsn /\ trigger[n + 1].key = k
        <4>1. n + 1 \in 1 .. lsn /\ n + 1 > m /\ n + 1 \in 0 .. lsn
          BY <1>1, <2>1, <3>1
        <4>2. tables[n + 1][k].opt = "NONE"
          BY <4>1
        <4>3. n + 1 = lsn /\ pc = "insert"
          BY <1>1, <3>1, <4>1, <4>2 DEF Serving, Logged
        <4> QED
          BY <3>1, <4>3 DEF Serving, Rotation, Writing
      <3> QED
        BY <3>1 DEF Later, Writing
    <2>3. ASSUME k \in KeysOf(logs[n]) PROVE FALSE
      <3>1. LastRecord(logs[n], k, tables[n][k])
        BY <2>1, <2>2, <2>3 DEF Serving, Logged
      <3>2. tables[n][k].opt \in Opts /\ tables[n][k].opt = "NONE"
        BY <1>1, <2>1, <3>1, LastIsRecorded
      <3> QED
        BY <3>2 DEF Opts
    <2> QED
      BY <2>3
  <1> QED
    BY <1>2, <1>3

(* Log n has key k's last write, and no younger log knows of k.            *)
Settled(n, k) ==
  /\ n \in files
  /\ \E e : LastRecord(logs[n], k, e) /\ Value(e) = latest[k]
  /\ \A m \in files : m > n => k \notin KeysOf(logs[m])

LEMMA SettledComes ==
  ASSUME TypeOK, NEW k \in Keys, NEW n, Settled(n, k)
  PROVE  Comes(k)
  <1>1. n \in files /\ \A m \in files : m \in Int /\ logs[m] \in Seq(Records)
    BY IndexAssumption DEF Settled, TypeOK, Lsns
  <1>2. PICK e : LastRecord(logs[n], k, e) /\ Value(e) = latest[k]
    BY DEF Settled
  <1>3. k \in KeysOf(logs[n])
    BY <1>1, <1>2, LastIsRecorded
  <1>4. ASSUME NEW m \in files, NEW i \in DOMAIN logs[m], logs[m][i].key = k,
               \A j \in DOMAIN logs[m] : j > i => logs[m][j].key # k,
               \A l \in files : l > m => k \notin KeysOf(logs[l])
        PROVE  Value(logs[m][i]) = latest[k]
    <2>1. k \in KeysOf(logs[m])
      BY <1>4 DEF KeysOf
    <2>2. m = n
      BY <1>1, <1>3, <1>4, <2>1 DEF Settled
    <2> QED
      BY <1>1, <1>2, <1>4, <2>2, LastIsUnique
  <1> QED
    BY <1>1, <1>3, <1>4 DEF Comes

(* The logs have the write at work. *)
LEMMA WriteComes ==
  ASSUME TypeOK, Protocol, Serving, IsLog, DeathHazards = {}, NEW k \in Keys,
         Writing, op.key = k
  PROVE  Comes(k)
  <1>1. /\ lsn \in Lsns /\ lsn \in Nat /\ Lsns \subseteq Nat /\ files \subseteq Lsns
        /\ \A n \in 0 .. lsn : n \in Lsns
    BY IndexAssumption DEF TypeOK, Lsns
  <1>2. lsn \notin freed /\ lsn \in files
    BY <1>1, CurrentIsLive DEF Writing, Serving, Logged
  <1>3. latest[k] = Value(op) /\ Value(Entry(op)) = Value(op)
    BY EntriesHaveValues DEF Serving, Current, Writing, TypeOK
  <1>4. \A m \in files : m > lsn => k \notin KeysOf(logs[m])
    BY <1>1, KeysOfEmpty DEF Serving, Rotation
  <1>5. CASE pc \in {"add", "spawn"}
    <2>1. Later(lsn, k) /\ LastWrite(lsn) = op
      BY <1>1, <1>5 DEF Later, LastWrite
    <2>2. LastRecord(logs[lsn], k, Entry(op))
      BY <1>1, <1>2, <2>1 DEF Serving, Logged
    <2> QED
      BY <1>2, <1>3, <1>4, <2>2, SettledComes DEF Settled
  <1>6. CASE pc = "insert"
    <2>1. lsn > 0 /\ logs[lsn] = << >> /\ trigger[lsn] = op
      BY <1>6 DEF Serving, Rotation
    <2>2. ~ Unlogged(lsn)
      BY <1>1 DEF DeathHazards
    <2>3. ~ LastRecord(logs[lsn], k, Entry(op))
      BY <2>1 DEF LastRecord
    <2>4. k # NoKey
      BY IndexAssumption
    <2>5. lsn - 1 \in files
      BY <1>2, <1>6, <2>1, <2>2, <2>3, <2>4 DEF Unlogged
    <2>6. Later(lsn - 1, k) /\ LastWrite(lsn - 1) = op /\ lsn - 1 \in 0 .. lsn
      BY <1>1, <2>1 DEF Later, LastWrite
    <2>7. LastRecord(logs[lsn - 1], k, Entry(op))
      BY <2>5, <2>6 DEF Serving, Logged
    <2>8. \A m \in files : m > lsn - 1 => k \notin KeysOf(logs[m])
      <3>1. \A m \in files : m > lsn - 1 => m = lsn \/ m > lsn
        BY <1>1
      <3> QED
        BY <1>4, <2>1, <3>1, KeysOfEmpty
    <2> QED
      BY <1>3, <2>5, <2>7, <2>8, SettledComes DEF Settled
  <1> QED
    BY <1>5, <1>6 DEF Writing

(* The logs have what the memtables have, or else the files do.            *)
LEMMA TableComes ==
  ASSUME TypeOK, Protocol, Serving, IsLog, DeathHazards = {}, NEW k \in Keys,
         ~ (Writing /\ op.key = k), NEW m \in 0 .. lsn, tables[m][k].opt # "NONE",
         \A j \in 0 .. lsn : j > m => tables[j][k].opt = "NONE"
  PROVE  Comes(k)
  <1>1. /\ lsn \in Lsns /\ lsn \in Nat /\ Lsns \subseteq Nat /\ files \subseteq Lsns
        /\ \A n \in 0 .. lsn : n \in Lsns
        /\ \A n \in files : logs[n] \in Seq(Records)
    BY IndexAssumption DEF TypeOK, Lsns
  <1>2. latest[k] = Held(k)
    BY DEF Serving, Current
  <1>3. \A n \in files : n > m => k \notin KeysOf(logs[n])
    BY NothingYounger
  <1>4. m \in freed => store[k] = Value(tables[m][k])
    BY DEF Serving, Current
  <1>5. latest[k] = Value(tables[m][k])
    <2>1. CASE m = lsn
      BY <1>2, <2>1 DEF Held
    <2>2. CASE m = lsn - 1
      <3>1. tables[lsn][k].opt = "NONE" /\ lsn > 0
        BY <1>1, <2>2
      <3> QED
        BY <1>2, <2>2, <3>1 DEF Held
    <2>3. CASE m < lsn - 1
      <3>1. m \in freed
        BY <1>1, <2>3 DEF Serving, Rotation
      <3>2. tables[lsn][k].opt = "NONE" /\ tables[lsn - 1][k].opt = "NONE"
        BY <1>1, <2>3
      <3> QED
        BY <1>2, <1>4, <3>1, <3>2 DEF Held
    <2> QED
      BY <1>1, <2>1, <2>2, <2>3
  <1>6. \A n : n \in 0 .. lsn /\ n \in files /\ n = m /\ k \in KeysOf(logs[n]) =>
             LastRecord(logs[n], k, tables[n][k])
    <2> TAKE n
    <2> HAVE n \in 0 .. lsn /\ n \in files /\ n = m /\ k \in KeysOf(logs[n])
    <2>1. ~ Later(n, k)
      <3>1. CASE n < lsn /\ trigger[n + 1].key = k
        <4>1. n + 1 \in 1 .. lsn /\ n + 1 > m /\ n + 1 \in 0 .. lsn
          BY <1>1, <3>1
        <4>2. n + 1 = lsn /\ pc = "insert"
          BY <1>1, <3>1, <4>1 DEF Serving, Logged
        <4> QED
          BY <3>1, <4>2 DEF Serving, Rotation, Writing
      <3> QED
        BY <3>1 DEF Later, Writing
    <2> QED
      BY <2>1 DEF Serving, Logged
  <1>7. CASE m \notin freed
    <2>1. m \in files
      BY <1>7 DEF Serving, Logged
    <2>2. CASE k \in KeysOf(logs[m])
      <3>1. LastRecord(logs[m], k, tables[m][k])
        BY <1>6, <2>1, <2>2
      <3> QED
        BY <1>3, <1>5, <2>1, <3>1, SettledComes DEF Settled
    <2>3. CASE k \notin KeysOf(logs[m])
      <3>1. m > 0 /\ trigger[m].key = k /\ tables[m][k] = Entry(trigger[m])
        BY <2>1, <2>3 DEF Serving, Logged
      <3>2. ~ LastRecord(logs[m], k, tables[m][k])
        BY <1>1, <2>1, <2>3, LastIsRecorded
      <3>3. ~ Unlogged(m)
        BY <1>1 DEF DeathHazards
      <3>4. m - 1 \in files
        BY <1>7, <3>1, <3>2, <3>3, IndexAssumption DEF Unlogged
      <3>5. Later(m - 1, k) /\ LastWrite(m - 1) = trigger[m] /\ m - 1 \in 0 .. lsn
        BY <1>1, <3>1 DEF Later, LastWrite
      <3>6. LastRecord(logs[m - 1], k, tables[m][k])
        BY <3>1, <3>4, <3>5 DEF Serving, Logged
      <3>7. \A n \in files : n > m - 1 => k \notin KeysOf(logs[n])
        <4>1. \A n \in files : n > m - 1 => n = m \/ n > m
          BY <1>1
        <4> QED
          BY <1>3, <2>3, <4>1
      <3> QED
        BY <1>5, <3>4, <3>6, <3>7, SettledComes DEF Settled
    <2> QED
      BY <2>2, <2>3
  <1>8. CASE m \in freed
    <2>1. store[k] = latest[k]
      BY <1>4, <1>5, <1>8
    <2>2. ASSUME NEW n \in files, NEW i \in DOMAIN logs[n], logs[n][i].key = k,
                 \A j \in DOMAIN logs[n] : j > i => logs[n][j].key # k,
                 \A l \in files : l > n => k \notin KeysOf(logs[l])
          PROVE  Value(logs[n][i]) = latest[k]
      <3>1. k \in KeysOf(logs[n]) /\ ~ n > m
        BY <1>3, <2>2 DEF KeysOf
      <3>2. LastRecord(logs[n], k, tables[m][k])
        <4>1. CASE n = m
          BY <1>6, <3>1, <4>1
        <4>2. CASE n # m
          <5>0. m \in Nat /\ n \in Nat
            BY <1>1
          <5>1. m > n /\ ~ Outlives(n) /\ tables[m][k] # None
            <6>1. m > n
              BY <3>1, <4>2, <5>0
            <6>2. ~ Outlives(n)
              BY DEF DeathHazards
            <6> QED
              BY <6>1, <6>2, EmptyHasNone
          <5>2. PICK j \in files : j >= n /\ LastRecord(logs[j], k, tables[m][k])
            BY <1>8, <3>1, <5>1 DEF Outlives
          <5>3. k \in KeysOf(logs[j])
            BY <1>1, <5>2, LastIsRecorded
          <5>4. j = n
            BY <1>1, <2>2, <5>2, <5>3
          <5> QED
            BY <5>2, <5>4
        <4> QED
          BY <4>1, <4>2
      <3> QED
        BY <1>1, <1>5, <2>2, <3>2, LastIsUnique
    <2> QED
      BY <2>1, <2>2 DEF Comes
  <1> QED
    BY <1>7, <1>8

(* A key no memtable has is in no log.                                     *)
LEMMA UntouchedComes ==
  ASSUME TypeOK, Serving, IsLog, NEW k \in Keys, ~ (Writing /\ op.key = k),
         \A j \in 0 .. lsn : tables[j][k].opt = "NONE"
  PROVE  Comes(k)
  <1>1. /\ lsn \in Nat /\ files \subseteq Nat
    BY IndexAssumption DEF TypeOK, Lsns
  <1>2. \A n \in files : k \notin KeysOf(logs[n])
    BY <1>1, NothingYounger
  <1>3. latest[k] = store[k]
    <2>1. tables[lsn][k].opt = "NONE" /\ (lsn > 0 => tables[lsn - 1][k].opt = "NONE")
      BY <1>1
    <2> QED
      BY <2>1 DEF Serving, Current, Held
  <1> QED
    BY <1>2, <1>3 DEF Comes, KeysOf

(* Without a log, there is nothing that is not in the files.               *)
LEMMA UnloggedComes ==
  ASSUME TypeOK, LogFiles, Serving, ~ IsLog, DeathHazards = {}, NEW k \in Keys
  PROVE  Comes(k)
  <1>1. /\ lsn \in Lsns /\ lsn \in Nat /\ Lsns \subseteq Nat /\ files \subseteq Lsns
        /\ \A n \in 0 .. lsn : n \in Lsns
    BY IndexAssumption DEF TypeOK, Lsns
  <1>2. ~ Writing /\ \A n \in Lsns \ freed : tables[n] = Empty
    BY DEF DeathHazards
  <1>3. \A n \in files : logs[n] = << >>
    BY <1>1 DEF LogFiles
  <1>4. latest[k] = Held(k)
    BY <1>2 DEF Serving, Current
  <1>5. store[k] = latest[k]
    <2>1. CASE lsn \in freed
      BY <1>4, <2>1 DEF Serving, Current
    <2>2. CASE lsn \notin freed
      <3>1. tables[lsn][k].opt = "NONE"
        BY <1>1, <1>2, <2>2, EmptyHasNone
      <3>2. ASSUME lsn > 0, tables[lsn - 1][k].opt # "NONE"
            PROVE  store[k] = Value(tables[lsn - 1][k])
        <4>1. lsn - 1 \in 0 .. lsn /\ lsn - 1 \in freed
          BY <1>1, <1>2, <3>2, EmptyHasNone
        <4>2. \A m \in 0 .. lsn : m > lsn - 1 /\ m \in freed => tables[m][k].opt = "NONE"
          BY <1>1, <2>2
        <4> QED
          BY <3>2, <4>1, <4>2 DEF Serving, Current
      <3> QED
        BY <1>4, <3>1, <3>2 DEF Held
    <2> QED
      BY <2>1, <2>2
  <1>6. \A n \in files : DOMAIN logs[n] = {}
    BY <1>3
  <1> QED
    BY <1>5, <1>6 DEF Comes

LEMMA ServingIsRecoverable ==
  ASSUME TypeOK, Protocol, LogFiles, Serving, DeathHazards = {}
  PROVE  Recoverable
  <1>1. \A k \in Keys : Comes(k)
    <2> TAKE k \in Keys
    <2>1. CASE ~ IsLog
      BY <2>1, UnloggedComes
    <2>2. CASE IsLog /\ Writing /\ op.key = k
      BY <2>2, WriteComes
    <2>3. CASE IsLog /\ ~ (Writing /\ op.key = k)
      <3> DEFINE T == {m \in 0 .. lsn : tables[m][k].opt # "NONE"}
      <3>1. CASE T = {}
        BY <2>3, <3>1, UntouchedComes
      <3>2. CASE T # {}
        <4>1. lsn \in Nat
          BY IndexAssumption DEF TypeOK, Lsns
        <4>2. IsFiniteSet(0 .. lsn) /\ T \in SUBSET (0 .. lsn) /\ T \subseteq Int
          BY <4>1, FS_Interval
        <4>3. IsFiniteSet(T)
          <5> HIDE DEF T
          <5> QED
            BY <4>2, FS_Subset
        <4>4. PICK m \in T : \A j \in T : m >= j
          <5> HIDE DEF T
          <5> QED
            BY <3>2, <4>2, <4>3, GreatestElement
        <4>5. m \in 0 .. lsn /\ tables[m][k].opt # "NONE"
          OBVIOUS
        <4>6. \A j \in 0 .. lsn : j > m => tables[j][k].opt = "NONE"
          BY <4>1, <4>4, <4>5
        <4> QED
          BY <2>3, <4>5, <4>6, TableComes
      <3> QED
        BY <3>1, <3>2
    <2> QED
      BY <2>1, <2>2, <2>3
  <1> QED
    BY <1>1 DEF Recoverable

LEMMA DieReads ==
  ASSUME TypeOK, LogFiles, Recoverable, Die
  PROVE  LogFiles' /\ Recovering'
  <1>1. /\ UNCHANGED <<files, logs, store, latest>> /\ pc' = "down"
        /\ lsn' = 0 /\ tables' = [n \in Lsns |-> Empty] /\ freed' = {}
        /\ park' = [list |-> NoList, lsn |-> 0] /\ trigger' = [n \in Lsns |-> NoOp]
    BY DEF Die, disk
  <1>2. LogFiles' /\ Recoverable'
    BY <1>1 DEF LogFiles, Recoverable, Comes
  <1> QED
    BY <1>1, <1>2 DEF Recovering, NoOp

-----------------------------------------------------------------------------
(* index_new *)

(* Where the replay of the chosen logs ends, the last write is.            *)
LEMMA ReplayedLast ==
  ASSUME TypeOK, LogFiles, Recoverable, Selected, NEW k \in Keys,
         NEW l \in DOMAIN replay.chosen, NEW i \in DOMAIN logs[Chosen(l)],
         logs[Chosen(l)][i].key = k,
         \A j \in DOMAIN logs[Chosen(l)] : j > i => logs[Chosen(l)][j].key # k,
         l = Len(replay.chosen) \/ k \notin KeysOf(logs[Chosen(Len(replay.chosen))])
  PROVE  Value(logs[Chosen(l)][i]) = latest[k]
  <1>1. /\ Len(replay.chosen) \in {0, 1, 2}
        /\ DOMAIN replay.chosen = 1 .. Len(replay.chosen)
        /\ \A m \in DOMAIN replay.chosen : Chosen(m) \in files
        /\ files \subseteq Nat
    <2>1. replay.chosen \in Seq(files) /\ Len(replay.chosen) <= 2
      BY DEF Selected
    <2>2. Len(replay.chosen) \in Nat /\ DOMAIN replay.chosen = 1 .. Len(replay.chosen)
      BY <2>1
    <2>3. \A m \in DOMAIN replay.chosen : Chosen(m) \in files
      BY <2>1 DEF Chosen
    <2>4. Len(replay.chosen) \in {0, 1, 2}
      <3>1. \A n \in Nat : n <= 2 => n \in {0, 1, 2}
        OBVIOUS
      <3> QED
        BY <2>1, <2>2, <3>1
    <2> QED
      BY <2>2, <2>3, <2>4, IndexAssumption DEF TypeOK, Lsns
  <1>2. k \in KeysOf(logs[Chosen(l)])
    BY DEF KeysOf
  <1>3. ASSUME NEW m \in files, m > Chosen(l), k \in KeysOf(logs[m]) PROVE FALSE
    <2>1. PICK j \in DOMAIN replay.chosen : Chosen(j) = m
      BY <1>3, KeysOfEmpty DEF Selected
    <2>0. j # l /\ j \in 1 .. Len(replay.chosen) /\ l \in 1 .. Len(replay.chosen)
      <3>1. Chosen(l) \in Nat
        BY <1>1
      <3> QED
        BY <1>1, <1>3, <2>1, <3>1
    <2>2. j # l /\ Len(replay.chosen) = 2 /\ j \in {1, 2} /\ l \in {1, 2}
      <3>1. \A n \in {0, 1, 2} : \A a, b \in 1 .. n : a # b => n = 2 /\ {a, b} \subseteq {1, 2}
        OBVIOUS
      <3> QED
        BY <1>1, <2>0, <3>1
    <2>3. CASE l = 1
      BY <1>3, <2>1, <2>2, <2>3
    <2>4. CASE l = 2
      <3>0. j = 1 /\ Chosen(2) \in Nat /\ Chosen(1) \in Nat
        BY <1>1, <2>2, <2>4
      <3>1. j = 1 /\ ~ Chosen(1) < Chosen(2)
        BY <1>3, <2>1, <2>4, <3>0
      <3>2. KeysOf(logs[Chosen(1)]) \cap KeysOf(logs[Chosen(2)]) = {}
        BY <2>2, <3>1 DEF Selected
      <3> QED
        BY <1>2, <1>3, <2>1, <2>4, <3>1, <3>2
    <2> QED
      BY <2>2, <2>3, <2>4
  <1> QED
    BY <1>1, <1>3 DEF Recoverable, Comes

LEMMA ReopenReads ==
  ASSUME TypeOK, LogFiles, Recovering, NEW new \in Lsns, NEW old \in Lsns,
         Reopen(new, old), hazards' = {}
  PROVE  LogFiles' /\ Recovering'
  <1>1. /\ UNCHANGED <<files, logs, store, latest, lsn, tables, freed, park, trigger>>
        /\ pc = "down" /\ bloom' = InStore /\ files \subseteq Lsns
        /\ Lsns \subseteq Nat
    BY IndexAssumption DEF Reopen, unchangedByRecovery, TypeOK, Lsns
  <1>2. LogFiles' /\ Recoverable' /\ \A k \in InStore' : k \in bloom'
    <2>1. LogFiles' /\ \A k \in InStore' : k \in bloom'
      BY <1>1 DEF LogFiles, InStore
    <2>2. Recoverable'
      <3>1. ASSUME NEW k \in Keys PROVE Comes(k)'
        <4>1. Comes(k)
          BY DEF Recovering, Recoverable
        <4> QED
          BY <1>1, <4>1 DEF Comes, KeysOf
      <3> QED
        BY <3>1 DEF Recoverable
    <2> QED
      BY <2>1, <2>2
  <1>3. CASE pc' = "openlog"
    <2>1. \A n \in Lsns : logs[n] = << >>
      BY <1>3 DEF Reopen, LogFiles
    <2> QED
      BY <1>1, <1>2, <1>3, <2>1 DEF Recovering
  <1>4. CASE pc' = "readlog"
    <2>1. /\ new \in files /\ old \in files
          /\ new = old => files = {new}
          /\ replay' = [NoReplay EXCEPT !.chosen = IF new = old THEN <<new>> ELSE <<new, old>>]
          /\ \A n \in files \ {new, old} : logs[n] = << >>
          /\ ~ (new > old /\ KeysOf(logs[new]) \cap KeysOf(logs[old]) # {})
      BY <1>4 DEF Reopen
    <2>2. /\ replay'.chosen = IF new = old THEN <<new>> ELSE <<new, old>>
          /\ replay'.log = 1 /\ replay'.rec = 1
      BY <2>1 DEF NoReplay
    <2>3. Selected'
      <3>1. CASE new = old
        <4>1. replay'.chosen = <<new>> /\ Len(<<new>>) = 1 /\ 1 \in DOMAIN <<new>>
              /\ <<new>>[1] = new /\ <<new>> \in Seq(files)
          BY <2>1, <2>2, <3>1
        <4> QED
          BY <1>1, <2>1, <3>1, <4>1 DEF Selected, Chosen
      <3>2. CASE new # old
        <4>1. replay'.chosen = <<new, old>> /\ Len(<<new, old>>) = 2
              /\ 1 \in DOMAIN <<new, old>> /\ 2 \in DOMAIN <<new, old>>
              /\ <<new, old>>[1] = new /\ <<new, old>>[2] = old /\ <<new, old>> \in Seq(files)
          BY <2>1, <2>2, <3>2
        <4>2. new < old \/ KeysOf(logs[new]) \cap KeysOf(logs[old]) = {}
          BY <1>1, <2>1, <3>2
        <4> QED
          BY <1>1, <2>1, <3>2, <4>1, <4>2 DEF Selected, Chosen
      <3> QED
        BY <3>1, <3>2
    <2>4. replay'.chosen # << >> /\ logs'[Chosen(1)'] \in Seq(Records) /\ Chosen(1)' = new
      BY <1>1, <2>2 DEF Chosen, TypeOK
    <2>5. ReadUpTo(replay.log, replay.rec - 1)'
      <3>1. \A i \in DOMAIN logs'[Chosen(1)'] : ~ i <= 0
        BY <2>4
      <3>2. tables'[0] = Empty
        BY <1>1, IndexAssumption DEF Recovering, Lsns
      <3>3. replay'.log = 1 /\ replay'.rec - 1 = 0
        BY <2>2
      <3>4. ReadUpTo(1, 0)'
        BY <3>1, <3>2, EmptyHasNone DEF ReadUpTo
      <3> QED
        BY <3>3, <3>4 DEF ReadUpTo, Chosen
    <2>6. ReplayLog' \in Seq(Records) /\ replay'.rec <= Len(ReplayLog') + 1 /\ replay'.log # 2
      BY <2>2, <2>4 DEF ReplayLog, Chosen
    <2> QED
      BY <1>1, <1>2, <1>4, <2>3, <2>4, <2>5, <2>6 DEF Recovering
  <1> QED
    BY <1>3, <1>4 DEF Reopen

(* Steps of the replay that leave the logs, the files and the choice.      *)
LEMMA ReplayKeeps ==
  ASSUME LogFiles, Recovering, pc \in {"readlog", "remerge"},
         UNCHANGED <<unchangedByRecovery, files, logs, store, bloom, replay.chosen>>
  PROVE  /\ LogFiles' /\ Recoverable' /\ Selected'
         /\ lsn' = 0 /\ freed' = {} /\ park'.list = NoList
         /\ \A k \in InStore' : k \in bloom'
         /\ \A n \in Lsns : trigger'[n].key = NoKey
  <1>1. LogFiles' /\ \A k \in InStore' : k \in bloom'
    BY DEF LogFiles, Recovering, InStore
  <1>2. Recoverable'
    BY DEF Recovering, Recoverable, Comes, unchangedByRecovery
  <1>3. Selected'
    BY DEF Recovering, Selected, Chosen
  <1> QED
    BY <1>1, <1>2, <1>3 DEF Recovering, unchangedByRecovery

LEMMA ReadRecordReads ==
  ASSUME TypeOK, LogFiles, Recovering, ReadRecord, hazards' = {}
  PROVE  LogFiles' /\ Recovering'
  <1> DEFINE log == logs[Chosen(replay.log)]
             r   == log[replay.rec]
  <1>1. /\ UNCHANGED <<unchangedByRecovery, files, logs, store, bloom, pc, replay.chosen, replay.log>>
        /\ pc = "readlog" /\ replay'.rec = replay.rec + 1 /\ replay.rec \in Nat \ {0}
        /\ replay.log \in DOMAIN replay.chosen /\ log \in Seq(Records)
        /\ replay.rec <= Len(log)
    <2>1. pc = "readlog" /\ MoreRecords /\ ReplayLog = log
      BY DEF ReadRecord, ReplayLog, Chosen
    <2>2. /\ replay \in Replays /\ logs \in [Lsns -> Seq(Records)]
          /\ replay.log \in DOMAIN replay.chosen
      BY <2>1 DEF TypeOK
    <2>3. Chosen(replay.log) \in Lsns /\ replay.rec \in Nat \ {0}
      BY <2>2 DEF Replays, Chosen
    <2>4. /\ UNCHANGED <<unchangedByRecovery, files, logs, store, bloom, pc>>
          /\ replay' = [replay EXCEPT !.rec = replay.rec + 1]
      BY DEF ReadRecord
    <2>5. replay'.chosen = replay.chosen /\ replay'.log = replay.log /\ replay'.rec = replay.rec + 1
      BY <2>2, <2>4 DEF Replays
    <2> QED
      BY <2>1, <2>2, <2>3, <2>4, <2>5 DEF MoreRecords
  <1>2. replay.rec \in DOMAIN log /\ r \in Records /\ r.key \in Keys /\ 0 \in Lsns
    <2>1. replay.rec \in DOMAIN log /\ 0 \in Lsns
      BY <1>1, IndexAssumption DEF Lsns
    <2>2. r \in Records
      BY <1>1, <2>1
    <2> HIDE DEF r
    <2> QED
      BY <2>1, <2>2 DEF Records
  <1>3. /\ tables'[0][r.key] = Entry(r)
        /\ \A k \in Keys : k # r.key => tables'[0][k] = tables[0][k]
        /\ \A n \in Lsns : n # 0 => tables'[n] = tables[n]
    <2>1. tables' = [tables EXCEPT ![0] = Inserted(@, r)] /\ tables'[0][r.key] = Entry(r)
      BY DEF ReadRecord, ReplayLog, Chosen
    <2>2. tables'[0] = Inserted(tables[0], r) /\ \A n \in Lsns : n # 0 => tables'[n] = tables[n]
      BY <1>2, <2>1 DEF TypeOK
    <2>3. \A k \in Keys : k # r.key => Inserted(tables[0], r)[k] = tables[0][k]
      BY <1>2 DEF Inserted, TypeOK, Tables
    <2> QED
      BY <2>1, <2>2, <2>3
  <1>4. ReadUpTo(replay.log, replay.rec - 1)
    BY <1>1 DEF Recovering
  <1>5. \A i \in DOMAIN log : i <= replay.rec <=> i <= replay.rec - 1 \/ i = replay.rec
    BY <1>1
  <1>6. \A i \in DOMAIN log : i <= replay.rec - 1 => replay.rec > i
    BY <1>1
  <1>7. /\ Chosen(replay.log)' = Chosen(replay.log) /\ Chosen(1)' = Chosen(1)
        /\ logs' = logs /\ replay'.log = replay.log /\ replay'.rec - 1 = replay.rec
    BY <1>1 DEF Chosen
  <1>8. ReadUpTo(replay.log, replay.rec - 1)'
    <2> SUFFICES ASSUME NEW k \in Keys
        PROVE  /\ \A i \in DOMAIN log :
                    /\ i <= replay.rec /\ log[i].key = k
                    /\ \A j \in DOMAIN log : j > i /\ j <= replay.rec => log[j].key # k
                    => tables'[0][k] = Entry(log[i])
               /\ (\A i \in DOMAIN log : i <= replay.rec => log[i].key # k) =>
                    IF replay.log = 1 THEN tables'[0][k] = None
                    ELSE /\ k \notin KeysOf(logs[Chosen(1)]) => tables'[0][k] = None
                         /\ \A i \in DOMAIN logs[Chosen(1)] :
                              /\ logs[Chosen(1)][i].key = k
                              /\ \A j \in DOMAIN logs[Chosen(1)] : j > i => logs[Chosen(1)][j].key # k
                              => tables'[0][k] = Entry(logs[Chosen(1)][i])
      BY <1>7 DEF ReadUpTo
    <2>1. ASSUME NEW i \in DOMAIN log, i <= replay.rec, log[i].key = k,
                 \A j \in DOMAIN log : j > i /\ j <= replay.rec => log[j].key # k
          PROVE  tables'[0][k] = Entry(log[i])
      <3>1. CASE i = replay.rec
        BY <1>3, <2>1, <3>1
      <3>2. CASE i <= replay.rec - 1
        <4>1. k # r.key
          BY <1>1, <1>2, <1>6, <2>1, <3>2
        <4>2. \A j \in DOMAIN log : j > i /\ j <= replay.rec - 1 => log[j].key # k
          BY <1>5, <2>1
        <4>3. tables[0][k] = Entry(log[i])
          BY <1>4, <2>1, <3>2, <4>2 DEF ReadUpTo
        <4> QED
          BY <1>3, <4>1, <4>3
      <3> QED
        BY <1>5, <2>1, <3>1, <3>2
    <2>2. ASSUME \A i \in DOMAIN log : i <= replay.rec => log[i].key # k
          PROVE  /\ k # r.key
                 /\ \A i \in DOMAIN log : i <= replay.rec - 1 => log[i].key # k
      BY <1>1, <1>2, <1>5, <2>2
    <2> QED
      BY <1>3, <1>4, <2>1, <2>2 DEF ReadUpTo
  <1>9. replay'.rec <= Len(ReplayLog') + 1 /\ (replay'.log = 2 => logs'[Chosen(1)'] # << >>)
    <2>1. ReplayLog' = log /\ Len(log) \in Nat
      BY <1>1, <1>7 DEF ReplayLog, Chosen
    <2>2. replay.log = 2 => logs[Chosen(1)] # << >>
      BY <1>1 DEF Recovering
    <2> QED
      BY <1>1, <1>7, <2>1, <2>2
  <1>10. \A n \in Lsns : n > 0 => tables'[n] = Empty
    <2>1. \A n \in Lsns : n > 0 => n # 0
      BY IndexAssumption DEF Lsns
    <2> QED
      BY <1>3, <2>1 DEF Recovering
  <1>11. replay'.chosen # << >>
    BY <1>1 DEF Recovering
  <1> HIDE DEF log, r
  <1> QED
    BY <1>1, <1>8, <1>9, <1>10, <1>11, ReplayKeeps DEF Recovering

LEMMA ReadLogDoneReads ==
  ASSUME TypeOK, LogFiles, Recovering, ReadLogDone, hazards' = {}
  PROVE  LogFiles' /\ Recovering'
  <1> DEFINE log == logs[Chosen(replay.log)]
  <1>1. /\ UNCHANGED <<unchangedByRecovery, files, logs, store, tables, bloom>>
        /\ pc = "readlog" /\ replay.rec \in Nat \ {0} /\ replay.log \in {1, 2}
        /\ replay.log \in DOMAIN replay.chosen /\ log \in Seq(Records) /\ ReplayLog = log
        /\ replay.chosen \in Seq(Lsns)
    BY DEF ReadLogDone, TypeOK, Replays, ReplayLog, Chosen
  <1>2. replay.rec - 1 = Len(log)
    <2>1. replay.rec <= Len(log) + 1 /\ ~ replay.rec <= Len(log)
      BY <1>1 DEF Recovering, ReadLogDone, MoreRecords
    <2>2. Len(log) \in Nat
      BY <1>1
    <2> QED
      BY <1>1, <2>1, <2>2
  <1>3. ReadUpTo(replay.log, Len(log)) /\ replay.chosen # << >>
    BY <1>1, <1>2 DEF Recovering
  <1>4. DOMAIN log = 1 .. Len(log) /\ \A i \in DOMAIN log : i <= Len(log)
    BY <1>1
  <1>5. \A n \in Lsns : n > 0 => tables'[n] = Empty
    BY <1>1 DEF Recovering
  <1>6. CASE log = << >> /\ pc' = "openlog" /\ replay' = NoReplay
             /\ \A n \in files : logs[n] = << >>
    <2>1. \A n \in Lsns : logs[n] = << >>
      BY <1>6 DEF LogFiles
    <2>2. 0 \in Lsns /\ tables[0] \in Tables /\ Chosen(1) \in Lsns
      <3>1. 1 \in DOMAIN replay.chosen
        BY <1>1, <1>3
      <3>2. 0 \in Lsns
        BY IndexAssumption DEF Lsns
      <3>3. Chosen(1) \in Lsns
        BY <1>1, <3>1 DEF Chosen
      <3> QED
        BY <3>2, <3>3 DEF TypeOK
    <2>3. KeysOf(logs[Chosen(1)]) = {} /\ DOMAIN log = {}
      BY <1>6, <2>1, <2>2, KeysOfEmpty
    <2>4. \A k \in Keys : tables[0][k] = None
      BY <1>3, <2>3 DEF ReadUpTo
    <2>5. tables[0] = Empty
      BY <2>2, <2>4 DEF Tables, Empty
    <2>6. LogFiles' /\ Recoverable' /\ \A k \in InStore' : k \in bloom'
      <3>1. LogFiles' /\ \A k \in InStore' : k \in bloom'
        BY <1>1 DEF LogFiles, Recovering, InStore
      <3>2. Recoverable'
        BY <1>1 DEF Recovering, Recoverable, Comes, unchangedByRecovery
      <3> QED
        BY <3>1, <3>2
    <2>7. \A n \in Lsns : tables'[n] = Empty
      <3>1. \A n \in Lsns : n = 0 \/ n > 0
        BY IndexAssumption DEF Lsns
      <3> QED
        BY <1>1, <1>5, <2>5, <3>1
    <2> QED
      BY <1>1, <1>6, <2>1, <2>6, <2>7 DEF Recovering, unchangedByRecovery
  <1>7. CASE /\ log # << >> /\ replay.log < Len(replay.chosen) /\ pc' = pc
             /\ replay' = [chosen |-> replay.chosen, log |-> 2, rec |-> 1]
    <2>1. replay.log = 1 /\ 2 \in DOMAIN replay.chosen
      <3>1. Len(replay.chosen) \in Nat /\ Len(replay.chosen) <= 2
            /\ DOMAIN replay.chosen = 1 .. Len(replay.chosen)
        BY <1>1 DEF Recovering, Selected
      <3> QED
        BY <1>1, <1>7, <3>1
    <2>2. /\ replay'.chosen = replay.chosen /\ replay'.log = 2 /\ replay'.rec = 1
          /\ logs' = logs /\ tables' = tables /\ Chosen(1)' = Chosen(1) /\ Chosen(2)' = Chosen(2)
      BY <1>1, <1>7 DEF Chosen
    <2>3. ReadUpTo(replay.log, replay.rec - 1)'
      <3> SUFFICES ASSUME NEW k \in Keys
          PROVE  /\ \A i \in DOMAIN logs[Chosen(2)] : ~ i <= 0
                 /\ k \notin KeysOf(logs[Chosen(1)]) => tables[0][k] = None
                 /\ \A i \in DOMAIN logs[Chosen(1)] :
                      /\ logs[Chosen(1)][i].key = k
                      /\ \A j \in DOMAIN logs[Chosen(1)] : j > i => logs[Chosen(1)][j].key # k
                      => tables[0][k] = Entry(logs[Chosen(1)][i])
        BY <2>2 DEF ReadUpTo
      <3>1. \A i \in DOMAIN logs[Chosen(2)] : ~ i <= 0
        <4>1. logs[Chosen(2)] \in Seq(Records)
          BY <1>1, <2>1 DEF Chosen, TypeOK
        <4> QED
          BY <4>1
      <3>2. log = logs[Chosen(1)]
        BY <2>1
      <3> QED
        BY <1>3, <1>4, <2>1, <3>1, <3>2 DEF ReadUpTo, KeysOf
    <2>4. replay'.rec <= Len(ReplayLog') + 1 /\ logs'[Chosen(1)'] # << >>
      <3>1. ReplayLog' = logs[Chosen(2)] /\ logs[Chosen(2)] \in Seq(Records)
        BY <1>1, <2>1, <2>2 DEF ReplayLog, Chosen, TypeOK
      <3>2. Len(ReplayLog') \in Nat
        BY <3>1
      <3> QED
        BY <1>7, <2>1, <2>2, <3>2
    <2> HIDE DEF log
    <2> QED
      BY <1>1, <1>3, <1>5, <1>7, <2>2, <2>3, <2>4, ReplayKeeps DEF Recovering
  <1>8. CASE /\ log # << >> /\ replay.log = Len(replay.chosen) /\ pc' = "remerge"
             /\ replay' = replay
    <2>1. ReadUpTo(Len(replay.chosen), Len(logs[Chosen(Len(replay.chosen))]))
      BY <1>3, <1>8
    <2>2. ReadUpTo(Len(replay.chosen), Len(logs[Chosen(Len(replay.chosen))]))'
      BY <1>1, <1>8, <2>1 DEF ReadUpTo, Chosen
    <2> HIDE DEF log
    <2> QED
      BY <1>1, <1>3, <1>5, <1>8, <2>2, ReplayKeeps DEF Recovering
  <1> QED
    <2>1. hazards' = {} /\ log = << >> /\ pc' = "openlog" => \A n \in files : logs[n] = << >>
      BY <1>1 DEF ReadLogDone
    <2> QED
      BY <1>1, <1>6, <1>7, <1>8, <2>1 DEF ReadLogDone

LEMMA ShortTail ==
  ASSUME NEW S, NEW s \in Seq(S)
  PROVE  /\ Len(s) = 1 => Tail(s) = << >>
         /\ Len(s) = 2 => Tail(s) = <<s[2]>>
  <1>1. ASSUME Len(s) = 1 PROVE Tail(s) = << >>
    <2>1. Tail(s) \in Seq(S) /\ Len(Tail(s)) = 0
      BY <1>1
    <2>2. \A q \in Seq(S) : q # << >> => Len(q) \in Nat \ {0}
      BY EmptySeq
    <2> QED
      BY <2>1, <2>2, Zenon
  <1>2. ASSUME Len(s) = 2 PROVE Tail(s) = <<s[2]>>
    <2>1. s[2] \in S /\ Tail(s) \in Seq(S) /\ Len(Tail(s)) = 1 /\ Tail(s)[1] = s[2]
      BY <1>2
    <2>2. <<s[2]>> \in Seq(S) /\ Len(<<s[2]>>) = 1 /\ <<s[2]>>[1] = s[2]
      BY <2>1
    <2>3. \A i \in 1 .. 1 : i = 1
      OBVIOUS
    <2> QED
      BY <2>1, <2>2, <2>3, SeqEqual
  <1> QED
    BY <1>1, <1>2

LEMMA RemergeReads ==
  ASSUME TypeOK, LogFiles, Recovering, Remerge
  PROVE  LogFiles' /\ Recovering'
  <1> DEFINE c == Len(replay.chosen)
  <1>1. /\ UNCHANGED <<unchangedByRecovery, files, logs, replay>>
        /\ store' = Merged(store, tables[0]) /\ bloom' = bloom \cup Adds(tables[0])
        /\ tables' = [tables EXCEPT ![0] = Empty] /\ pc = "remerge" /\ pc' = "remove"
        /\ 0 \in Lsns /\ tables[0] \in Tables /\ store \in [Keys -> Nat]
    <2>1. 0 \in Lsns
      BY IndexAssumption DEF Lsns
    <2> QED
      BY <2>1 DEF Remerge, TypeOK
  <1>2. /\ Selected /\ Recoverable /\ replay.chosen # << >>
        /\ ReadUpTo(c, Len(logs[Chosen(c)])) /\ lsn = 0 /\ freed = {} /\ park.list = NoList
    BY <1>1 DEF Recovering
  <1>3. /\ replay.chosen \in Seq(files) /\ c \in {1, 2}
        /\ \A i \in 1 .. c : i \in DOMAIN replay.chosen /\ Chosen(i) \in files
    <2>1. replay.chosen \in Seq(files) /\ c <= 2 /\ c \in Nat /\ c # 0
      BY <1>2 DEF Selected
    <2>2. \A n \in Nat : n # 0 /\ n <= 2 => n \in {1, 2}
      OBVIOUS
    <2>3. \A i \in 1 .. c : i \in DOMAIN replay.chosen /\ Chosen(i) \in files
      BY <2>1 DEF Chosen
    <2> QED
      BY <2>1, <2>2, <2>3
  <1>4. \A n \in files : logs[n] \in Seq(Records)
    BY DEF TypeOK
  <1>5. \A k \in Keys : store'[k] = latest[k]
    <2> TAKE k \in Keys
    <2>1. store'[k] = IF tables[0][k].opt = "NONE" THEN store[k] ELSE Value(tables[0][k])
      BY <1>1, MergedIs
    <2>2. ASSUME NEW l \in 1 .. c, NEW i \in DOMAIN logs[Chosen(l)],
                 logs[Chosen(l)][i].key = k,
                 \A j \in DOMAIN logs[Chosen(l)] : j > i => logs[Chosen(l)][j].key # k,
                 l = c \/ k \notin KeysOf(logs[Chosen(c)]),
                 tables[0][k] = Entry(logs[Chosen(l)][i])
          PROVE  store'[k] = latest[k]
      <3>1. l \in DOMAIN replay.chosen /\ logs[Chosen(l)] \in Seq(Records)
        BY <1>3, <1>4
      <3>2. Value(logs[Chosen(l)][i]) = latest[k]
        BY <1>2, <2>2, <3>1, ReplayedLast
      <3>3. logs[Chosen(l)][i].opt \in Opts
        <4>1. logs[Chosen(l)][i] \in Records
          BY <3>1
        <4> QED
          BY <4>1 DEF Records
      <3>4. tables[0][k].opt # "NONE" /\ Value(tables[0][k]) = latest[k]
        BY <2>2, <3>2, <3>3, EntriesHaveValues DEF Opts
      <3> QED
        BY <2>1, <3>4
    <2>3. CASE k \in KeysOf(logs[Chosen(c)])
      <3>1. c \in 1 .. c /\ logs[Chosen(c)] \in Seq(Records)
        <4>1. \A n \in {1, 2} : n \in 1 .. n
          OBVIOUS
        <4> HIDE DEF c
        <4> QED
          BY <1>3, <1>4, <4>1
      <3>2. PICK i \in DOMAIN logs[Chosen(c)] :
              logs[Chosen(c)][i].key = k /\ \A j \in DOMAIN logs[Chosen(c)] : j > i => logs[Chosen(c)][j].key # k
        BY <2>3, <3>1, LastIsThere
      <3>3. \A j \in DOMAIN logs[Chosen(c)] : j <= Len(logs[Chosen(c)])
        BY <3>1
      <3>4. tables[0][k] = Entry(logs[Chosen(c)][i])
        BY <1>2, <3>2, <3>3 DEF ReadUpTo
      <3> QED
        BY <2>2, <3>1, <3>2, <3>4
    <2>4. CASE c = 2 /\ k \notin KeysOf(logs[Chosen(2)]) /\ k \in KeysOf(logs[Chosen(1)])
      <3>1. 1 \in 1 .. c /\ logs[Chosen(1)] \in Seq(Records)
        BY <1>3, <1>4, <2>4
      <3>2. PICK i \in DOMAIN logs[Chosen(1)] :
              logs[Chosen(1)][i].key = k /\ \A j \in DOMAIN logs[Chosen(1)] : j > i => logs[Chosen(1)][j].key # k
        BY <2>4, <3>1, LastIsThere
      <3>3. \A j \in DOMAIN logs[Chosen(2)] : logs[Chosen(2)][j].key # k
        BY <2>4 DEF KeysOf
      <3>4. tables[0][k] = Entry(logs[Chosen(1)][i])
        BY <1>2, <2>4, <3>2, <3>3 DEF ReadUpTo
      <3> QED
        BY <2>2, <2>4, <3>1, <3>2, <3>4
    <2>5. CASE \A i \in 1 .. c : k \notin KeysOf(logs[Chosen(i)])
      <3>1. c \in 1 .. c /\ (c = 2 => 1 \in 1 .. c)
        <4>1. \A n \in {1, 2} : n \in 1 .. n /\ 1 \in 1 .. n
          OBVIOUS
        <4> HIDE DEF c
        <4> QED
          BY <1>3, <4>1
      <3>2. \A j \in DOMAIN logs[Chosen(c)] : logs[Chosen(c)][j].key # k
        BY <2>5, <3>1 DEF KeysOf
      <3>3. tables[0][k] = None
        BY <1>2, <1>3, <2>5, <3>1, <3>2 DEF ReadUpTo
      <3>4. DOMAIN replay.chosen = 1 .. c
        BY <1>3
      <3>5. \A n \in files : k \notin KeysOf(logs[n])
        BY <1>2, <2>5, <3>4, KeysOfEmpty DEF Selected
      <3>6. store[k] = latest[k]
        BY <1>2, <3>5 DEF Recoverable, Comes
      <3> QED
        BY <2>1, <3>3, <3>6 DEF None
    <2>6. CASE c = 1
      <3>1. \A i \in 1 .. c : i = c
        BY <2>6
      <3> QED
        BY <2>3, <2>5, <3>1
    <2>7. CASE c = 2
      <3>1. \A i \in 1 .. c : i \in {1, 2}
        BY <2>7
      <3> QED
        BY <2>3, <2>4, <2>5, <2>7, <3>1
    <2> QED
      BY <1>3, <2>6, <2>7
  <1>6. \A k \in InStore' : k \in bloom'
    <2> SUFFICES ASSUME NEW k \in Keys, store'[k] # 0 PROVE k \in bloom'
      BY DEF InStore
    <2>1. CASE tables[0][k].opt = "NONE"
      <3>1. store[k] # 0
        BY <1>1, <2>1, MergedIs
      <3> QED
        BY <1>1, <3>1 DEF Recovering, InStore
    <2>2. CASE tables[0][k].opt # "NONE"
      <3>1. tables[0][k].opt = "ADD"
        BY <1>1, <2>2, MergedIs DEF Value
      <3> QED
        BY <1>1, <3>1 DEF Adds
    <2> QED
      BY <2>1, <2>2
  <1>7. \A n \in Lsns : tables'[n] = Empty
    <2>1. \A n \in Lsns : n = 0 \/ n > 0
      BY IndexAssumption DEF Lsns
    <2> QED
      BY <1>1, <2>1 DEF Recovering, TypeOK
  <1>8. Selected' /\ LogFiles'
    BY <1>1, <1>2 DEF Selected, Chosen, LogFiles
  <1>9. Recoverable'
    <2> SUFFICES ASSUME NEW k \in Keys PROVE Comes(k)'
      BY DEF Recoverable
    <2> QED
      BY <1>1, <1>2, <1>5 DEF Recoverable, Comes, unchangedByRecovery
  <1> HIDE DEF c
  <1> QED
    BY <1>1, <1>2, <1>5, <1>6, <1>7, <1>8, <1>9 DEF Recovering, unchangedByRecovery

LEMMA RemoveLogReads ==
  ASSUME TypeOK, LogFiles, Recovering, RemoveLog
  PROVE  LogFiles' /\ Recovering'
  <1> DEFINE h == Chosen(1)
  <1>1. /\ UNCHANGED <<unchangedByRecovery, store, tables, bloom, pc>>
        /\ files' = files \ {h} /\ logs' = [logs EXCEPT ![h] = << >>]
        /\ replay'.chosen = Tail(replay.chosen) /\ pc = "remove" /\ replay.chosen # << >>
    BY DEF RemoveLog, LogsLeft, NoReplay, Chosen
  <1>2. Selected /\ Recoverable
    BY <1>1 DEF Recovering
  <1>3. /\ replay.chosen \in Seq(files) /\ Len(replay.chosen) \in {1, 2}
        /\ DOMAIN replay.chosen = 1 .. Len(replay.chosen)
    <2>1. replay.chosen \in Seq(files) /\ Len(replay.chosen) <= 2
      BY <1>2 DEF Selected
    <2>2. /\ Len(replay.chosen) \in Nat /\ Len(replay.chosen) # 0
          /\ DOMAIN replay.chosen = 1 .. Len(replay.chosen)
      BY <1>1, <2>1
    <2>3. \A n \in Nat : n # 0 /\ n <= 2 => n \in {1, 2}
      OBVIOUS
    <2> QED
      BY <2>1, <2>2, <2>3
  <1>4. h \in files /\ h \in Lsns /\ files \subseteq Lsns /\ Lsns \subseteq Nat
        /\ \A n \in Lsns : logs'[n] = IF n = h THEN << >> ELSE logs[n]
    <2>1. \A n \in {1, 2} : 1 \in 1 .. n
      OBVIOUS
    <2>2. 1 \in DOMAIN replay.chosen
      BY <1>3, <2>1
    <2>3. h \in files
      BY <1>3, <2>2 DEF Chosen
    <2> HIDE DEF h
    <2> QED
      BY <1>1, <2>3, IndexAssumption DEF TypeOK, Lsns
  <1>5. LogFiles'
    BY <1>1, <1>4 DEF LogFiles
  <1>6. CASE Len(replay.chosen) = 1
    <2>1. Tail(replay.chosen) = << >>
      BY <1>3, <1>6, ShortTail
    <2>2. \A n \in files' : logs'[n] = << >>
      <3>1. DOMAIN replay.chosen = {1}
        BY <1>3, <1>6
      <3> QED
        BY <1>1, <1>2, <1>4, <3>1 DEF Selected
    <2>3. Selected'
      <3>1. << >> \in Seq(files') /\ Len(<< >>) = 0
        OBVIOUS
      <3>2. replay'.chosen = << >>
        BY <1>1, <2>1
      <3> QED
        BY <2>2, <3>1, <3>2 DEF Selected
    <2>4. Recoverable'
      <3>1. \A n \in files' : DOMAIN logs'[n] = {}
        BY <2>2
      <3> QED
        BY <1>1, <3>1 DEF Recovering, Recoverable, Comes, unchangedByRecovery
    <2> QED
      BY <1>1, <1>5, <2>3, <2>4 DEF Recovering, InStore, unchangedByRecovery
  <1>7. CASE Len(replay.chosen) = 2
    <2> DEFINE o == Chosen(2)
    <2>1. /\ Tail(replay.chosen) = <<o>> /\ o \in files /\ o # h
          /\ h < o \/ KeysOf(logs[h]) \cap KeysOf(logs[o]) = {}
          /\ \A n \in files : n # h /\ n # o => logs[n] = << >>
      <3>1. 1 \in DOMAIN replay.chosen /\ 2 \in DOMAIN replay.chosen /\ DOMAIN replay.chosen = {1, 2}
        BY <1>3, <1>7
      <3>2. Tail(replay.chosen) = <<o>> /\ o \in files
        <4>1. Tail(replay.chosen) = <<o>>
          BY <1>3, <1>7, ShortTail DEF Chosen
        <4>2. o \in files
          BY <1>3, <3>1 DEF Chosen
        <4> QED
          BY <4>1, <4>2
      <3>3. \A n \in files : n # h /\ n # o => logs[n] = << >>
        BY <1>2, <3>1 DEF Selected
      <3> QED
        BY <1>2, <1>7, <3>2, <3>3 DEF Selected
    <2>2. Selected'
      <3>1. o \in files' /\ <<o>> \in Seq(files') /\ Len(<<o>>) = 1 /\ 1 \in DOMAIN <<o>> /\ <<o>>[1] = o
        BY <1>1, <2>1
      <3>2. \A n \in files' : n # o => logs'[n] = << >>
        BY <1>1, <1>4, <2>1
      <3>3. replay'.chosen = <<o>>
        BY <1>1, <2>1
      <3> HIDE DEF o, h
      <3> QED
        BY <3>1, <3>2, <3>3 DEF Selected, Chosen
    <2>3. Recoverable'
      <3> SUFFICES ASSUME NEW k \in Keys PROVE Comes(k)'
        BY DEF Recoverable
      <3>1. store'[k] = latest'[k]
        BY <1>1 DEF Recovering, unchangedByRecovery
      <3>2. ASSUME NEW n \in files', NEW i \in DOMAIN logs'[n], logs'[n][i].key = k,
                   \A j \in DOMAIN logs'[n] : j > i => logs'[n][j].key # k
            PROVE  Value(logs'[n][i]) = latest'[k]
        <4>1. n \in files /\ n # h /\ logs'[n] = logs[n] /\ n \in Nat /\ h \in Nat
          BY <1>1, <1>4
        <4>2. DOMAIN logs[n] # {}
          BY <3>2, <4>1
        <4>3. n = o
          BY <2>1, <4>1, <4>2
        <4>4. k \in KeysOf(logs[n])
          BY <3>2, <4>1 DEF KeysOf
        <4>5. \A m \in files : m > n => k \notin KeysOf(logs[m])
          <5>1. ASSUME NEW m \in files, m > n, k \in KeysOf(logs[m]) PROVE FALSE
            <6>1. m = h
              BY <1>4, <2>1, <4>1, <4>3, <5>1, KeysOfEmpty
            <6> QED
              BY <2>1, <4>1, <4>3, <4>4, <5>1, <6>1
          <5> QED
            BY <5>1
        <4>6. Value(logs[n][i]) = latest[k]
          BY <1>2, <3>2, <4>1, <4>5 DEF Recoverable, Comes
        <4> QED
          BY <1>1, <4>1, <4>6 DEF unchangedByRecovery
      <3> QED
        BY <3>1, <3>2 DEF Comes
    <2> QED
      BY <1>1, <1>5, <2>2, <2>3 DEF Recovering, InStore, unchangedByRecovery
  <1> QED
    BY <1>3, <1>6, <1>7

LEMMA OpenLogReads ==
  ASSUME TypeOK, LogFiles, Recovering, OpenLog
  PROVE  LogFiles' /\ Serving'
  <1>1. /\ UNCHANGED <<unchangedByRecovery, store, tables, bloom, replay>>
        /\ files' = files \cup {0} /\ logs' = [logs EXCEPT ![0] = << >>] /\ pc' = "idle"
        /\ pc \in {"remove", "openlog"} /\ (pc = "remove" => replay.chosen = << >>)
        /\ 0 \in Lsns /\ Lsns \subseteq Nat
    BY IndexAssumption DEF OpenLog, Lsns
  <1>2. \A n \in Lsns : logs[n] = << >>
    <2>1. CASE pc = "openlog"
      BY <2>1 DEF Recovering
    <2>2. CASE pc = "remove"
      <3>1. Selected /\ DOMAIN replay.chosen = {}
        BY <1>1, <2>2 DEF Recovering
      <3> QED
        BY <3>1 DEF Selected, LogFiles
    <2> QED
      BY <1>1, <2>1, <2>2
  <1>3. \A k \in Keys : store[k] = latest[k]
    <2>1. CASE pc = "openlog"
      <3>1. \A n \in files : KeysOf(logs[n]) = {}
        BY <1>2, KeysOfEmpty DEF TypeOK
      <3> QED
        BY <3>1 DEF Recovering, Recoverable, Comes
    <2>2. CASE pc = "remove"
      BY <2>2 DEF Recovering
    <2> QED
      BY <1>1, <2>1, <2>2
  <1>4. /\ lsn' = 0 /\ freed' = {} /\ park'.list = NoList
        /\ \A n \in Lsns : tables'[n] = Empty /\ logs'[n] = << >>
        /\ \A k \in Keys : store'[k] = latest'[k]
    BY <1>1, <1>2, <1>3 DEF Recovering, unchangedByRecovery, TypeOK
  <1>5. LogFiles'
    BY <1>4 DEF LogFiles
  <1>6. Rotation'
    <2>1. \A n \in Lsns : ~ n < 0 - 1
      BY <1>1
    <2> QED
      BY <1>1, <1>4, <2>1 DEF Rotation
  <1>7. Current'
    <2>1. \A k \in Keys : Held(k)' = store'[k]
      BY <1>1, <1>4, EmptyHasNone DEF Held
    <2> QED
      BY <1>1, <1>4, <2>1 DEF Current, Writing
  <1>8. Filtered'
    <2>1. Adds(Empty) = {}
      BY EmptyHasNone DEF Adds
    <2> QED
      BY <1>1, <1>4, <2>1 DEF Filtered, Recovering, InStore
  <1>9. Reading'
    BY <1>1 DEF Reading, ReadPcs
  <1>10. Logged'
    <2>1. \A n \in 0 .. 0 : n = 0
      OBVIOUS
    <2>2. \A n \in 1 .. 0 : FALSE
      OBVIOUS
    <2> QED
      BY <1>1, <1>4, <2>1, <2>2, EmptyHasNone, KeysOfEmpty DEF Logged, Later
  <1> QED
    BY <1>5, <1>6, <1>7, <1>8, <1>9, <1>10 DEF Serving

-----------------------------------------------------------------------------
(* Every step *)

LEMMA HazardsStay == [Next]_vars => hazards \subseteq hazards'
  BY DEF Next, Add, LogAppend, Park, Spawn, Insert, Get, GetList, GetPark,
         GetParked, GetSilo, GetDone, unchangedByGet, Close, CloseWait,
         CloseMerge, CloseLog, Exit, unchangedByClose, Crash, Die, Open, Reopen, ReadRecord,
         ReadLogDone, Remerge, RemoveLog, OpenLog, unchangedByRecovery, Fault,
         vars, Job, JobReadLsn, JobReadList, JobLock, JobMerge, JobUnpark,
         JobLogRemove, unchangedByJob

LEMMA AddReads ==
  ASSUME PromptMerge, TypeOK, Protocol, LogFiles, Serving, Add
  PROVE  LogFiles' /\ Serving' /\ pc' # "fault"
  <1>1. ASSUME NEW k \in Keys, NEW opt \in Opts, LogAppend(k, opt)
        PROVE  LogFiles' /\ Serving' /\ pc' # "fault"
    BY <1>1, LogAppendReads DEF LogAppend
  <1>2. CASE Park
    BY <1>2, ParkReads DEF Park
  <1>3. CASE Spawn
    BY <1>3, SpawnReads DEF Spawn
  <1>4. CASE Insert
    BY <1>4, InsertReads DEF Insert
  <1> QED
    BY <1>1, <1>2, <1>3, <1>4 DEF Add

LEMMA GetReads ==
  ASSUME TypeOK, Protocol, LogFiles, Serving, Get, pc' # "fault"
  PROVE  LogFiles' /\ Serving'
  <1>1. ASSUME NEW k \in Keys, GetList(k) PROVE LogFiles' /\ Serving'
    BY <1>1, GetListReads
  <1>2. CASE GetPark
    BY <1>2, GetParkReads
  <1>3. CASE GetParked
    BY <1>3, GetParkedReads
  <1>4. CASE GetSilo
    BY <1>4, GetSiloReads
  <1>5. CASE GetDone
    BY <1>5, GetDoneReads
  <1> QED
    BY <1>1, <1>2, <1>3, <1>4, <1>5 DEF Get

LEMMA OpenReads ==
  ASSUME TypeOK, LogFiles, Recovering, Open, hazards' = {}
  PROVE  LogFiles' /\ IF pc' = "idle" THEN Serving' ELSE Recovering'
  <1>1. ASSUME NEW new \in Lsns, NEW old \in Lsns, Reopen(new, old)
        PROVE  LogFiles' /\ Recovering' /\ pc' # "idle"
    BY <1>1, ReopenReads DEF Reopen
  <1>2. CASE ReadRecord
    BY <1>2, ReadRecordReads DEF ReadRecord
  <1>3. CASE ReadLogDone
    BY <1>3, ReadLogDoneReads DEF ReadLogDone
  <1>4. CASE Remerge
    BY <1>4, RemergeReads DEF Remerge
  <1>5. CASE RemoveLog
    BY <1>5, RemoveLogReads DEF RemoveLog
  <1>6. CASE OpenLog
    BY <1>6, OpenLogReads DEF OpenLog
  <1> QED
    BY <1>1, <1>2, <1>3, <1>4, <1>5, <1>6 DEF Open

LEMMA NextReadable ==
  PromptMerge /\ TypeOK /\ Protocol /\ Readable /\ [Next]_vars => Readable'
  <1> SUFFICES ASSUME PromptMerge, TypeOK, Protocol, Readable, [Next]_vars, hazards' = {}
               PROVE  /\ LogFiles'
                      /\ Up' => Serving'
                      /\ ~ Up' /\ pc' # "fault" => Recovering'
    BY DEF Readable
  <1>1. hazards = {}
    BY HazardsStay
  <1>2. LogFiles /\ (Up => Serving) /\ (~ Up /\ pc # "fault" => Recovering)
    BY <1>1 DEF Readable
  <1>3. CASE UNCHANGED vars
    <2>1. UNCHANGED vars
      BY <1>3
    <2> USE <2>1 DEF vars, disk, memory
    <2>2. Up' = Up /\ pc' = pc /\ (LogFiles' <=> LogFiles)
      BY DEF LogFiles, Up, ReadPcs
    <2>3. (Rotation' <=> Rotation) /\ (Filtered' <=> Filtered) /\ (Reading' <=> Reading)
      BY DEF Rotation, Filtered, InStore, Adds, Reading, ReadPcs
    <2>4. (Current' <=> Current) /\ (Logged' <=> Logged)
      BY DEF Current, Held, Writing, Logged, Later, LastWrite
    <2>5. (Recoverable' <=> Recoverable) /\ (Selected' <=> Selected)
      BY DEF Recoverable, Comes, KeysOf, Selected, Chosen
    <2>6. \A l, last : ReadUpTo(l, last)' <=> ReadUpTo(l, last)
      BY DEF ReadUpTo, Chosen, KeysOf
    <2>7. Recovering => Recovering'
      BY <2>5, <2>6 DEF Recovering, InStore, ReplayLog, Chosen
    <2> QED
      BY <1>2, <2>2, <2>3, <2>4, <2>7 DEF Serving
  <1>4. CASE Add
    <2>1. Up
      BY <1>4 DEF Add, LogAppend, Park, Spawn, Insert, Up
    <2>2. Up'
      BY <1>4 DEF Add, LogAppend, Park, Spawn, Insert, Up
    <2> QED
      BY <1>2, <1>4, <2>1, <2>2, AddReads
  <1>5. CASE Get
    <2>1. Up /\ (Up' \/ pc' = "fault")
      BY <1>5 DEF Get, GetList, GetPark, GetParked, GetSilo, GetDone, Answer, Up, ReadPcs
    <2>2. LogFiles'
      BY <1>2, <1>5 DEF Get, GetList, GetPark, GetParked, GetSilo, GetDone, unchangedByGet,
                        disk, LogFiles
    <2> QED
      BY <1>2, <1>5, <2>1, <2>2, GetReads DEF Up, ReadPcs
  <1>6. CASE CloseWait \/ CloseMerge \/ CloseLog
    <2>1. Up /\ Up'
      BY <1>6 DEF CloseWait, CloseMerge, CloseLog, Up
    <2> QED
      BY <1>2, <1>6, <2>1, CloseReads
  <1>7. CASE Die /\ Running
    <2>1. DeathHazards = {} /\ pc' = "down"
      BY <1>7 DEF Die
    <2>2. Recoverable
      <3>1. CASE Up
        BY <1>2, <2>1, <3>1, ServingIsRecoverable
      <3>2. CASE ~ Up
        BY <1>2, <1>7, <3>2 DEF Running, Recovering
      <3> QED
        BY <3>1, <3>2
    <2> QED
      BY <1>2, <1>7, <2>1, <2>2, DieReads DEF Up, ReadPcs
  <1>8. CASE Open
    <2>1. ~ Up /\ pc # "fault" /\ pc' # "fault" /\ (Up' <=> pc' = "idle")
      BY <1>8 DEF Open, Reopen, ReadRecord, ReadLogDone, Remerge, RemoveLog, OpenLog, Up, ReadPcs
    <2> QED
      BY <1>2, <1>8, <2>1, OpenReads
  <1>9. ASSUME NEW n \in Lsns, Job(n)
        PROVE  /\ LogFiles'
               /\ Up' => Serving'
               /\ ~ Up' /\ pc' # "fault" => Recovering'
    <2>1. jobs[n].pc # "none" /\ (pc' = pc \/ pc' = "fault") /\ Running
      BY <1>9 DEF Job, JobReadLsn, JobReadList, JobLock, JobMerge, JobUnpark, JobLogRemove
    <2>2. lsn # 0
      BY <2>1, IndexAssumption DEF Protocol, Lsns
    <2>3. Up
      BY <1>2, <2>1, <2>2, IndexAssumption DEF Recovering, Running, Lsns
    <2>4. CASE pc' = "fault"
      BY <1>2, <1>9, <2>1, <2>3, <2>4 DEF Job, JobReadLsn, JobReadList, JobLock, JobMerge,
           JobUnpark, JobLogRemove, LogFiles, Up, ReadPcs
    <2>5. CASE pc' # "fault"
      BY <1>2, <1>9, <2>1, <2>3, <2>5, JobReads DEF Up
    <2> QED
      BY <2>4, <2>5
  <1> QED
    BY <1>3, <1>4, <1>5, <1>6, <1>7, <1>8, <1>9
    DEF Next, Close, Crash, Exit, Running, Fault

LEMMA ReadableInvariant == PromptMerge => (Spec => []Readable)
  <1> SUFFICES ASSUME PromptMerge PROVE Spec => []Readable
    OBVIOUS
  <1>1. TypeOK /\ Protocol /\ Readable /\ [Next]_vars => Readable'
    BY NextReadable
  <1> QED
    BY <1>1, InitReadable, ProtocolInvariant, PTL DEF Spec

(* A lookup answers with its key's last write, whatever rotations, merges,  *)
(* shutdowns, deaths and recoveries came between, for keys whose delete is  *)
(* not in the parked memtable and until one of the named hazards happens:   *)
(* index_get, index_add, _merge_job, index_free and log_recovery together.  *)
THEOREM LookupsReadTheLatest == PromptMerge => (Spec => []GetIsLatest)
  <1> SUFFICES ASSUME PromptMerge PROVE Spec => []GetIsLatest
    OBVIOUS
  <1>1. Readable => GetIsLatest
    BY DEF Readable, GetIsLatest, Up, Serving, Reading
  <1> QED
    BY <1>1, ReadableInvariant, PTL
=============================================================================
