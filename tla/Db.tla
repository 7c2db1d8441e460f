-------------------------------- MODULE Db --------------------------------
(***************************************************************************)
(* The database the server's commands call (storage/src/db.c): the cache   *)
(* (shiki.c, its two lists in level.c, its hash table in ht.c) in front of *)
(* the index, which is here the three maps its lookups go through; module  *)
(* Index says how they come about.  One thread makes every call; merges    *)
(* end beside it at any moment.                                            *)
(*                                                                         *)
(* Abstractions.  A value is the number of the write that made it.  A node *)
(* is never allocated where another was, and a larger number is a newer    *)
(* node: the chains of the hash table are newest first.  One slot or many  *)
(* makes no difference to what a chain's search finds.                     *)
(***************************************************************************)
EXTENDS Integers, FiniteSets, FiniteSetsExt

CONSTANTS
  Keys,
  Longer,      \* Longer[k]: the keys that begin with k and go on
  Garbled,     \* a name that is no client's key
  SizeOf,      \* SizeOf[v]: bytes of a key with its v-th value
  BufferSize,  \* bufferpool_size
  MAXHITS,
  MaxWrites,   \* bound: writes in all
  MaxNodes     \* bound: cache nodes in all

ASSUME DbAssumption ==
  /\ IsFiniteSet(Keys)
  /\ Longer \in [Keys -> SUBSET Keys]
  /\ Garbled \notin Keys
  /\ MaxWrites \in Nat /\ MaxNodes \in Nat /\ MAXHITS \in Nat /\ BufferSize \in Nat
  /\ SizeOf \in [1 .. MaxWrites -> Nat]

Values  == 1 .. MaxWrites
None    == 0              \* no value, no node in a memtable
Deleted == -1             \* a node that deletes
NULL    == 0              \* no cache node
Ids     == 1 .. MaxNodes
Levels  == {"old", "new"}
Hot     == -1             \* hits of a node of the new level

Empty == [k \in Keys |-> None]

VARIABLES
  cache,        \* the cache: its nodes, hash table and levels
  list, park,   \* the current memtable, and the one being merged
  store,        \* the sorted files
  pc, op,       \* where the call is; its key, its value and its answer
  latest,       \* history: the last value written, None after a delete
  hazards,      \* history: named events that void the promises
  writes

index == <<list, park, store>>
vars  == <<cache, index, pc, op, latest, hazards, writes>>

NoOp == [key |-> Garbled, val |-> None, ret |-> None]

-----------------------------------------------------------------------------
(* ht.c *)

HtGet(c, k) ==
  LET named == {n \in c.ht : c.node[n].name = k}
  IN IF named = {} THEN NULL ELSE Max(named)

HtRemove(c, k) == [c EXCEPT !.ht = @ \ {HtGet(c, k)}]

-----------------------------------------------------------------------------
(* level.c *)

(* What is read of a node once it is freed: nothing, its address apart. *)
NoNode == [name |-> Garbled, key |-> Garbled, val |-> None, size |-> 0, hits |-> 0,
           pre |-> NULL, nxt |-> NULL]

SetHead(c, l, n) ==
  LET counted == [c EXCEPT !.count[l] = @ + 1, !.first[l] = n]
  IN IF c.first[l] = NULL THEN counted
     ELSE [counted EXCEPT !.node[n].pre = NULL, !.node[n].nxt = c.first[l]]

RemoveLink(c, l, n) ==
  LET counted == [c EXCEPT !.count[l] = @ - 1]
      pre     == c.node[n].pre
      nxt     == c.node[n].nxt
  IN CASE pre = NULL /\ nxt = NULL -> counted
       [] pre = NULL /\ nxt # NULL ->
            [counted EXCEPT !.first[l] = nxt, !.node[n].nxt = NULL]
       [] pre # NULL /\ nxt = NULL ->
            [counted EXCEPT !.last[l] = pre, !.node[n].pre = NULL]
       [] pre # NULL /\ nxt # NULL ->
            [counted EXCEPT !.node[pre].nxt = nxt,
                            !.node[n].nxt = NULL, !.node[n].pre = NULL]

OldSizeOnly(c, l, n) ==                                          \* mutant
  [RemoveLink([c EXCEPT !.used["old"] = @ - c.node[n].size], l, n)
     EXCEPT !.node[n] = NoNode]
FreeNode(c, l, n) ==
  [RemoveLink([c EXCEPT !.used[l] = @ - c.node[n].size], l, n)
     EXCEPT !.node[n] = NoNode]

(* The last node of a level goes; there is none, and the process is ended  *)
(* by the dereference.                                                     *)
FreeLast(c, l) ==
  LET n == c.last[l]
  IN IF n = NULL THEN [c EXCEPT !.fault = TRUE]
     ELSE FreeNode(HtRemove(c, c.node[n].name), l, n)

-----------------------------------------------------------------------------
(* shiki.c *)

Allow(l) == LET new == (BufferSize * 618) \div 1000
            IN IF l = "new" THEN new ELSE BufferSize - new

Buffered == BufferSize > 1023

MakeRoom(c, l) == IF c.used[l] >= Allow(l) THEN FreeLast(c, l) ELSE c

LevelOf(c, n) == IF c.node[n].hits = Hot THEN "new" ELSE "old"

(* A node that was hit often enough moves to the new level. *)
SizeForgotten(c, n) ==                                           \* mutant
  [SetHead(c, "new", n) EXCEPT !.node[n].hits = Hot]
Promote(c, n) ==
  [SetHead(c, "new", n) EXCEPT !.node[n].hits = Hot,
                               !.used["old"] = @ - c.node[n].size,
                               !.used["new"] = @ + c.node[n].size]

(* _shiki_set_node *)
SetNode(c, n) ==
  LET room == MakeRoom(c, LevelOf(c, n))
      hit  == [room EXCEPT !.node[n].hits = @ + 1]
      out  == RemoveLink(hit, "old", n)
  IN IF room.fault THEN room
     ELSE IF LevelOf(c, n) = "new"
          THEN SetHead(RemoveLink(room, "new", n), "new", n)
     ELSE IF out.node[n].hits > MAXHITS THEN Promote(out, n)
     ELSE SetHead(out, "old", n)

(* The key is copied without its terminator: its name is what the bytes    *)
(* behind it make of it.                                                   *)
NewNode(k, name, v) ==
  [name |-> name, key |-> k, val |-> v, size |-> SizeOf[v], hits |-> 1,
   pre |-> NULL, nxt |-> NULL]

ShikiSet(c, k, name, v) ==
  LET known == HtGet(c, k)
      n     == c.next
      added == [c EXCEPT !.next = @ + 1, !.node[n] = NewNode(k, name, v),
                         !.ht = @ \cup {n}, !.used["old"] = @ + SizeOf[v],
                         !.count["old"] = @ + 1]
  IN IF ~ Buffered THEN c
     ELSE IF known # NULL THEN SetNode(c, known) ELSE SetNode(added, n)

(* shiki_get, for a node that is found *)
ShikiGet(c, k) == IF Buffered THEN HtGet(c, k) ELSE NULL

Kept(c, k) == c                                                  \* mutant
ShikiRemove(c, k) ==
  LET n == ShikiGet(c, k)
  IN IF n = NULL THEN c ELSE FreeNode(HtRemove(c, k), LevelOf(c, n), n)

(* shiki_new *)
NewCache ==
  [node |-> [n \in Ids |-> NoNode], next |-> 1, ht |-> {},
   first |-> [l \in Levels |-> NULL], last |-> [l \in Levels |-> NULL],
   used |-> [l \in Levels |-> 0], count |-> [l \in Levels |-> 0], fault |-> FALSE]

-----------------------------------------------------------------------------
(* db.c *)

Init ==
  /\ cache   = NewCache
  /\ list    = Empty
  /\ park    = Empty
  /\ store   = Empty
  /\ pc      = "idle"
  /\ op      = NoOp
  /\ latest  = Empty
  /\ hazards = {}
  /\ writes  = 0

(* db_add and db_remove: out of the cache first. *)
Write(k, v) ==
  /\ pc = "idle"
  /\ cache' = ShikiRemove(cache, k)
  /\ op'    = [NoOp EXCEPT !.key = k, !.val = v]
  /\ pc'    = "write"
  /\ UNCHANGED <<index, latest, hazards, writes>>

Add(k)    == writes < MaxWrites /\ Write(k, writes + 1)
Remove(k) == writes < MaxWrites /\ Write(k, Deleted)

(* index_add; a full memtable is parked first. *)
IndexAdd ==
  /\ pc = "write"
  /\ \/ list' = [list EXCEPT ![op.key] = op.val] /\ UNCHANGED park
     \/ /\ list # Empty /\ park = Empty
        /\ park' = list
        /\ list' = [Empty EXCEPT ![op.key] = op.val]
  /\ latest' = [latest EXCEPT ![op.key] = IF op.val = Deleted THEN None ELSE op.val]
  /\ writes' = writes + 1
  /\ pc'     = "idle"
  /\ op'     = NoOp
  /\ UNCHANGED <<cache, store, hazards>>

(* What index_get finds. *)
Find(k) ==
  CASE list[k] = Deleted -> None
    [] list[k] \in Values -> list[k]
    [] list[k] = None /\ park[k] \in Values -> park[k]
    [] OTHER -> store[k]

(* The delete of a parked memtable is passed over. *)
PassedOver(k) == list[k] = None /\ park[k] = Deleted /\ store[k] # None

Named(k) == IF PassedOver(k) THEN hazards \cup {"parkdel"} ELSE hazards

(* db_get: the cache, the index, and what the index finds into the cache. *)
Get(k) ==
  /\ pc = "idle"
  /\ LET n == ShikiGet(cache, k)
     IN \/ /\ n = NULL /\ cache.next \in Ids
           /\ pc' = "miss" /\ op' = [NoOp EXCEPT !.key = k]
           /\ UNCHANGED cache
        \/ /\ n # NULL
           /\ cache' = SetNode(cache, n)
           /\ pc' = IF cache'.fault THEN "fault" ELSE "got"
           /\ op' = [NoOp EXCEPT !.key = k, !.ret = cache.node[n].val]
  /\ UNCHANGED <<index, latest, hazards, writes>>

IndexGet ==
  /\ pc = "miss"
  /\ op' = [op EXCEPT !.ret = Find(op.key)]
  /\ pc' = IF Find(op.key) = None THEN "got" ELSE "cache"
  /\ hazards' = Named(op.key)
  /\ UNCHANGED <<cache, index, latest, writes>>

Cache ==
  /\ pc = "cache"
  /\ \E name \in {op.key, Garbled} \cup Longer[op.key] :
       /\ cache' = ShikiSet(cache, op.key, name, op.ret)
       /\ hazards' = IF name = op.key THEN hazards ELSE hazards \cup {"residue"}
  /\ pc' = IF cache'.fault THEN "fault" ELSE "got"
  /\ UNCHANGED <<index, op, latest, writes>>

(* db_exists does not look in the cache. *)
Exists(k) ==
  /\ pc = "idle"
  /\ pc' = "got"
  /\ op' = [NoOp EXCEPT !.key = k, !.ret = Find(k)]
  /\ hazards' = Named(k)
  /\ UNCHANGED <<cache, index, latest, writes>>

Done ==
  /\ pc = "got"
  /\ pc' = "idle" /\ op' = NoOp
  /\ UNCHANGED <<cache, index, latest, hazards, writes>>

(* The merge thread is done with the parked memtable. *)
MergeDone ==
  /\ park # Empty
  /\ store' = [k \in Keys |-> CASE park[k] = None    -> store[k]
                                [] park[k] = Deleted -> None
                                [] OTHER             -> park[k]]
  /\ park' = Empty
  /\ UNCHANGED <<cache, list, pc, op, latest, hazards, writes>>

Fault == pc = "fault" /\ UNCHANGED vars

Next ==
  \/ \E k \in Keys : Add(k) \/ Remove(k) \/ Get(k) \/ Exists(k)
  \/ IndexAdd \/ IndexGet \/ Cache \/ Done \/ MergeDone \/ Fault

Spec == Init /\ [][Next]_vars

-----------------------------------------------------------------------------
(* Properties *)

Names == Keys \cup {Garbled}
Nodes == [name : Names, key : Names, val : Values \cup {None}, size : Nat,
          hits : Int, pre : Ids \cup {NULL}, nxt : Ids \cup {NULL}]
Caches == [node : [Ids -> Nodes], next : Nat \ {0}, ht : SUBSET Ids,
           first : [Levels -> Ids \cup {NULL}], last : [Levels -> Ids \cup {NULL}],
           used : [Levels -> Nat], count : [Levels -> Int], fault : BOOLEAN]
Maps  == [Keys -> Values \cup {None, Deleted}]

(* Every variable holds a value of its type; in particular the bytes in    *)
(* use are never fewer than none, which a size_t could not say.            *)
TypeOK ==
  /\ cache \in Caches
  /\ list \in Maps /\ park \in Maps /\ store \in [Keys -> Values \cup {None}]
  /\ pc \in {"idle", "write", "miss", "cache", "got", "fault"}
  /\ op \in [key : Names, val : Values \cup {None, Deleted}, ret : Values \cup {None}]
  /\ latest \in [Keys -> Values \cup {None}]
  /\ hazards \subseteq {"residue", "parkdel"}
  /\ writes \in 0 .. MaxWrites

(* GET and EXISTS answer with the last value written, whether the cache or *)
(* the index has it and however merges come in between; unless a key's     *)
(* copy has taken in the bytes behind it (shiki.c:99), or the index has    *)
(* passed over a parked delete (index.c:237).                              *)
AnswersAreLatest == pc = "got" /\ hazards = {} => op.ret = latest[op.key]

InLevel(l) == {n \in cache.ht : LevelOf(cache, n) = l}

(* The bytes and the nodes a level says it holds are those of the nodes    *)
(* the hash table holds of that level, through hits, promotions and        *)
(* removals: evictions are decided on the bytes, and INFO adds them up.     *)
AccountingIsExact ==
  \A l \in Levels : pc # "fault" =>
    /\ cache.used[l] = MapThenSumSet(LAMBDA n : cache.node[n].size, InLevel(l))
    /\ cache.count[l] = Cardinality(InLevel(l))

(* What the code does not keep *)

(* INFO reports a "Max Allow Memory Usage" (db.c:120): the cache has a     *)
(* limit, and reaching it does not end the process.                        *)
FullCacheServes == pc # "fault"
=============================================================================
