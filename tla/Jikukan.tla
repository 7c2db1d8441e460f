------------------------------ MODULE Jikukan ------------------------------
(***************************************************************************)
(* The skip list every memtable and every merge buffer is                  *)
(* (storage/src/jikukan.c), at the granularity of its search loop.         *)
(*                                                                         *)
(* A key is a positive integer, so that strcmp is <; a node is named by    *)
(* its key.  The header is 0, and is both before the first node and the    *)
(* NIL every chain ends in, as in the code.  rand() may stop anywhere.     *)
(* The splice loop touches each level once and is one step.                *)
(***************************************************************************)
EXTENDS Integers, FiniteSets

CONSTANTS
  Keys,        \* the keys in use
  Entries,     \* what a node holds: a value and an option
  None,        \* lookup's NULL
  Size,        \* list->size
  MAXLEVEL

ASSUME JikukanAssumption ==
  /\ Keys \subseteq Nat \ {0}
  /\ None \notin Entries
  /\ Size \in Nat
  /\ MAXLEVEL \in Nat

NIL    == 0
Levels == 0 .. MAXLEVEL

VARIABLES
  nodes,      \* the nodes allocated so far
  forward,    \* forward[x][i], x a node or the header
  height,     \* the highest i for which a node's forward[i] was allocated
  data,       \* val and opt of each node
  level,      \* list->level
  count,      \* list->count
  pc,         \* where the caller is in jikukan_insert or jikukan_lookup
  call,       \* the arguments of the call
  x, i,       \* the cursor and the level of the search
  update,     \* the last node before the key, on each level searched
  reply       \* what the last call returned

list == <<nodes, forward, height, data, level, count>>
vars == <<list, pc, call, x, i, update, reply>>

Places == nodes \cup {NIL}
Top(n) == IF n = NIL THEN MAXLEVEL ELSE height[n]

(* jikukan_new *)
Init ==
  /\ nodes   = {}
  /\ forward = [n \in Keys \cup {NIL} |-> [l \in Levels |-> NIL]]
  /\ height  = [k \in Keys |-> 0]
  /\ data    = [k \in Keys |-> None]
  /\ level   = 0
  /\ count   = 0
  /\ pc      = "idle"
  /\ call    = [op |-> "new", key |-> NIL, entry |-> None]
  /\ x       = NIL
  /\ i       = 0
  /\ update  = [l \in Levels |-> NIL]
  /\ reply   = [op |-> "new", key |-> NIL, ret |-> None]

-----------------------------------------------------------------------------
Return(ret) ==
  /\ pc' = "idle"
  /\ reply' = [op |-> call.op, key |-> call.key, ret |-> ret]

(* A call starts at the header, on the highest level in use. *)
StartSearch(op, k, e) ==
  /\ pc' = "search"
  /\ call' = [op |-> op, key |-> k, entry |-> e]
  /\ x' = NIL
  /\ i' = level
  /\ UNCHANGED <<list, update, reply>>

RoomToSpare == count <= Size                                     \* mutant
NotFull == count < Size

(* jikukan_insert *)
Insert(k, e) ==
  /\ pc = "idle"
  /\ \/ NotFull /\ StartSearch("insert", k, e)
     \/ /\ ~ NotFull
        /\ reply' = [op |-> "insert", key |-> k, ret |-> 0]
        /\ UNCHANGED <<list, pc, call, x, i, update>>

(* jikukan_lookup *)
Lookup(k) ==
  /\ pc = "idle"
  /\ StartSearch("lookup", k, None)

AheadIncluding == forward[x][i] # NIL /\ forward[x][i] <= call.key   \* mutant
AheadPastEnd == forward[x][i] < call.key                         \* mutant
Ahead == forward[x][i] # NIL /\ forward[x][i] < call.key

(* The inner loop: one node along the level. *)
Forward ==
  /\ pc = "search"
  /\ Ahead
  /\ x' = forward[x][i]
  /\ UNCHANGED <<list, pc, call, i, update, reply>>

BelowBottom == i < 0                                             \* mutant
AtBottom == i = 0

(* The outer loop: remember the node, and one level down. *)
Down ==
  /\ pc = "search"
  /\ ~ Ahead
  /\ update' = [update EXCEPT ![i] = x]
  /\ IF AtBottom THEN pc' = "found" /\ i' = i
                 ELSE pc' = "search" /\ i' = i - 1
  /\ UNCHANGED <<list, call, x, reply>>

Found == forward[x][0]
IsKey == Found # NIL /\ Found = call.key

LookupDone ==
  /\ pc = "found" /\ call.op = "lookup"
  /\ Return(IF IsKey THEN data[Found] ELSE None)
  /\ UNCHANGED <<list, call, x, i, update>>

(* The key is there: its node gets the new value and option. *)
Replace ==
  /\ pc = "found" /\ call.op = "insert"
  /\ IsKey
  /\ data' = [data EXCEPT ![Found] = call.entry]
  /\ Return(1)
  /\ UNCHANGED <<nodes, forward, height, level, count, call, x, i, update>>

(* The node before the new one on level l; above the old top it is the     *)
(* header.                                                                 *)
Before(l) == IF l > level THEN NIL ELSE update[l]

OneTooMany(n, l) == l <= n + 1                                   \* mutant
Linked(n, l) == l <= n

Spliced(n) ==
  [m \in Keys \cup {NIL} |-> [l \in Levels |->
     IF ~ Linked(n, l) THEN forward[m][l]
     ELSE IF m = call.key THEN forward[Before(l)][l]
     ELSE IF m = Before(l) THEN call.key
     ELSE forward[m][l]]]

(* A new node of a random height. *)
Splice(n) ==
  /\ pc = "found" /\ call.op = "insert"
  /\ ~ IsKey
  /\ nodes'   = nodes \cup {call.key}
  /\ forward' = Spliced(n)
  /\ height'  = [height EXCEPT ![call.key] = n]
  /\ data'    = [data EXCEPT ![call.key] = call.entry]
  /\ level'   = IF n > level THEN n ELSE level
  /\ count'   = count + 1
  /\ Return(1)
  /\ UNCHANGED <<call, x, i, update>>

Step == Forward \/ Down \/ LookupDone \/ Replace \/ \E n \in Levels : Splice(n)

Next ==
  \/ \E k \in Keys : Lookup(k) \/ \E e \in Entries : Insert(k, e)
  \/ Step

Spec     == Init /\ [][Next]_vars
FairSpec == Spec /\ WF_vars(Step)

-----------------------------------------------------------------------------
(* Properties *)

Calls   == [op : {"new", "insert", "lookup"}, key : Keys \cup {NIL},
            entry : Entries \cup {None}]
Replies == [op : {"new", "insert", "lookup"}, key : Keys \cup {NIL},
            ret : Entries \cup {None, 0, 1}]

(* Every variable holds a value of its type. *)
TypeOK ==
  /\ nodes \subseteq Keys
  /\ forward \in [Keys \cup {NIL} -> [Levels -> Keys \cup {NIL}]]
  /\ height \in [Keys -> Levels]
  /\ data \in [Keys -> Entries \cup {None}]
  /\ level \in Levels
  /\ count \in Nat
  /\ pc \in {"idle", "search", "found"}
  /\ call \in Calls
  /\ x \in Keys \cup {NIL}
  /\ i \in Levels
  /\ update \in [Levels -> Keys \cup {NIL}]
  /\ reply \in Replies
  /\ pc # "idle" => call.key \in Keys
  /\ pc # "idle" /\ call.op = "insert" => call.entry \in Entries

(* y is the first node after n on level l, NIL when there is none. *)
IsNext(n, l, y) ==
  LET after == {m \in nodes : m > n /\ height[m] >= l}
  IN \/ y = NIL /\ after = {}
     \/ y \in after /\ \A m \in after : y <= m

(* Every chain is sorted, complete for the nodes that reach its level, and *)
(* ends in the header: what silopit_merge's walk and every search rely on. *)
ChainsAreSorted ==
  \A n \in Places : \A l \in 0 .. Top(n) : IsNext(n, l, forward[n][l])

(* A search never reads a forward pointer its node was not allocated with: *)
(* the cursor is a linked node at least as high as the level it is on.     *)
SearchStaysInNode == pc = "search" => x \in Places /\ i <= Top(x)

(* The list holds what was inserted, refuses when it is full, and finds    *)
(* exactly what it holds: it implements a bounded map.                     *)
Map == INSTANCE SortedMap WITH
  map <- [k \in Keys |-> IF k \in nodes THEN data[k] ELSE None]

ImplementsMap == Map!Spec

(* Every call returns. *)
CallsReturn == pc # "idle" ~> pc = "idle"
=============================================================================
