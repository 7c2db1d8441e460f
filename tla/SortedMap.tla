----------------------------- MODULE SortedMap -----------------------------
(***************************************************************************)
(* What a memtable promises: a bounded map from keys to entries.  An       *)
(* insertion into a full map is refused, also when it would only replace   *)
(* an entry.                                                               *)
(***************************************************************************)
EXTENDS Integers, FiniteSets

CONSTANTS Keys, Entries, None, Size

VARIABLES
  map,      \* the entry of each key, None for a key that has none
  reply     \* what the last operation returned

Present == {k \in Keys : map[k] # None}

Init ==
  /\ map = [k \in Keys |-> None]
  /\ reply = [op |-> "new", key |-> 0, ret |-> None]

Put(k, e) ==
  /\ Cardinality(Present) < Size
  /\ map'   = [map EXCEPT ![k] = e]
  /\ reply' = [op |-> "insert", key |-> k, ret |-> 1]

Refuse(k) ==
  /\ Cardinality(Present) >= Size
  /\ map'   = map
  /\ reply' = [op |-> "insert", key |-> k, ret |-> 0]

Get(k) ==
  /\ map'   = map
  /\ reply' = [op |-> "lookup", key |-> k, ret |-> map[k]]

Next == \E k \in Keys : \/ \E e \in Entries : Put(k, e)
                        \/ Refuse(k)
                        \/ Get(k)

Spec == Init /\ [][Next]_<<map, reply>>
=============================================================================
