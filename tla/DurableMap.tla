---------------------------- MODULE DurableMap ----------------------------
(***************************************************************************)
(* What a store with a log promises: a map that outlives the process.  A   *)
(* call changes its own key, once, between its beginning and its end;      *)
(* a stop in between leaves it done or undone; starting changes nothing.   *)
(***************************************************************************)
CONSTANTS Keys, Values, None

VARIABLES
  map,    \* map[k]: the value of k, None if it has none
  call,   \* the write at work: its key, its value and whether it is done
  up      \* is the store in use?

vars == <<map, call, up>>

NoCall == [key |-> None, val |-> None, done |-> FALSE]

Init == map = [k \in Keys |-> None] /\ call = NoCall /\ up = FALSE

Begin(k, v) ==
  /\ up /\ call = NoCall
  /\ call' = [key |-> k, val |-> v, done |-> FALSE]
  /\ UNCHANGED <<map, up>>

Apply ==
  /\ up /\ call # NoCall /\ ~ call.done
  /\ map'  = [map EXCEPT ![call.key] = call.val]
  /\ call' = [call EXCEPT !.done = TRUE]
  /\ UNCHANGED up

Return ==
  /\ call.done
  /\ call' = NoCall
  /\ UNCHANGED <<map, up>>

Start == ~ up /\ up' = TRUE /\ UNCHANGED <<map, call>>
Stop  == up /\ up' = FALSE /\ call' = NoCall /\ UNCHANGED map

Next ==
  \/ \E k \in Keys, v \in Values \cup {None} : Begin(k, v)
  \/ Apply \/ Return \/ Start \/ Stop

Spec == Init /\ [][Next]_vars
=============================================================================
