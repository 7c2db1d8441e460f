------------------------------- MODULE MCDb -------------------------------
(* Model-checking instances of Db. *)
EXTENDS Db

CONSTANTS a, ab

TwoKeys   == {a, ab}
Prefixes  == [k \in TwoKeys |-> IF k = a THEN {ab} ELSE {}]
TwoSizes  == [v \in 1 .. MaxWrites |-> IF v % 2 = 1 THEN 150 ELSE 200]
=============================================================================
