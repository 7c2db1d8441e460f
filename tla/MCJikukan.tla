----------------------------- MODULE MCJikukan -----------------------------
(* A model-checking instance of Jikukan. *)
EXTENDS Jikukan

CONSTANTS none, added, deleted

FourKeys == 1 .. 4
Nodes    == {added, deleted}
=============================================================================
