------------------------------ MODULE MCIndex ------------------------------
(* Model-checking instances of Index. *)
EXTENDS Index, TLC

CONSTANTS k1, k2, k3

TwoKeys   == {k1, k2}
ThreeKeys == {k1, k2, k3}
=============================================================================
