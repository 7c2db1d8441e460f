----------------------------- MODULE MCSilopit -----------------------------
(* Model-checking instances of Silopit. *)
EXTENDS Silopit

TwoKeys   == 1 .. 2
ThreeKeys == 1 .. 3
FourKeys  == 1 .. 4

NotEmpty(opts) == {t \in [Keys -> opts] : \E k \in Keys : t[k] # "NONE"}
AnyList    == NotEmpty({"ADD", "DEL", "NONE"})
Additions  == NotEmpty({"ADD", "NONE"})
OneDelete  == {t \in AnyList : Cardinality({k \in Keys : t[k] = "DEL"}) <= 1}
=============================================================================
