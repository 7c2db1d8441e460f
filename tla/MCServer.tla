---------------------------- MODULE MCServer ----------------------------
(* Model-checking instances of Server. *)
EXTENDS Server

CONSTANTS c1, c2, c3, c4, k, l, m

FourClients == {c1, c2, c3, c4}
ThreeKeys   == {k, l, m}
Word        == <<2, 1>>
Number      == <<1, 0>>  \* with a zero byte
TwoValues   == {Word, Number}
OneOfEach   == {k :> Word @@ l :> Number @@ m :> None}

Message(cmd, args) == [cmd |-> cmd, args |-> args]

MixedMessages ==
  {Message("bad", <<>>), Message("part", <<>>), Message("mset", <<k>>),
   Message("set", <<k, Number>>), Message("get", <<k>>), Message("get", <<l>>),
   Message("mget", <<k, m>>)}
=============================================================================
