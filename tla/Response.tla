----------------------------- MODULE Response -----------------------------
(***************************************************************************)
(* The bytes of an answer (server/src/response.c), and what a reader of    *)
(* the protocol redis-cli speaks, which the README tells users to take,    *)
(* makes of them.  A line is one element, and so is each byte of a value.  *)
(***************************************************************************)
EXTENDS Integers, Sequences, SequencesExt

CONSTANT None  \* no value

NUL == 0
Crlf == <<"crlf", 0>>
Line(mark, n) == <<mark, n>>
Bytes(v) == [i \in DOMAIN v |-> <<"byte", v[i]>>]

-----------------------------------------------------------------------------
(* response_detch *)

ToNul(v) ==
  LET ends == {i \in DOMAIN v : v[i] = NUL}
  IN IF ends = {} THEN v
     ELSE SubSeq(v, 1, (CHOOSE i \in ends : \A j \in ends : i <= j) - 1)

Bulk(v) == IF v = None THEN <<Line("$", -1)>>
           ELSE <<Line("$", Len(ToNul(v)))>> \o Bytes(ToNul(v)) \o <<Crlf>>

CountMany(argv) == IF Len(argv) > 2 THEN <<Line("*", Len(argv))>> ELSE <<>> \* mutant
CountLine(argv) == IF Len(argv) > 1 THEN <<Line("*", Len(argv))>> ELSE <<>>

Arguments(argv) == CountLine(argv) \o FlattenSeq([i \in DOMAIN argv |-> Bulk(argv[i])])

ResponseDetch(status, argv) ==
  CASE status = "OK"      -> <<Line("+OK", 0)>> \o Arguments(argv)
    [] status = "OK_200"  -> Arguments(argv)
    [] status = "OK_404"  -> Bulk(None)
    [] status = "OK_PONG" -> <<Line("+PONG", 0)>>
    [] status = "ERR"     -> <<Line("-ERROR", 0)>>

-----------------------------------------------------------------------------
(* The reader.  Behind the first n elements: a reply, and where it ends.   *)

Broken == [reply |-> <<"broken", None>>, next |-> 0]

BulkAt(s, n) ==
  LET size == s[n + 1][2] IN
  IF n >= Len(s) \/ s[n + 1][1] # "$" THEN Broken
  ELSE IF size = -1 THEN [reply |-> <<"bulk", None>>, next |-> n + 1]
  ELSE IF \/ n + size + 2 > Len(s) \/ s[n + size + 2] # Crlf
          \/ \E i \in n + 2 .. n + size + 1 : s[i][1] # "byte" THEN Broken
  ELSE [reply |-> <<"bulk", [i \in 1 .. size |-> s[n + 1 + i][2]]>>, next |-> n + size + 2]

(* The first n of a list's items. *)
ListAt(s, start, count) ==
  LET items[n \in 0 .. count] ==
        IF n = 0 THEN [reply |-> <<"list", <<>>>>, next |-> start + 1]
        ELSE LET item == BulkAt(s, items[n - 1].next)
             IN IF items[n - 1].next = 0 \/ item.next = 0 THEN Broken
                ELSE [reply |-> <<"list", Append(items[n - 1].reply[2], item.reply[2])>>,
                      next  |-> item.next]
  IN items[count]

ReplyAt(s, n) ==
  IF n >= Len(s) THEN Broken
  ELSE IF s[n + 1][1] = "$" THEN BulkAt(s, n)
  ELSE IF s[n + 1][1] = "*" THEN ListAt(s, n, s[n + 1][2])
  ELSE [reply |-> <<"line", s[n + 1][1]>>, next |-> n + 1]
=============================================================================
