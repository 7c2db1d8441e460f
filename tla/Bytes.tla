------------------------------- MODULE Bytes -------------------------------
(***************************************************************************)
(* Integers and strings as the bytes they are written as: the conversions  *)
(* of storage/src/buffer.c, and strcmp's order.  A byte has Base values    *)
(* and an int Word bytes, 256 and 4 in the code; a long has twice as many. *)
(***************************************************************************)
EXTENDS Integers, Sequences, SequencesExt

CONSTANTS Base, Word

ASSUME BytesAssumption == /\ Base \in Nat \ {0, 1} /\ Base % 2 = 0
                          /\ Word \in Nat \ {0}

Byte    == 0 .. Base - 1
NUL     == 0
IntSize  == Word
LongSize == 2 * Word
Strings == Seq(Byte \ {NUL})

(* The first n bytes of s, and s without them. *)
Take(s, n) == SubSeq(s, 1, n)
Drop(s, n) == SubSeq(s, n + 1, Len(s))

-----------------------------------------------------------------------------
(* buffer_putint, buffer_putlong: the high byte first *)

Power[n \in Nat] == IF n = 0 THEN 1 ELSE Base * Power[n - 1]

BigEndian(n, width) == [i \in 1 .. width |-> (n \div Power[width - i]) % Base]
PutInt(n)  == BigEndian(n, IntSize)
PutLong(n) == BigEndian(n, LongSize)

Number(s) ==
  LET number[n \in 0 .. Len(s)] == IF n = 0 THEN 0 ELSE number[n - 1] * Base + s[n]
  IN number[Len(s)]

(* u32_from_big *)
IntFrom(s) == Number(Take(s, IntSize))

(* u64_from_big.  The byte that is shifted to the top of an int becomes    *)
(* its sign, which the conversion to 64 bits spreads over the high half.   *)
AllOnes(width) == Power[width] - 1
LongFrom(s) ==
  LET low == Number(SubSeq(s, IntSize + 1, LongSize))
  IN IF s[IntSize + 1] < Base \div 2 THEN Number(Take(s, LongSize))
     ELSE AllOnes(IntSize) * Power[IntSize] + low

(* lseek takes it for a signed number. *)
IsNegative(n) == n >= Power[LongSize] \div 2

-----------------------------------------------------------------------------
(* strcmp *)
Before(s, t) ==
  \/ IsStrictPrefix(s, t)
  \/ \E i \in DOMAIN s \cap DOMAIN t : s[i] < t[i] /\ Take(s, i - 1) = Take(t, i - 1)

(* The string that begins behind the first n bytes. *)
StringAt(s, n) ==
  LET ends == {i \in n + 1 .. Len(s) : s[i] = NUL}
  IN IF ends = {} THEN Drop(s, n)
     ELSE SubSeq(s, n + 1, (CHOOSE i \in ends : \A j \in ends : i <= j) - 1)
=============================================================================
