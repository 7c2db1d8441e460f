------------------------------ MODULE MCDisk ------------------------------
(* Model-checking instances of Disk, and what BlockFile's bytes give back. *)
EXTENDS Disk

(* Two keys of one length, and one that is longer. *)
ThreeKeys == {<<1>>, <<2>>, <<2, 1>>}
TwoValues == {<<1>>, <<3, 3>>}

(* Two bits, by the first byte and the sum of all. *)
TwoHashes(key) == IF key = <<>> THEN {0} ELSE {key[1] % 4, Number(key) % 3}

-----------------------------------------------------------------------------
(* u64_from_big gives back what buffer_putlong wrote of an offset lseek    *)
(* takes, unless it is wide.                                               *)
ASSUME LongsComeBack ==
  \A n \in {m \in 0 .. Power[LongSize] - 1 : ~ IsNegative(m)} :
    (LongFrom(PutLong(n)) = n) <=> ~ IsWide(n)

(* A file gives back the entries that were added, whole and by lookup, if  *)
(* their keys have one length; of keys with different lengths it may not.  *)
SomeKeys == {<<1>>, <<2>>, <<3>>, <<1, 2>>, <<2, 1>>}
Lists    == {{Entry(key, key[1], IF key \in dels THEN "DEL" ELSE "ADD") : key \in keys} :
               keys \in SUBSET SomeKeys, dels \in SUBSET {<<2>>, <<1, 2>>}}
Comes(entries, back) ==
  /\ ReadMmap(WriteMmap(entries)) = Adds(entries)
  /\ \A key \in SomeKeys : ReadOffset(WriteMmap(entries), key) = back[key]

OffsetsOf(entries) ==
  [key \in SomeKeys |-> IF \E e \in Adds(entries) : e.key = key THEN key[1] ELSE 0]

ASSUME EvenFilesComeBack ==
  \A entries \in Lists :
    Adds(entries) # {} /\ ~ IsUneven(entries) => Comes(entries, OffsetsOf(entries))

ASSUME UnevenFilesMayNot ==
  \E entries \in Lists : IsUneven(entries) /\ ~ Comes(entries, OffsetsOf(entries))
=============================================================================
