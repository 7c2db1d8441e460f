----------------------------- MODULE BlockFile -----------------------------
(***************************************************************************)
(* The bytes of one sorted file (storage/src/silopit.c): records written   *)
(* one after the other, each as long as its key, and read at the stride of *)
(* the longest.  A list is a set of entries with distinct keys, which is   *)
(* what module Jikukan promises of a skip list.                            *)
(***************************************************************************)
EXTENDS Bytes, FiniteSets

Entry(key, off, opt) == [key |-> key, off |-> off, opt |-> opt]

(* jikukan_insert *)
Insert(list, e) == {x \in list : x.key # e.key} \cup {e}

Sorted(list) ==
  [i \in 1 .. Cardinality(list) |->
     CHOOSE e \in list : Cardinality({x \in list : Before(x.key, e.key)}) = i - 1]
Adds(list)   == {e \in list : e.opt = "ADD"}
Longest(S)   == IF S = {} THEN 0 ELSE CHOOSE n \in S : \A m \in S : n >= m

(* _prepare_stats *)
MaxLen(list)   == Longest({Len(e.key) : e \in Adds(list)}) + 1
Stride(len)    == len + LongSize
MmapSize(list) == Stride(MaxLen(list)) * Cardinality(Adds(list))

(* _write_mmap: as many bytes as MmapSize, the last ones not written if    *)
(* the records are not all as long as the longest.                         *)
Records(list) ==
  LET sorted == Sorted(Adds(list))
      written[n \in 0 .. Len(sorted)] ==
        IF n = 0 THEN <<>>
        ELSE written[n - 1] \o sorted[n].key \o <<NUL>> \o PutLong(sorted[n].off)
  IN written[Len(sorted)]

FirstBytes(s, n) == [i \in 1 .. n |-> IF i <= Len(s) THEN s[i] ELSE NUL]

WriteMmap(list) ==
  [blks  |-> FirstBytes(Records(list), MmapSize(list)),
   count |-> Cardinality(Adds(list)),
   len   |-> MaxLen(list),
   key   |-> Last(Sorted(list)).key]

(* struct inner_block.  A string that does not end goes on into the        *)
(* footer, which begins with its key.                                      *)
KeyAt(file, i) == StringAt(file.blks \o file.key, i * Stride(file.len))
OffAt(file, i) ==
  LongFrom(SubSeq(file.blks, i * Stride(file.len) + file.len + 1, (i + 1) * Stride(file.len)))

(* _read_mmap *)
ReadMmap(file) ==
  LET read[n \in 0 .. file.count] ==
        IF n = 0 THEN {}
        ELSE Insert(read[n - 1], Entry(KeyAt(file, n - 1), OffAt(file, n - 1), "ADD"))
  IN read[file.count]

(* _read_offset *)
ReadOffset(file, key) ==
  LET find[r \in [left : 0 .. file.count, right : 0 .. file.count]] ==
        IF r.left >= r.right THEN 0
        ELSE LET i == (r.right - r.left) \div 2 + r.left
             IN IF key = KeyAt(file, i) THEN OffAt(file, i)
                ELSE IF Before(key, KeyAt(file, i)) THEN find[[r EXCEPT !.right = i]]
                ELSE find[[r EXCEPT !.left = i + 1]]
  IN find[[left |-> 0, right |-> file.count]]

(* Records of different lengths, and offsets LongFrom does not give back:  *)
(* what a file does not keep.                                              *)
IsUneven(list) == \E x, y \in Adds(list) : Len(x.key) # Len(y.key)
IsWide(off)    == (off \div Power[IntSize - 1]) % Base >= Base \div 2
=============================================================================
