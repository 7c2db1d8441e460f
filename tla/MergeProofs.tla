---------------------------- MODULE MergeProofs ----------------------------
(* That merges are complete: what Silopit's files answer between merges,   *)
(* after deaths and loads, and to lookups in the middle of a merge, on top *)
(* of the order of SilopitProofs.                                          *)
EXTENDS SilopitProofs

-----------------------------------------------------------------------------
(* The invariant *)

(* Nor has a file been lost in two halves. *)
Whole == Good /\ "homeless" \notin hazards

(* What the files have of key k. *)
InSome(fs, k, v) == \E n \in Oks(fs) : fs[n].recs[k] = v
InNone(fs, k)    == \A n \in Oks(fs) : fs[n].recs[k] = Nil

(* The list in the merge's hands. *)
Hand(s) == IF s.pc = "walk" THEN s.merge
           ELSE IF s.pc \in Chunked \cup {"unlock"} THEN s.rest ELSE Empty

(* A list may be written: a lookup may answer what is in it. *)
MayBeWritten(t, al) ==
  \A k \in Nodes(t) : (IF t[k] = Deleted THEN Nil ELSE t[k]) \in al[k]

(* The nodes of the memtable that the walk has passed; a node that the     *)
(* files agree with.                                                       *)
Walking(s)  == \/ s.pc \in {"walk", "switch", "read"}
               \/ s.pc \in Chunked \cup {"unlock"} /\ s.then # "done"
Passed(s)   == {k \in Nodes(s.list) : Walking(s) /\ s.cur # Nil => k < s.cur}
Settled(fs, s, k) ==
  /\ \A n \in Oks(fs) : fs[n].recs[k] \in {Nil, s.list[k]}
  /\ s.list[k] # Deleted => InSome(fs, k, s.list[k])

(* The files answer what may be answered; a record that is in none is in   *)
(* the list that is merged with a file.                                    *)
FilesAnswer(fs, s, al) ==
  /\ \A n \in Oks(fs) : \A k \in Nodes(fs[n].recs) : fs[n].recs[k] \in al[k]
  /\ \A n \in Names \ Oks(fs) : fs[n].recs = Empty
  /\ \A k \in Keys : InNone(fs, k) =>
       \/ Nil \in al[k] \/ k \in Adds(s.merge)
       \/ s.pc = "down" /\ \E n \in Names : fs[n].state = "torn"

(* That list has the records of the file that is to be written over, but   *)
(* for the memtable's; until the first chunk it is all in hand; then it is *)
(* in hand or in the files.                                                *)
HasRecords(fs, s, x) ==
  \/ s.pc = "walk" /\ s.merge # Empty
  \/ s.pc \in {"announce", "lock", "open"} /\ ~ s.fresh
  => \A k \in Nodes(fs[x].recs) :
       s.merge[k] = fs[x].recs[k] \/ (s.list[k] # Nil /\ s.merge[k] = s.list[k])
IsUncut(s) == s.pc \in Chunked /\ ~ s.fresh => s.rest = s.merge
IsKept(fs, s) ==
  s.pc \in Chunked \cup {"unlock", "end"} =>
    \A k \in Adds(s.merge) : Hand(s)[k] = s.merge[k] \/ InSome(fs, k, s.merge[k])

(* A node that was passed is in hand, or is settled; a chunk is in the     *)
(* file as it was cut; the chunks that are left take all that is left.     *)
IsMerged(fs, s) ==
  \A k \in Passed(s) :
    Hand(s)[k] = s.list[k] \/ (Hand(s)[k] = Nil /\ Settled(fs, s, k))
IsCopied(fs, s, x) ==
  s.pc \in {"grow", "place", "register"} =>
    fs[x].recs = Only(ChunkOf(s), Adds(ChunkOf(s)))
Takes(count, chunks) ==
  /\ \A i \in 1 .. Len(chunks) - 1 : chunks[i] = MaxCount
  /\ IF chunks = << >> THEN count = 0
     ELSE count <= chunks[Len(chunks)] + MaxCount * (Len(chunks) - 1)

HandIsRight(fs, s, x, al) ==
  /\ MayBeWritten(s.list, al) /\ MayBeWritten(s.merge, al) /\ MayBeWritten(s.rest, al)
  /\ HasRecords(fs, s, x) /\ IsUncut(s) /\ IsKept(fs, s)
  /\ IsMerged(fs, s) /\ IsCopied(fs, s, x)
  /\ s.pc \in Chunked \cup {"unlock"} => Takes(Cardinality(Nodes(s.rest)), s.chunks)

Complete(fs, s, x, al) ==
  /\ FilesAnswer(fs, s, al)
  /\ s.pc \in {"idle", "down", "switch", "read"} => s.merge = Empty
  /\ s.pc \notin {"idle", "down"} => HandIsRight(fs, s, x, al)

CInv == Whole => Complete(files, m, name, allowed)

-----------------------------------------------------------------------------
(* Chunks *)

LEMMA ChunksTake ==
  ASSUME NEW count \in Nat \ {0}
  PROVE  Takes(count, Chunks(count))
  <1>1. MaxCount \in Nat \ {0}
    BY SilopitAssumption
  <1>2. CASE count <= 2 * MaxCount
    <2>1. Chunks(count) = <<count>>
      BY <1>1, <1>2 DEF Chunks
    <2>2. PICK c : c = <<count>>
      OBVIOUS
    <2>3. Len(c) = 1 /\ c[1] = count /\ c # << >>
      BY <2>2
    <2> QED
      BY <1>1, <2>1, <2>2, <2>3 DEF Takes
  <1>3. CASE count > 2 * MaxCount
    <2> DEFINE mul == count \div MaxCount
               rem == count % MaxCount
    <2>1. mul \in Nat /\ mul >= 1 /\ rem \in 0 .. MaxCount - 1
      BY <1>1, <1>3, SMTT(30)
    <2>2. count = MaxCount * mul + rem
      BY <1>1, SMTT(30)
    <2> HIDE DEF mul, rem
    <2>3. Chunks(count) = [j \in 1 .. mul |-> IF j = mul THEN MaxCount + rem ELSE MaxCount]
      BY <1>1, <1>3 DEF Chunks, mul, rem
    <2>4. PICK c : c = Chunks(count)
      OBVIOUS
    <2>5. /\ Len(c) = mul /\ c # << >> /\ c[mul] = MaxCount + rem
          /\ \A i \in 1 .. mul - 1 : c[i] = MaxCount
      <3>1. Chunks(count) # << >>
        BY ChunksAreSmall
      <3>2. mul \in 1 .. mul /\ \A i \in 1 .. mul - 1 : i \in 1 .. mul /\ i # mul
        BY <2>1
      <3> QED
        BY <2>1, <2>3, <2>4, <3>1, <3>2
    <2>6. MaxCount * mul = MaxCount + MaxCount * (mul - 1)
      BY <1>1, <2>1
    <2>7. PICK a, b : a = MaxCount * mul /\ b = MaxCount * (mul - 1)
      OBVIOUS
    <2>8. a \in Nat /\ b \in Nat /\ a = MaxCount + b /\ count = a + rem
      BY <1>1, <2>1, <2>2, <2>6, <2>7
    <2>9. count <= c[mul] + b
      BY <1>1, <2>1, <2>5, <2>8
    <2> QED
      BY <2>4, <2>5, <2>7, <2>9 DEF Takes
  <1> QED
    BY <1>1, <1>2, <1>3

(* The first n nodes are all, or n at least.                               *)
LEMMA FirstAreAll ==
  ASSUME NEW t, NEW n \in Nat, NEW c, c = Cardinality(Nodes(t)),
         NEW d, d = Cardinality(Nodes(t) \ First(t, n))
  PROVE  /\ c \in Nat /\ d \in Nat
         /\ c <= n => First(t, n) = Nodes(t)
         /\ First(t, n) # Nodes(t) => d <= c - n
  <1>1. PICK T : T = First(t, n)
    OBVIOUS
  <1>2. /\ Nodes(t) \in SUBSET Keys /\ T \in SUBSET Nodes(t) /\ T \in SUBSET Keys
        /\ Nodes(t) \ T \in SUBSET Keys
    BY <1>1, NodesAreKeys, FirstFew
  <1>3. /\ IsFiniteSet(Nodes(t)) /\ IsFiniteSet(T) /\ IsFiniteSet(Nodes(t) \ T)
        /\ c \in Nat /\ d \in Nat /\ Cardinality(T) \in Nat
    BY <1>1, <1>2, KeysAreFinite
  <1>4. c = Cardinality(T) + d
    <2>1. PICK S : S = Nodes(t)
      OBVIOUS
    <2>2. IsFiniteSet(S) /\ S \cap T = T /\ Cardinality(S) = c
      BY <1>2, <1>3, <2>1
    <2>3. Cardinality(S \ T) = Cardinality(S) - Cardinality(S \cap T)
      BY <2>2, FS_Difference
    <2>4. S \ T = Nodes(t) \ First(t, n)
      BY <1>1, <2>1
    <2>5. Cardinality(S \ T) = d
      BY <2>4
    <2>6. PICK ct : ct = Cardinality(T)
      OBVIOUS
    <2>7. ct \in Nat /\ Cardinality(S \cap T) = ct
      BY <1>3, <2>2, <2>6
    <2>8. d = c - ct
      BY <2>2, <2>3, <2>5, <2>7
    <2> QED
      BY <1>3, <2>6, <2>7, <2>8
  <1>5. ASSUME T # Nodes(t)
        PROVE  \E U \in SUBSET Keys : U \subseteq T /\ Cardinality(U) >= n /\ Cardinality(U) < c
    <2>1. PICK S : S = Nodes(t) \ T
      OBVIOUS
    <2>2. S \in SUBSET Keys /\ S # {}
      BY <1>2, <1>5, <2>1
    <2>3. PICK k \in S : \A j \in S : k <= j
      BY <2>2, LeastKey
    <2>4. k \in Keys /\ k \in Int /\ k \in Nodes(t) /\ k \notin T
      BY <2>1, <2>2, <2>3, KeysAreFinite
    <2>5. PICK U, V : U = {j \in Nodes(t) : j < k} /\ V = {j \in Nodes(t) : j <= k}
      OBVIOUS
    <2>6. U \in SUBSET Keys /\ U \subseteq T
      <3>1. ASSUME NEW j \in Nodes(t), j < k PROVE j \in T
        <4>1. j \in Int
          BY <1>2, KeysAreFinite
        <4>2. ~ k <= j
          BY <2>4, <3>1, <4>1
        <4> QED
          BY <2>1, <2>3, <4>2
      <3> QED
        BY <1>2, <2>5, <3>1
    <2>7. V = U \cup {k} /\ k \notin U
      <3>1. \A j \in Nodes(t) : j \in Int
        BY <1>2, KeysAreFinite
      <3>2. \A j \in Nodes(t) : j <= k <=> j < k \/ j = k
        BY <2>4, <3>1
      <3>3. ~ k < k
        BY <2>4
      <3> QED
        BY <2>4, <2>5, <3>2, <3>3
    <2>8. IsFiniteSet(U) /\ Cardinality(U) \in Nat
      BY <2>6, KeysAreFinite
    <2>9. Cardinality(V) = Cardinality(U) + 1
      BY <2>7, <2>8, FS_AddElement
    <2>10. ~ Cardinality(V) <= n
      BY <1>1, <2>4, <2>5 DEF First
    <2>11. Cardinality(V) <= c
      <3>1. V \in SUBSET Nodes(t)
        BY <2>5
      <3> QED
        BY <1>3, <3>1, FS_Subset
    <2> QED
      BY <1>3, <2>6, <2>8, <2>9, <2>10, <2>11
  <1>6. ASSUME T # Nodes(t) PROVE d <= c - n /\ ~ c <= n
    <2>1. PICK U \in SUBSET Keys : U \subseteq T /\ Cardinality(U) >= n /\ Cardinality(U) < c
      BY <1>5, <1>6
    <2>2. Cardinality(U) \in Nat /\ Cardinality(U) <= Cardinality(T)
      <3>1. U \in SUBSET T
        BY <2>1
      <3> QED
        BY <1>3, <2>1, <3>1, FS_Subset, KeysAreFinite
    <2> QED
      BY <1>3, <1>4, <2>1, <2>2
  <1> QED
    BY <1>1, <1>3, <1>6

(* A chunk takes its share.                                                *)
LEMMA ChunkTakes ==
  ASSUME m \in Merges, m.chunks # << >>, Takes(Cardinality(Nodes(m.rest)), m.chunks),
         NEW left, left = Nodes(m.rest) \ Nodes(Chunk)
  PROVE  Takes(Cardinality(left), Tail(m.chunks))
  <1>1. /\ m.rest \in Rows /\ m.chunks \in Seq(1 .. 2 * MaxCount) /\ MaxCount \in Nat
    BY SilopitAssumption DEF Merges
  <1>2. PICK chunks, n : chunks = m.chunks /\ n = Len(m.chunks)
    OBVIOUS
  <1>3. /\ n \in Nat /\ n >= 1 /\ chunks \in Seq(1 .. 2 * MaxCount) /\ chunks # << >>
        /\ \A i \in 1 .. n : chunks[i] \in Nat
        /\ n = Len(chunks)
    BY <1>1, <1>2
  <1>4. PICK h, tail : h = Head(chunks) /\ tail = Tail(chunks)
    OBVIOUS
  <1>5. /\ h = chunks[1] /\ h \in Nat
        /\ tail \in Seq(1 .. 2 * MaxCount) /\ Len(tail) = n - 1
        /\ \A i \in 1 .. n - 1 : tail[i] = chunks[i + 1]
    BY <1>3, <1>4, HeadTailProperties
  <1>6. Nodes(Chunk) = First(m.rest, h)
    <2>1. PICK F : F = First(m.rest, h)
      OBVIOUS
    <2>2. F \subseteq Nodes(m.rest)
      BY <1>5, <2>1, FirstFew
    <2>3. Chunk = Only(m.rest, F)
      BY <1>2, <1>4, <2>1 DEF Chunk
    <2>4. Nodes(Only(m.rest, F)) = Nodes(m.rest) \cap F
      BY <1>1, OnlyKeeps
    <2> QED
      BY <2>1, <2>2, <2>3, <2>4
  <1>7. PICK c, d : c = Cardinality(Nodes(m.rest)) /\ d = Cardinality(left)
    OBVIOUS
  <1>8. /\ c \in Nat /\ d \in Nat
        /\ c <= h => First(m.rest, h) = Nodes(m.rest)
        /\ First(m.rest, h) # Nodes(m.rest) => d <= c - h
    BY <1>5, <1>6, <1>7, FirstAreAll
  <1>9. First(m.rest, h) = Nodes(m.rest) => d = 0
    <2>1. First(m.rest, h) = Nodes(m.rest) => left = {}
      BY <1>6
    <2> QED
      BY <1>7, <2>1, FS_EmptySet
  <1>10. /\ \A i \in 1 .. n - 1 : chunks[i] = MaxCount
         /\ c <= chunks[n] + MaxCount * (n - 1)
    BY <1>2, <1>3, <1>7 DEF Takes
  <1>11. CASE n = 1
    <2>1. tail = << >>
      BY <1>3, <1>5, <1>11
    <2>2. d = 0
      <3>1. MaxCount * (n - 1) = 0
        BY <1>1, <1>11
      <3>2. c <= h
        BY <1>3, <1>5, <1>8, <1>10, <1>11, <3>1
      <3> QED
        BY <1>8, <1>9, <3>2
    <2> QED
      BY <1>2, <1>4, <1>5, <1>7, <1>11, <2>1, <2>2 DEF Takes
  <1>12. CASE n # 1
    <2>1. n - 1 \in 1 .. n - 1 /\ n >= 2 /\ n \in 1 .. n /\ 1 \in 1 .. n - 1
      BY <1>3, <1>12
    <2>2. tail # << >> /\ tail[n - 1] = chunks[n] /\ h = MaxCount
      BY <1>3, <1>5, <1>10, <2>1
    <2>3. \A i \in 1 .. n - 2 : tail[i] = MaxCount
      <3> TAKE i \in 1 .. n - 2
      <3>1. i \in 1 .. n - 1 /\ i + 1 \in 1 .. n - 1
        BY <1>3
      <3> QED
        BY <1>5, <1>10, <3>1
    <2>4. PICK a, b : a = MaxCount * (n - 1) /\ b = MaxCount * (n - 2)
      OBVIOUS
    <2>5. a \in Nat /\ b \in Nat /\ a = MaxCount + b
      <3>1. PICK mc, i : mc = MaxCount /\ i = n - 2
        OBVIOUS
      <3>2. mc \in Nat /\ i \in Nat /\ n - 1 = i + 1
        BY <1>1, <1>3, <2>1, <3>1
      <3>3. mc * i \in Nat /\ mc * (i + 1) = mc + mc * i
        BY <3>2
      <3> QED
        BY <2>4, <3>1, <3>2, <3>3
    <2>6. d <= tail[n - 1] + b
      <3>1. chunks[n] \in Nat
        BY <1>3, <2>1
      <3>2. d = 0 \/ d <= c - MaxCount
        BY <1>8, <1>9, <2>2
      <3> QED
        BY <1>1, <1>8, <1>10, <2>2, <2>4, <2>5, <3>1, <3>2
    <2>7. Len(tail) - 1 = n - 2 /\ Len(tail) = n - 1
      BY <1>3, <1>5
    <2>8. Takes(d, tail)
      BY <2>2, <2>3, <2>4, <2>6, <2>7 DEF Takes
    <2> QED
      BY <1>2, <1>4, <1>7, <2>8
  <1> QED
    BY <1>11, <1>12

-----------------------------------------------------------------------------
(* What the lists hold *)

LEMMA InARow ==
  ASSUME NEW t \in Rows, NEW k \in Keys
  PROVE  /\ t[k] = Deleted \/ t[k] \in Nat
         /\ k \in Nodes(t) <=> t[k] # Nil
         /\ k \in Adds(t) <=> t[k] # Nil /\ t[k] # Deleted
         /\ Empty[k] = Nil
  BY DEF Rows, Nodes, Adds, Empty

LEMMA EmptyHasNothing ==
  Nodes(Empty) = {} /\ Adds(Empty) = {}
  BY DEF Nodes, Adds, Empty

LEMMA RecordsAre ==
  ASSUME IInv, NEW n \in Names
  PROVE  /\ files[n].recs \in [Keys -> Nat] /\ files[n].recs \in Rows
         /\ \A k \in Keys : files[n].recs[k] # Deleted
         /\ \A k \in Keys : k \in Nodes(files[n].recs) <=> files[n].recs[k] # Nil
  <1>1. files[n].recs \in [Keys -> Nat]
    BY MergeIs DEF Blocks
  <1>2. Deleted \notin Nat
    BY DEF Deleted
  <1> QED
    BY <1>1, <1>2 DEF Rows, Nodes

LEMMA OksAreNames ==
  ASSUME NEW fs
  PROVE  Oks(fs) \subseteq Names
  BY DEF Oks

(* A step from one line to another with the same in hand. *)
LEMMA SameInHand ==
  ASSUME NEW fs, NEW s, NEW x, NEW al, Complete(fs, s, x, al), s.pc \notin {"idle", "down"},
         NEW t, NEW y, t.pc \notin {"idle", "down"},
         t.list = s.list, t.cur = s.cur, t.merge = s.merge, t.rest = s.rest,
         t.chunks = s.chunks, Hand(t) = Hand(s), Walking(t) <=> Walking(s),
         HasRecords(fs, t, y), IsUncut(t), IsCopied(fs, t, y),
         t.pc \in {"switch", "read"} => t.merge = Empty,
         t.pc \in Chunked \cup {"unlock"} => s.pc \in Chunked \cup {"unlock"},
         t.pc = "end" => s.pc \in Chunked \cup {"unlock"}
  PROVE  Complete(fs, t, y, al)
  <1>1. FilesAnswer(fs, s, al) /\ HandIsRight(fs, s, x, al)
    BY DEF Complete
  <1>2. FilesAnswer(fs, t, al)
    BY <1>1 DEF FilesAnswer
  <1>3. MayBeWritten(t.list, al) /\ MayBeWritten(t.merge, al) /\ MayBeWritten(t.rest, al)
    BY <1>1 DEF HandIsRight
  <1>4. IsKept(fs, t)
    BY <1>1 DEF HandIsRight, IsKept
  <1>5. IsMerged(fs, t)
    <2>1. Passed(t) = Passed(s)
      BY DEF Passed
    <2>2. \A k \in Passed(s) : Settled(fs, s, k) => Settled(fs, t, k)
      BY DEF Settled
    <2>3. IsMerged(fs, s)
      BY <1>1 DEF HandIsRight
    <2> QED
      BY <2>1, <2>2, <2>3 DEF IsMerged
  <1>6. t.pc \in Chunked \cup {"unlock"} => Takes(Cardinality(Nodes(t.rest)), t.chunks)
    BY <1>1 DEF HandIsRight
  <1> QED
    BY <1>2, <1>3, <1>4, <1>5, <1>6 DEF Complete, HandIsRight

(* Files and hand are the same: a lookup's step. *)
LEMMA SameComplete ==
  ASSUME Complete(files, m, name, allowed), files' = files, m' = m, allowed' = allowed,
         name' = name \/ m.pc = "idle"
  PROVE  Complete(files', m', name', allowed')
  BY DEF Complete

(* The list before its first chunk: all of it is in hand. *)
LEMMA AllInHand ==
  ASSUME NEW t \in Rows, Nodes(t) # {}
  PROVE  Takes(Cardinality(Nodes(t)), Chunks(Cardinality(Nodes(t))))
  <1>1. Nodes(t) \in SUBSET Keys
    BY NodesAreKeys
  <1>2. Cardinality(Nodes(t)) \in Nat /\ Cardinality(Nodes(t)) >= 1
    BY <1>1, KeysAreFinite
  <1>3. PICK c : c = Cardinality(Nodes(t))
    OBVIOUS
  <1>4. c \in Nat \ {0}
    BY <1>2, <1>3
  <1> QED
    BY <1>3, <1>4, ChunksTake

(* A list that goes to new files, with no other merged into it. *)
LEMMA NewListComplete ==
  ASSUME NEW fs, NEW s \in Merges, NEW al, FilesAnswer(fs, s, al), s.merge = Empty,
         s.pc # "down", MayBeWritten(s.list, al), Nodes(s.list) # {},
         NEW f, f = FlushNewList(s, s.list), NEW y
  PROVE  Complete(fs, f, y, al)
  <1>1. PICK lsn, fresh, then : lsn = NoLsn /\ fresh = TRUE /\ then = "done"
    OBVIOUS
  <1>2. f = Flush(s, s.list, lsn, fresh, then)
    BY <1>1, Zenon DEF FlushNewList
  <1>3. /\ f.pc = (IF fresh THEN "name" ELSE IF lsn # NoLsn THEN "announce" ELSE "open")
        /\ f.rest = s.list /\ f.chunks = Chunks(Cardinality(Nodes(s.list)))
        /\ f.fresh = fresh /\ f.then = then
        /\ f.list = s.list /\ f.cur = s.cur /\ f.merge = s.merge
    BY <1>2, FlushShape
  <1>4. f.pc = "name" /\ f.fresh = TRUE /\ f.then = "done" /\ f.pc \in Chunked
    BY <1>1, <1>3 DEF Chunked
  <1>5. FilesAnswer(fs, f, al)
    BY <1>3, <1>4 DEF FilesAnswer
  <1>6. Hand(f) = s.list
    BY <1>3, <1>4 DEF Hand
  <1>7. MayBeWritten(f.merge, al)
    BY <1>3, EmptyHasNothing DEF MayBeWritten
  <1>8. HasRecords(fs, f, y) /\ IsUncut(f) /\ IsCopied(fs, f, y)
    BY <1>4 DEF HasRecords, IsUncut, IsCopied
  <1>9. IsKept(fs, f)
    BY <1>3, EmptyHasNothing DEF IsKept
  <1>10. IsMerged(fs, f)
    BY <1>3, <1>6 DEF IsMerged
  <1>11. s.list \in Rows
    BY DEF Merges
  <1>12. Takes(Cardinality(Nodes(f.rest)), f.chunks)
    BY <1>3, <1>11, AllInHand
  <1> QED
    BY <1>3, <1>4, <1>5, <1>7, <1>8, <1>9, <1>10, <1>12 DEF Complete, HandIsRight

(* A list that is merged with a file goes to it. *)
LEMMA FlushComplete ==
  ASSUME NEW fs, NEW s \in Merges, NEW x, NEW al, Complete(fs, s, x, al), s.pc = "walk",
         s.merge # Empty, NEW lsn, NEW then, then = "done" => s.cur = Nil,
         NEW fresh, fresh = FALSE, NEW f, f = Flush(s, s.merge, lsn, fresh, then)
  PROVE  Complete(fs, f, x, al)
  <1>1. PICK nodes : nodes = s.merge
    OBVIOUS
  <1>2. f = Flush(s, nodes, lsn, fresh, then)
    BY <1>1
  <1>3. /\ f.pc = (IF fresh THEN "name" ELSE IF lsn # NoLsn THEN "announce" ELSE "open")
        /\ f.rest = s.merge /\ f.chunks = Chunks(Cardinality(Nodes(s.merge)))
        /\ f.fresh = fresh /\ f.then = then
        /\ f.list = s.list /\ f.cur = s.cur /\ f.merge = s.merge
    <2>1. /\ f.pc = (IF fresh THEN "name" ELSE IF lsn # NoLsn THEN "announce" ELSE "open")
          /\ f.rest = nodes /\ f.chunks = Chunks(Cardinality(Nodes(nodes)))
          /\ f.fresh = fresh /\ f.then = then
          /\ f.list = s.list /\ f.cur = s.cur /\ f.merge = s.merge
      BY <1>2, FlushShape
    <2> QED
      BY <1>1, <2>1
  <1>4. f.pc \in {"announce", "open"} /\ f.fresh = FALSE /\ f.pc \in Chunked
    BY <1>1, <1>3 DEF Chunked
  <1>5. FilesAnswer(fs, s, al) /\ HandIsRight(fs, s, x, al)
    BY DEF Complete
  <1>6. FilesAnswer(fs, f, al)
    BY <1>3, <1>4, <1>5 DEF FilesAnswer
  <1>7. Hand(f) = s.merge /\ Hand(s) = s.merge
    BY <1>3, <1>4 DEF Hand
  <1>8. MayBeWritten(f.list, al) /\ MayBeWritten(f.merge, al) /\ MayBeWritten(f.rest, al)
    BY <1>3, <1>5 DEF HandIsRight
  <1>9. HasRecords(fs, f, x)
    BY <1>3, <1>5 DEF HandIsRight, HasRecords
  <1>10. IsUncut(f) /\ IsCopied(fs, f, x)
    BY <1>3, <1>4 DEF IsUncut, IsCopied
  <1>11. IsKept(fs, f)
    BY <1>3, <1>7 DEF IsKept
  <1>12. IsMerged(fs, f)
    <2>1. Passed(f) \subseteq Passed(s)
      BY <1>3, <1>4 DEF Passed, Walking
    <2>2. \A k \in Keys : Settled(fs, s, k) => Settled(fs, f, k)
      BY <1>3 DEF Settled
    <2>3. Passed(s) \subseteq Keys
      BY NodesAreKeys DEF Passed
    <2> QED
      BY <1>3, <1>5, <1>7, <2>1, <2>2, <2>3 DEF HandIsRight, IsMerged
  <1>13. Takes(Cardinality(Nodes(f.rest)), f.chunks)
    <2>1. s.merge \in Rows
      BY DEF Merges
    <2>2. Nodes(s.merge) # {}
      BY <2>1, NotEmptyHasNodes
    <2> QED
      BY <1>3, <2>1, <2>2, AllInHand
  <1> QED
    BY <1>4, <1>6, <1>8, <1>9, <1>10, <1>11, <1>12, <1>13 DEF Complete, HandIsRight

-----------------------------------------------------------------------------
(* From the memtable to the list in hand *)

LEMMA StartMergeComplete ==
  ASSUME IInv, Complete(files, m, name, allowed), NEW t \in Memtables, StartMerge(t)
  PROVE  Complete(files', m', name', allowed')
  <1>1. PICK list : list = [k \in Keys |-> CASE t[k] = "ADD" -> merges + 1
                                             [] t[k] = "DEL" -> Deleted
                                             [] OTHER        -> Nil]
    OBVIOUS
  <1>2. PICK al : al = allowed'
    OBVIOUS
  <1>3. /\ m.pc = "idle"
        /\ m' = IF meta = << >> THEN FlushNewList([NoMerge EXCEPT !.list = list], list)
                ELSE [NoMerge EXCEPT !.list = list, !.pc = "walk", !.cur = After(list, Nil)]
        /\ files' = files
        /\ al = [k \in Keys |-> CASE t[k] = "ADD" -> allowed[k] \cup {merges + 1}
                                  [] t[k] = "DEL" -> allowed[k] \cup {Nil}
                                  [] OTHER        -> allowed[k]]
    BY <1>1, <1>2 DEF StartMerge
  <1>4. merges \in Nat /\ t \in [Keys -> {"ADD", "DEL", "NONE"}]
    BY SilopitAssumption DEF IInv, RestTyped
  <1>5. \A k \in Keys : /\ allowed[k] \subseteq al[k]
                        /\ \/ list[k] = Nil
                           \/ list[k] = Deleted /\ Nil \in al[k]
                           \/ list[k] \in Nat \ {0} /\ list[k] \in al[k]
    BY <1>1, <1>3, <1>4
  <1>6. list \in Rows /\ Nodes(list) # {}
    <2>1. PICK k \in Keys : t[k] # "NONE"
      BY SilopitAssumption
    <2>2. list[k] # Nil
      BY <1>1, <1>4, <2>1 DEF Nil, Deleted
    <2>3. list \in Rows
      BY <1>1, <1>4 DEF Rows, Nil
    <2> QED
      BY <2>1, <2>2, <2>3 DEF Nodes
  <1>7. MayBeWritten(list, al)
    <2>1. \A k \in Keys : list[k] \in Nat => list[k] # Deleted
      BY DEF Deleted
    <2> QED
      BY <1>5, <2>1, NodesAreKeys DEF MayBeWritten, Nodes
  <1>8. PICK s : s = [NoMerge EXCEPT !.list = list]
    OBVIOUS
  <1>9. s \in Merges /\ s.merge = Empty /\ s.rest = Empty /\ s.list = list /\ s.pc = "idle"
    BY <1>6, <1>8, NoMergeIsTyped DEF Merges, NoMerge
  <1>10. ASSUME NEW f, f.merge = Empty PROVE FilesAnswer(files, f, al)
    <2>1. FilesAnswer(files, m, allowed) /\ m.merge = Empty
      BY <1>3 DEF Complete
    <2>2. \A n \in Oks(files) : \A k \in Nodes(files[n].recs) : files[n].recs[k] \in al[k]
      BY <1>5, <2>1, NodesAreKeys DEF FilesAnswer
    <2>3. \A k \in Keys : InNone(files, k) => Nil \in al[k]
      BY <1>3, <1>5, <2>1, EmptyHasNothing DEF FilesAnswer
    <2> QED
      BY <2>1, <2>2, <2>3 DEF FilesAnswer
  <1>11. CASE meta = << >>
    <2>1. m' = FlushNewList(s, s.list)
      BY <1>3, <1>8, <1>9, <1>11
    <2>2. FilesAnswer(files, s, al)
      BY <1>9, <1>10
    <2>3. Complete(files, m', name', al)
      BY <1>6, <1>7, <1>9, <2>1, <2>2, NewListComplete
    <2> QED
      BY <1>2, <1>3, <2>3
  <1>12. CASE meta # << >>
    <2>1. m' = [s EXCEPT !.pc = "walk", !.cur = After(list, Nil)]
      BY <1>3, <1>8, <1>12 DEF NoMerge
    <2>2. PICK f : f = m'
      OBVIOUS
    <2>3. /\ f.pc = "walk" /\ f.cur = After(list, Nil) /\ f.list = list /\ f.merge = Empty
          /\ f.rest = Empty
      BY <1>9, <2>1, <2>2 DEF Merges
    <2>4. FilesAnswer(files, f, al)
      BY <1>10, <2>3
    <2>5. Passed(f) = {}
      <3>1. f.cur # Nil
        BY <1>6, <2>3, AListHasAFirst, NodesAreKeys, KeysAreFinite
      <3>2. ASSUME NEW k \in Nodes(list) PROVE ~ k < f.cur
        BY <2>3, <3>2, TheFirstIsLeast, NodesAreKeys, KeysAreFinite
      <3> QED
        BY <2>3, <3>1, <3>2 DEF Passed, Walking
    <2>6. MayBeWritten(Empty, al)
      BY EmptyHasNothing DEF MayBeWritten
    <2>7. /\ HasRecords(files, f, name') /\ IsUncut(f) /\ IsKept(files, f)
          /\ IsCopied(files, f, name') /\ f.pc \notin Chunked \cup {"unlock"}
      BY <2>3 DEF HasRecords, IsUncut, IsKept, IsCopied, Chunked
    <2>8. IsMerged(files, f)
      BY <2>5 DEF IsMerged
    <2>9. HandIsRight(files, f, name', al)
      BY <1>7, <2>3, <2>6, <2>7, <2>8 DEF HandIsRight
    <2>10. Complete(files, f, name', al)
      BY <2>3, <2>4, <2>9 DEF Complete
    <2> QED
      BY <1>2, <1>3, <2>2, <2>10
  <1> QED
    BY <1>11, <1>12

(* What the node after k has not yet been reached by. *)
LEMMA BeforeTheNext ==
  ASSUME NEW t, NEW k \in Keys, NEW j \in Nodes(t), After(t, k) # Nil => j < After(t, k)
  PROVE  j = k \/ j < k
  <1>1. PICK L : L = {i \in Nodes(t) : i > k}
    OBVIOUS
  <1>2. L \in SUBSET Keys /\ j \in Keys /\ k \in Int /\ j \in Int
    BY <1>1, NodesAreKeys, KeysAreFinite
  <1>3. CASE j > k
    <2>1. L # {}
      BY <1>1, <1>3
    <2>2. After(t, k) = Min(L)
      BY <1>1, <2>1 DEF After
    <2>3. Min(L) \in L /\ Min(L) <= j
      BY <1>1, <1>2, <1>3, <2>1, LeastKey
    <2>4. Min(L) # Nil /\ Min(L) \in Int
      BY <1>2, <2>3, KeysAreFinite
    <2> QED
      BY <1>2, <2>2, <2>3, <2>4
  <1> QED
    BY <1>2, <1>3

(* A list that has what it should of the file, of the nodes that were      *)
(* passed, and of the records that are in no file.                         *)
Keeps(t)  == \A k \in Nodes(files[name].recs) :
               t[k] = files[name].recs[k] \/ (m.list[k] # Nil /\ t[k] = m.list[k])
Brings(t) == \A k \in Passed(m) : t[k] = m.list[k] \/ (t[k] = Nil /\ Settled(files, m, k))
Covers(t) == \A k \in Keys : InNone(files, k) => Nil \in allowed[k] \/ k \in Adds(t)

(* The current node goes in. *)
LEMMA InsertComplete ==
  ASSUME IInv, Complete(files, m, name, allowed), m.pc \in {"walk", "read"},
         m.cur \in Nodes(m.list), name \in Names,
         NEW t \in Rows, MayBeWritten(t, allowed), Keeps(t), Brings(t), Covers(t),
         NEW s, s.pc = "walk", s.merge = Inserted(t), s.cur = After(m.list, m.cur),
         s.list = m.list, s.rest = m.rest
  PROVE  Complete(files, s, name, allowed)
  <1>1. /\ m.list \in Rows /\ m.cur \in Keys /\ m.cur \in Int /\ m.list[m.cur] # Nil
        /\ m.cur # Nil
    BY MergeIs, NodesAreKeys, KeysAreFinite DEF Nodes
  <1>2. FilesAnswer(files, m, allowed) /\ HandIsRight(files, m, name, allowed)
    BY DEF Complete
  <1>3. PICK u : u = Inserted(t)
    OBVIOUS
  <1>4. /\ u \in Rows /\ u[m.cur] = m.list[m.cur]
        /\ \A k \in Keys : k # m.cur => u[k] = t[k]
    <2>1. m.list[m.cur] \in Nat \cup {Deleted}
      BY <1>1 DEF Rows
    <2> QED
      BY <1>1, <1>3, <2>1 DEF Inserted, Rows
  <1>5. MayBeWritten(m.list, allowed) /\ MayBeWritten(m.rest, allowed)
    BY <1>2 DEF HandIsRight
  <1>6. MayBeWritten(u, allowed)
    <2>1. ASSUME NEW k \in Nodes(u)
          PROVE  (IF u[k] = Deleted THEN Nil ELSE u[k]) \in allowed[k]
      <3>1. k \in Keys /\ u[k] # Nil
        BY DEF Nodes
      <3>2. CASE k = m.cur
        BY <1>1, <1>4, <1>5, <3>2 DEF MayBeWritten
      <3>3. CASE k # m.cur
        <4>1. u[k] = t[k] /\ k \in Nodes(t)
          BY <1>4, <3>1, <3>3 DEF Nodes
        <4> QED
          BY <4>1 DEF MayBeWritten
      <3> QED
        BY <3>2, <3>3
    <2> QED
      BY <2>1 DEF MayBeWritten
  <1>7. FilesAnswer(files, s, allowed)
    <2>1. ASSUME NEW k \in Keys, InNone(files, k) PROVE Nil \in allowed[k] \/ k \in Adds(u)
      <3>1. CASE k = m.cur
        <4>1. m.list[k] = Deleted => Nil \in allowed[k]
          BY <1>1, <1>5, <3>1 DEF MayBeWritten
        <4> QED
          BY <1>1, <1>4, <3>1, <4>1, InARow
      <3>2. CASE k # m.cur
        BY <1>4, <2>1, <3>2, InARow DEF Covers
      <3> QED
        BY <3>1, <3>2
    <2> QED
      BY <1>2, <1>3, <2>1 DEF FilesAnswer
  <1>8. HasRecords(files, s, name)
    <2>1. ASSUME NEW k \in Nodes(files[name].recs)
          PROVE  u[k] = files[name].recs[k] \/ (m.list[k] # Nil /\ u[k] = m.list[k])
      BY <1>1, <1>4, NodesAreKeys DEF Keeps
    <2> QED
      BY <1>3, <2>1 DEF HasRecords
  <1>9. IsUncut(s) /\ IsKept(files, s) /\ IsCopied(files, s, name) /\ s.pc \notin Chunked \cup {"unlock"}
    BY DEF IsUncut, IsKept, IsCopied, Chunked
  <1>10. IsMerged(files, s)
    <2>1. ASSUME NEW k \in Passed(s)
          PROVE  u[k] = m.list[k] \/ (u[k] = Nil /\ Settled(files, s, k))
      <3>1. k \in Nodes(m.list) /\ k \in Keys /\ (s.cur # Nil => k < s.cur)
        BY NodesAreKeys DEF Passed, Walking
      <3>2. k = m.cur \/ k < m.cur
        BY <1>1, <3>1, BeforeTheNext
      <3>3. CASE k = m.cur
        BY <1>4, <3>3
      <3>4. CASE k # m.cur
        <4>1. k \in Passed(m)
          BY <3>1, <3>2, <3>4 DEF Passed
        <4>2. Settled(files, m, k) => Settled(files, s, k)
          BY DEF Settled
        <4> QED
          BY <1>4, <3>1, <3>4, <4>1, <4>2 DEF Brings
      <3> QED
        BY <3>3, <3>4
    <2>2. Hand(s) = u
      BY <1>3 DEF Hand
    <2> QED
      BY <2>1, <2>2 DEF IsMerged
  <1>11. HandIsRight(files, s, name, allowed)
    BY <1>3, <1>5, <1>6, <1>8, <1>9, <1>10 DEF HandIsRight
  <1> QED
    BY <1>7, <1>11 DEF Complete


LEMMA AllAreLeft ==
  ASSUME m \in Merges, m.cur = After(m.list, Nil), m.cur \in Nodes(m.list)
  PROVE  RestOfList = m.list
  <1>1. m.list \in Rows /\ \A k \in Nodes(m.list) : k \in Keys /\ k \in Int
    BY NodesAreKeys, KeysAreFinite DEF Merges
  <1>2. {k \in Nodes(m.list) : k >= m.cur} = Nodes(m.list)
    <2>1. \A k \in Nodes(m.list) : m.cur <= k
      BY TheFirstIsLeast
    <2> QED
      BY <1>1, <2>1
  <1>3. PICK n : n = Cardinality(Nodes(m.list))
    OBVIOUS
  <1>4. n \in Nat
    <2>1. Nodes(m.list) \in SUBSET Keys
      BY NodesAreKeys
    <2> QED
      BY <1>3, <2>1, KeysAreFinite
  <1>5. First(m.list, n) = Nodes(m.list)
    <2>1. PICK d : d = Cardinality(Nodes(m.list) \ First(m.list, n))
      OBVIOUS
    <2>2. n <= n => First(m.list, n) = Nodes(m.list)
      BY <1>3, <1>4, <2>1, FirstAreAll
    <2> QED
      BY <1>4, <2>2
  <1>6. RestOfList = Only(m.list, Nodes(m.list))
    BY <1>2, <1>3, <1>5 DEF RestOfList
  <1>7. \A k \in Keys : k \notin Nodes(m.list) => m.list[k] = Nil
    BY DEF Nodes
  <1> QED
    BY <1>1, <1>6, <1>7 DEF Only, Rows

LEMMA WalkComplete ==
  ASSUME IInv, InOrder(files, Table, m, name), Complete(files, m, name, allowed), Good', Walk
  PROVE  Complete(files', m', name', allowed')
  <1>1. /\ m.pc = "walk" /\ m.cur # Nil
        /\ files' = files /\ name' = name /\ allowed' = allowed
    BY DEF Walk, shared
  <1>2. m \in Merges /\ m.list \in Rows /\ m.merge \in Rows /\ OnItsWay(m)
    BY MergeIs
  <1>3. m.cur \in Nodes(m.list) /\ m.cur \in Keys /\ m.cur \in Int
    BY <1>1, <1>2, NodesAreKeys, KeysAreFinite DEF OnItsWay
  <1>4. PICK first : first = After(m.list, Nil)
    OBVIOUS
  <1>5. /\ (m.merge = Empty => m.cur = first) /\ (m.merge # Empty => first < m.cur)
    BY <1>1, <1>4, OrderIs DEF Walks
  <1>6. FilesAnswer(files, m, allowed) /\ HandIsRight(files, m, name, allowed) /\ Hand(m) = m.merge
    BY <1>1 DEF Complete, Hand
  <1>7. PICK info : info = MetaGet(m.cur)
    OBVIOUS
  <1>8. info \in Nat
    BY <1>3, <1>7, MetaGetIsAnEntry DEF IInv
  <1>9. ASSUME m' = IF m.merge = Empty THEN FlushNewList(m, RestOfList)
                    ELSE Flush(m, m.merge, NoLsn, FALSE, "newlist"),
               hazards' = IF m.cur = After(m.list, Nil) THEN hazards
                          ELSE hazards \cup {"tail"}
        PROVE  Complete(files', m', name', allowed')
    <2>1. m.cur = first
      <3>1. "tail" \notin hazards'
        BY DEF Good
      <3> QED
        BY <1>4, <1>9, <3>1
    <2>2. m.merge = Empty
      BY <1>3, <1>5, <2>1
    <2>3. m' = FlushNewList(m, m.list)
      BY <1>2, <1>3, <1>4, <1>9, <2>1, <2>2, AllAreLeft
    <2>4. Nodes(m.list) # {} /\ MayBeWritten(m.list, allowed)
      BY <1>3, <1>6 DEF HandIsRight
    <2> QED
      BY <1>1, <1>2, <1>6, <2>2, <2>3, <2>4, NewListComplete
  <1>10. ASSUME m' = IF m.merge = Empty THEN [m EXCEPT !.pc = "read", !.info = info]
                     ELSE [m EXCEPT !.merge = Inserted(m.merge), !.info = info,
                                    !.cur = After(m.list, m.cur)]
         PROVE  Complete(files', m', name', allowed')
    <2>1. CASE m.merge = Empty
      <3>1. m' = [m EXCEPT !.pc = "read", !.info = info]
        BY <1>10, <2>1
      <3>2. /\ m'.pc = "read" /\ m'.list = m.list /\ m'.cur = m.cur /\ m'.merge = m.merge
            /\ m'.rest = m.rest /\ m'.chunks = m.chunks
        BY <1>2, <3>1 DEF Merges
      <3>3. /\ Hand(m') = Hand(m) /\ (Walking(m') <=> Walking(m))
            /\ HasRecords(files, m', name') /\ IsUncut(m') /\ IsCopied(files, m', name')
            /\ m'.pc \notin Chunked \cup {"unlock"}
        BY <1>1, <1>6, <2>1, <3>2 DEF Hand, Walking, HasRecords, IsUncut, IsCopied, Chunked
      <3> QED
        BY <1>1, <2>1, <3>2, <3>3, SameInHand
    <2>2. CASE m.merge # Empty
      <3>1. PICK merge, cur : merge = Inserted(m.merge) /\ cur = After(m.list, m.cur)
        OBVIOUS
      <3>2. m' = [m EXCEPT !.merge = merge, !.info = info, !.cur = cur]
        BY <1>10, <2>2, <3>1
      <3>3. /\ m'.pc = "walk" /\ m'.merge = merge /\ m'.cur = cur /\ m'.list = m.list
            /\ m'.rest = m.rest
        BY <1>1, <1>2, <3>2 DEF Merges
      <3>4. name \in Names
        BY <2>2, MergeIs DEF HasName
      <3>5. MayBeWritten(m.merge, allowed) /\ Keeps(m.merge)
        BY <1>1, <1>6, <2>2 DEF HandIsRight, HasRecords, Keeps
      <3>6. Brings(m.merge)
        BY <1>6 DEF HandIsRight, IsMerged, Brings
      <3>7. Covers(m.merge)
        BY <1>1, <1>6 DEF FilesAnswer, Covers
      <3> QED
        BY <1>1, <1>2, <1>3, <3>1, <3>3, <3>4, <3>5, <3>6, <3>7, InsertComplete
    <2> QED
      BY <2>1, <2>2
  <1>11. ASSUME m' = LET s == [m EXCEPT !.info = info]
                     IN IF m.merge = Empty THEN [s EXCEPT !.pc = "switch"]
                        ELSE Flush(s, m.merge, meta[info].lsn, FALSE, "switch")
         PROVE  Complete(files', m', name', allowed')
    <2>1. PICK s : s = [m EXCEPT !.info = info]
      OBVIOUS
    <2>2. /\ s \in Merges /\ s.pc = "walk" /\ s.list = m.list /\ s.cur = m.cur
          /\ s.merge = m.merge /\ s.rest = m.rest /\ s.chunks = m.chunks
      BY <1>1, <1>2, <1>8, <2>1 DEF Merges
    <2>3. Complete(files, s, name, allowed)
      <3>1. /\ Hand(s) = Hand(m) /\ (Walking(s) <=> Walking(m))
            /\ IsUncut(s) /\ IsCopied(files, s, name) /\ s.pc \notin Chunked \cup {"unlock"}
        BY <1>1, <2>2 DEF Hand, Walking, IsUncut, IsCopied, Chunked
      <3>2. HasRecords(files, s, name)
        BY <1>1, <1>6, <2>2 DEF HandIsRight, HasRecords
      <3> QED
        BY <1>1, <2>2, <3>1, <3>2, SameInHand
    <2>4. CASE m.merge = Empty
      <3>1. m' = [s EXCEPT !.pc = "switch"]
        BY <1>11, <2>1, <2>4
      <3>2. /\ m'.pc = "switch" /\ m'.list = s.list /\ m'.cur = s.cur /\ m'.merge = s.merge
            /\ m'.rest = s.rest /\ m'.chunks = s.chunks
        BY <2>2, <3>1 DEF Merges
      <3>3. /\ Hand(m') = Hand(s) /\ (Walking(m') <=> Walking(s))
            /\ HasRecords(files, m', name') /\ IsUncut(m') /\ IsCopied(files, m', name')
            /\ m'.pc \notin Chunked \cup {"unlock"}
        BY <2>2, <2>4, <3>2 DEF Hand, Walking, HasRecords, IsUncut, IsCopied, Chunked
      <3> QED
        BY <1>1, <2>2, <2>3, <2>4, <3>2, <3>3, SameInHand
    <2>5. CASE m.merge # Empty
      <3>1. PICK lsn, fresh, then : lsn = meta[info].lsn /\ fresh = FALSE /\ then = "switch"
        OBVIOUS
      <3>2. m' = Flush(s, s.merge, lsn, fresh, then)
        BY <1>11, <2>1, <2>2, <2>5, <3>1, Zenon
      <3>3. then # "done"
        BY <3>1
      <3> QED
        BY <1>1, <2>2, <2>3, <2>5, <3>1, <3>2, <3>3, FlushComplete
    <2> QED
      BY <2>4, <2>5
  <1> QED
    <2>1. \/ /\ m' = IF m.merge = Empty THEN FlushNewList(m, RestOfList)
                     ELSE Flush(m, m.merge, NoLsn, FALSE, "newlist")
             /\ hazards' = IF m.cur = After(m.list, Nil) THEN hazards
                           ELSE hazards \cup {"tail"}
          \/ m' = IF m.merge = Empty THEN [m EXCEPT !.pc = "read", !.info = info]
                  ELSE [m EXCEPT !.merge = Inserted(m.merge), !.info = info,
                                 !.cur = After(m.list, m.cur)]
          \/ m' = LET s == [m EXCEPT !.info = info]
                  IN IF m.merge = Empty THEN [s EXCEPT !.pc = "switch"]
                     ELSE Flush(s, m.merge, meta[info].lsn, FALSE, "switch")
      BY <1>7 DEF Walk
    <2> QED
      BY <1>9, <1>10, <1>11, <2>1

LEMMA WalkDoneComplete ==
  ASSUME IInv, Complete(files, m, name, allowed), WalkDone
  PROVE  Complete(files', m', name', allowed')
  <1>1. /\ m.pc = "walk" /\ m.cur = Nil
        /\ m' = Flush(m, m.merge, meta[m.info].lsn, FALSE, "done")
        /\ files' = files /\ name' = name /\ allowed' = allowed
    BY DEF WalkDone, shared
  <1>2. m \in Merges /\ m.merge # Empty
    BY <1>1, MergeIs DEF OnItsWay
  <1>3. PICK lsn, fresh, then : lsn = meta[m.info].lsn /\ fresh = FALSE /\ then = "done"
    OBVIOUS
  <1>4. m' = Flush(m, m.merge, lsn, fresh, then)
    BY <1>1, <1>3, Zenon
  <1> QED
    BY <1>1, <1>2, <1>3, <1>4, FlushComplete

(* One line further, the same in hand. *)
LEMMA PlainComplete ==
  ASSUME IInv, Complete(files, m, name, allowed), NEW pc, m' = [m EXCEPT !.pc = pc],
         files' = files, allowed' = allowed,
         \/ m.pc = "switch" /\ pc = "read"
         \/ m.pc = "name" /\ pc = "open" /\ m.fresh
         \/ m.pc \in {"announce", "lock"} /\ ~ m.fresh /\ pc \in {"lock", "open"} /\ name' = name
  PROVE  Complete(files', m', name', allowed')
  <1>1. m \in Merges
    BY MergeIs
  <1>2. /\ m'.pc = pc /\ m'.list = m.list /\ m'.cur = m.cur /\ m'.merge = m.merge
        /\ m'.rest = m.rest /\ m'.chunks = m.chunks /\ m'.fresh = m.fresh /\ m'.then = m.then
    BY <1>1 DEF Merges
  <1>3. HandIsRight(files, m, name, allowed) /\ (m.pc = "switch" => m.merge = Empty)
    BY DEF Complete
  <1>4. Hand(m') = Hand(m) /\ (Walking(m') <=> Walking(m))
    BY <1>2 DEF Hand, Walking, Chunked
  <1>5. HasRecords(files, m', name')
    BY <1>2, <1>3 DEF HandIsRight, HasRecords
  <1>6. IsUncut(m') /\ IsCopied(files, m', name')
    BY <1>2, <1>3 DEF HandIsRight, IsUncut, IsCopied, Chunked
  <1>7. /\ m'.pc \in Chunked \cup {"unlock"} => m.pc \in Chunked \cup {"unlock"}
        /\ m'.pc \in {"switch", "read"} => m'.merge = Empty
    BY <1>2, <1>3 DEF Chunked
  <1>8. m.pc \notin {"idle", "down"} /\ m'.pc \notin {"idle", "down", "end"}
    BY <1>2
  <1> QED
    BY <1>2, <1>4, <1>5, <1>6, <1>7, <1>8, SameInHand

LEMMA LinesComplete ==
  ASSUME IInv, InOrder(files, Table, m, name), Complete(files, m, name, allowed),
         Switch \/ NameFile \/ Announce \/ Lock
  PROVE  Complete(files', m', name', allowed')
  <1>1. m.pc \in {"announce", "lock"} => ~ m.fresh
    BY OrderIs DEF Walks
  <1>2. m.pc = "name" => m.fresh
    BY OrderIs DEF Walks
  <1>3. PICK pc : pc = IF m.pc = "switch" THEN "read" ELSE IF m.pc = "announce" THEN "lock" ELSE "open"
    OBVIOUS
  <1>4. CASE Switch
    <2>1. m.pc = "switch" /\ pc = "read"
      BY <1>3, <1>4 DEF Switch
    <2>2. m' = [m EXCEPT !.pc = pc] /\ files' = files /\ allowed' = allowed
      BY <1>4, <2>1 DEF Switch
    <2> QED
      BY <2>1, <2>2, PlainComplete
  <1>5. CASE NameFile
    <2>1. m.pc = "name" /\ pc = "open"
      BY <1>3, <1>5 DEF NameFile
    <2>2. m' = [m EXCEPT !.pc = pc] /\ files' = files /\ allowed' = allowed
      BY <1>5, <2>1 DEF NameFile
    <2> QED
      BY <1>2, <2>1, <2>2, PlainComplete
  <1>6. CASE Announce
    <2>1. m.pc = "announce" /\ pc = "lock"
      BY <1>3, <1>6 DEF Announce
    <2>2. m' = [m EXCEPT !.pc = pc] /\ files' = files /\ allowed' = allowed /\ name' = name
      BY <1>6, <2>1 DEF Announce
    <2> QED
      BY <1>1, <2>1, <2>2, PlainComplete
  <1>7. CASE Lock
    <2>1. m.pc = "lock" /\ pc = "open"
      BY <1>3, <1>7 DEF Lock
    <2>2. m' = [m EXCEPT !.pc = pc] /\ files' = files /\ allowed' = allowed /\ name' = name
      BY <1>7, <2>1 DEF Lock
    <2> QED
      BY <1>1, <2>1, <2>2, PlainComplete
  <1> QED
    BY <1>4, <1>5, <1>6, <1>7

LEMMA ReadMmapComplete ==
  ASSUME IInv, InOrder(files, Table, m, name), Complete(files, m, name, allowed), ReadMmap
  PROVE  Complete(files', m', name', allowed')
  <1>1. m.pc = "read"
    BY DEF ReadMmap
  <1>2. m.pc \notin Written \cup {"down"} /\ m \in Merges
    BY <1>1, MergeIs DEF Written
  <1>3. m.cur \in Nodes(m.list) /\ m.info \in 1 .. Len(Table)
    BY <1>1, MergeIs DEF OnItsWay
  <1>4. name = Table[m.info].name
    BY <1>1, OrderIs DEF Stands
  <1>5. name \in Oks(files) /\ name \in Names
    BY <1>2, <1>3, <1>4, TableHasFiles DEF Oks
  <1>6. /\ m' = [m EXCEPT !.pc = "walk", !.cur = After(m.list, m.cur),
                          !.merge = Inserted(files[name].recs)]
        /\ files' = files /\ name' = name /\ allowed' = allowed
    BY <1>5 DEF ReadMmap, Oks, shared
  <1>7. PICK recs, cur, merge :
          recs = files[name].recs /\ cur = After(m.list, m.cur) /\ merge = Inserted(recs)
    OBVIOUS
  <1>8. m' = [m EXCEPT !.pc = "walk", !.cur = cur, !.merge = merge]
    BY <1>6, <1>7
  <1>9. /\ m'.pc = "walk" /\ m'.cur = cur /\ m'.merge = merge /\ m'.list = m.list
        /\ m'.rest = m.rest
    BY <1>2, <1>8 DEF Merges
  <1>10. /\ FilesAnswer(files, m, allowed) /\ HandIsRight(files, m, name, allowed)
         /\ m.merge = Empty
    BY <1>1 DEF Complete
  <1>11. recs \in Rows /\ \A k \in Keys : recs[k] # Deleted
    BY <1>5, <1>7, RecordsAre
  <1>12. MayBeWritten(recs, allowed)
    BY <1>5, <1>7, <1>10, <1>11, NodesAreKeys DEF FilesAnswer, MayBeWritten
  <1>13. Keeps(recs)
    BY <1>7 DEF Keeps
  <1>14. Brings(recs)
    <2>1. ASSUME NEW k \in Passed(m)
          PROVE  recs[k] = m.list[k] \/ (recs[k] = Nil /\ Settled(files, m, k))
      <3>1. k \in Nodes(m.list) /\ k \in Keys /\ m.list[k] # Nil
        BY DEF Passed, Nodes
      <3>2. Hand(m)[k] = Nil
        BY <1>1, <3>1 DEF Hand, Chunked, Empty
      <3>3. Settled(files, m, k)
        BY <1>10, <3>1, <3>2 DEF HandIsRight, IsMerged
      <3> QED
        BY <1>5, <1>7, <3>3 DEF Settled
    <2> QED
      BY <2>1 DEF Brings
  <1>15. Covers(recs)
    BY <1>1, <1>10, EmptyHasNothing DEF FilesAnswer, Covers
  <1> QED
    BY <1>1, <1>3, <1>5, <1>6, <1>7, <1>9, <1>11, <1>12, <1>13, <1>14, <1>15, InsertComplete

-----------------------------------------------------------------------------
(* From the list in hand to the files *)

(* What is in hand is in no other file. *)
LEMMA NowhereElse ==
  ASSUME IInv, InOrder(files, Table, m, name), m.pc \in Written \ {"write"},
         NEW n \in Oks(files) \ {name}, NEW k \in Nodes(m.rest)
  PROVE  files[n].recs[k] = Nil
  <1>1. FilesApart(files) /\ HandApart(files, Table, m, name) /\ m.pc \in Chunked
    BY OrderIs DEF Written, Chunked
  <1>2. InHand(m) = Nodes(m.rest) /\ (Rewriting(m) <=> ~ m.fresh)
    BY <1>1 DEF InHand, Rewriting, Chunked
  <1>3. Apart(files, n, Nodes(m.rest))
    <2>1. CASE m.fresh
      <3>1. Fresh(m, name) \subseteq {name}
        BY DEF Fresh
      <3> QED
        BY <1>1, <1>2, <2>1, <3>1 DEF HandApart
    <2>2. CASE ~ m.fresh
      <3>1. PICK i \in 1 .. Len(Table) : Apart(files, n, Nodes(m.rest) \cup {Table[i].end})
        BY <1>1, <1>2, <2>2 DEF HandApart, Around
      <3>2. Nodes(m.rest) \in SUBSET (Nodes(m.rest) \cup {Table[i].end})
        OBVIOUS
      <3> QED
        BY <3>1, <3>2, FewerAreApart
    <2> QED
      BY <2>1, <2>2
  <1>4. k \in Keys /\ k \in Int
    BY NodesAreKeys, KeysAreFinite
  <1>5. CASE files[n].recs[k] # Nil
    <2>1. k \in Held(files, n)
      BY <1>4, <1>5 DEF Held, Nodes
    <2>2. k <= files[n].end /\ files[n].end \in Held(files, n)
      BY <1>1, <2>1 DEF FilesApart, Held
    <2>3. files[n].end \in Int
      BY <2>2, HeldAreNumbers
    <2>4. files[n].end < k \/ k < k
      BY <1>3, <2>1 DEF Apart, Below, Above
    <2> QED
      BY <1>4, <2>2, <2>3, <2>4
  <1> QED
    BY <1>5

(* A chunk is a part of what is in hand, and its additions are what a file *)
(* gets.                                                                   *)
LEMMA ChunkHas ==
  ASSUME IInv, m.chunks # << >>, NEW k \in Keys
  PROVE  /\ k \in Nodes(Chunk) => k \in Nodes(m.rest) /\ Chunk[k] = m.rest[k]
         /\ Only(Chunk, Adds(Chunk))[k] =
              IF k \in Nodes(Chunk) /\ m.rest[k] # Deleted THEN m.rest[k] ELSE Nil
  <1>1. /\ Nodes(Chunk) \subseteq Nodes(m.rest) /\ Chunk \in Rows
        /\ \A j \in Nodes(Chunk) : Chunk[j] = m.rest[j]
    BY MergeIs, ChunkIs
  <1>2. k \in Adds(Chunk) <=> k \in Nodes(Chunk) /\ m.rest[k] # Deleted
    <2>1. /\ k \in Nodes(Chunk) <=> Chunk[k] # Nil
          /\ k \in Adds(Chunk) <=> Chunk[k] # Nil /\ Chunk[k] # Deleted
      BY <1>1, InARow
    <2> QED
      BY <1>1, <2>1
  <1> QED
    BY <1>1, <1>2 DEF Only

LEMMA InSomeIs ==
  ASSUME NEW fs, NEW n \in Oks(fs), NEW k
  PROVE  /\ \A v : fs[n].recs[k] = v => InSome(fs, k, v)
         /\ InNone(fs, k) => fs[n].recs[k] = Nil
         /\ \A v : InSome(fs, k, v) /\ v # Nil => ~ InNone(fs, k)
  BY DEF InSome, InNone

(* The file is truncated: what it had is in hand. *)
LEMMA OpenComplete ==
  ASSUME IInv, InOrder(files, Table, m, name), Complete(files, m, name, allowed), Open
  PROVE  Complete(files', m', name', allowed')
  <1>1. m.pc = "open" /\ files' = [files EXCEPT ![name] = Torn] /\ allowed' = allowed
    BY DEF Open, EndProcess
  <1>2. /\ m \in Merges /\ (HasName(m) => name \in Names) /\ files \in [Names -> Blocks]
        /\ m.list \in Rows /\ m.merge \in Rows /\ m.rest \in Rows
    BY MergeIs
  <1>3. name \in Names
    BY <1>1, <1>2 DEF HasName, Named
  <1>4. PICK fs : fs = files'
    OBVIOUS
  <1>5. fs[name] = Torn /\ \A n \in Names : n # name => fs[n] = files[n]
    BY <1>1, <1>2, <1>3, <1>4
  <1>6. /\ Oks(fs) = Oks(files) \ {name} /\ \A n \in Oks(fs) : n \in Names /\ fs[n] = files[n]
        /\ fs[name].recs = Empty /\ fs[name].state = "torn"
    BY <1>3, <1>5 DEF Oks, Torn
  <1>7. /\ FilesAnswer(files, m, allowed) /\ HandIsRight(files, m, name, allowed)
        /\ m.pc \in Chunked /\ Hand(m) = m.rest
    BY <1>1 DEF Complete, Hand, Chunked
  <1>8. m.fresh => name \notin Oks(files)
    <2>1. m.fresh => name = Len(Table)
      BY <1>1, OrderIs DEF Stands
    <2>2. Numbered(files, Len(Table))
      BY <1>1, TableHasFiles DEF Written
    <2>3. name \in Int /\ Len(Table) \in Nat
      BY <1>3, MergeIs, SilopitAssumption DEF Names
    <2> QED
      BY <1>3, <2>1, <2>2, <2>3 DEF Numbered, Oks
  <1>9. ASSUME NEW k \in Keys, name \in Oks(files), files[name].recs[k] # Nil
        PROVE  /\ m.merge[k] # Nil /\ (Nil \in allowed[k] \/ k \in Adds(m.merge))
               /\ m.merge = m.rest /\ ~ m.fresh
    <2>1. ~ m.fresh
      BY <1>8, <1>9
    <2>2. m.merge = m.rest
      BY <1>7, <2>1 DEF HandIsRight, IsUncut
    <2>3. k \in Nodes(files[name].recs) /\ files[name].recs[k] # Deleted
      BY <1>3, <1>9, RecordsAre
    <2>4. m.merge[k] = files[name].recs[k] \/ (m.list[k] # Nil /\ m.merge[k] = m.list[k])
      BY <1>1, <1>7, <2>1, <2>3 DEF HandIsRight, HasRecords
    <2>5. m.list[k] = Deleted => Nil \in allowed[k]
      <3>1. m.list[k] = Deleted => k \in Nodes(m.list)
        BY DEF Nodes, Nil, Deleted
      <3> QED
        BY <1>7, <3>1 DEF HandIsRight, MayBeWritten
    <2>6. k \in Adds(m.merge) <=> m.merge[k] # Nil /\ m.merge[k] # Deleted
      BY <1>2, InARow
    <2> QED
      BY <1>9, <2>1, <2>2, <2>3, <2>4, <2>5, <2>6
  <1>10. ASSUME NEW k \in Keys, InNone(fs, k) PROVE Nil \in allowed[k] \/ k \in Adds(m.merge)
    <2>1. CASE name \in Oks(files) /\ files[name].recs[k] # Nil
      BY <1>9, <2>1
    <2>2. CASE ~ (name \in Oks(files) /\ files[name].recs[k] # Nil)
      <3>1. InNone(files, k)
        BY <1>6, <1>10, <2>2 DEF InNone
      <3> QED
        BY <1>1, <1>7, <3>1 DEF FilesAnswer
    <2> QED
      BY <2>1, <2>2
  <1>11. /\ \A n \in Oks(fs) : \A k \in Nodes(fs[n].recs) : fs[n].recs[k] \in allowed[k]
         /\ \A n \in Names \ Oks(fs) : fs[n].recs = Empty
    BY <1>5, <1>6, <1>7 DEF FilesAnswer
  <1>12. CASE EndProcess([files EXCEPT ![name] = Torn], {"alldel"})
    <2>1. m'.pc = "down" /\ m'.merge = Empty
      BY <1>12 DEF EndProcess, NoMerge
    <2>2. FilesAnswer(fs, m', allowed)
      BY <1>3, <1>6, <1>11, <2>1 DEF FilesAnswer
    <2> QED
      BY <1>1, <1>4, <2>1, <2>2 DEF Complete
  <1>13. CASE m' = [m EXCEPT !.pc = "write", !.fd = name]
    <2>1. PICK s : s = m'
      OBVIOUS
    <2>2. /\ s.pc = "write" /\ s.list = m.list /\ s.cur = m.cur /\ s.merge = m.merge
          /\ s.rest = m.rest /\ s.chunks = m.chunks /\ s.fresh = m.fresh /\ s.then = m.then
      BY <1>2, <1>3, <1>13, <2>1 DEF Merges
    <2>3. FilesAnswer(fs, s, allowed)
      BY <1>10, <1>11, <2>2 DEF FilesAnswer
    <2>4. Hand(s) = m.rest /\ Passed(s) = Passed(m)
      BY <1>1, <2>2 DEF Hand, Passed, Walking, Chunked
    <2>5. /\ MayBeWritten(s.list, allowed) /\ MayBeWritten(s.merge, allowed)
          /\ MayBeWritten(s.rest, allowed)
          /\ Takes(Cardinality(Nodes(s.rest)), s.chunks)
      BY <1>7, <2>2 DEF HandIsRight
    <2>6. HasRecords(fs, s, name') /\ IsCopied(fs, s, name')
      BY <2>2 DEF HasRecords, IsCopied
    <2>7. IsUncut(s)
      BY <1>7, <2>2 DEF HandIsRight, IsUncut
    <2>8. IsKept(fs, s)
      <3>1. ASSUME NEW k \in Adds(m.merge) PROVE m.rest[k] = m.merge[k] \/ InSome(fs, k, m.merge[k])
        <4>1. CASE m.fresh
          <5>1. Oks(fs) = Oks(files)
            BY <1>6, <1>8, <4>1
          <5>2. m.rest[k] = m.merge[k] \/ InSome(files, k, m.merge[k])
            BY <1>7 DEF HandIsRight, IsKept
          <5> QED
            BY <1>6, <5>1, <5>2 DEF InSome
        <4>2. CASE ~ m.fresh
          BY <1>7, <4>2 DEF HandIsRight, IsUncut
        <4> QED
          BY <4>1, <4>2
      <3> QED
        BY <2>2, <2>4, <3>1 DEF IsKept
    <2>9. IsMerged(fs, s)
      <3>1. ASSUME NEW k \in Passed(m), m.rest[k] = Nil, Settled(files, m, k)
            PROVE  Settled(fs, s, k)
        <4>1. k \in Keys /\ m.list[k] # Nil
          BY DEF Passed, Nodes
        <4>2. \A n \in Oks(fs) : fs[n].recs[k] \in {Nil, m.list[k]}
          BY <1>6, <3>1 DEF Settled
        <4>3. ASSUME m.list[k] # Deleted PROVE InSome(fs, k, m.list[k])
          <5>1. PICK n \in Oks(files) : files[n].recs[k] = m.list[k]
            BY <3>1, <4>3 DEF Settled, InSome
          <5>2. n # name
            BY <1>9, <3>1, <4>1, <5>1
          <5> QED
            BY <1>6, <5>1, <5>2 DEF InSome
        <4> QED
          BY <2>2, <4>2, <4>3 DEF Settled
      <3>2. \A k \in Passed(m) : m.rest[k] = m.list[k] \/ (m.rest[k] = Nil /\ Settled(files, m, k))
        BY <1>7 DEF HandIsRight, IsMerged
      <3> QED
        BY <2>2, <2>4, <3>1, <3>2 DEF IsMerged
    <2>10. HandIsRight(fs, s, name', allowed)
      BY <2>5, <2>6, <2>7, <2>8, <2>9 DEF HandIsRight
    <2> QED
      BY <1>1, <1>4, <2>1, <2>2, <2>3, <2>10 DEF Complete
  <1> QED
    BY <1>1, <1>12, <1>13 DEF Open

(* The chunk's additions are in the file. *)
LEMMA WriteComplete ==
  ASSUME IInv, InOrder(files, Table, m, name), Complete(files, m, name, allowed), Write
  PROVE  Complete(files', m', name', allowed')
  <1>1. /\ m.pc = "write" /\ name' = name /\ allowed' = allowed
        /\ m' = [m EXCEPT !.pc = IF m.fresh /\ ~ IsRegistered(meta, EndOf(Chunk))
                                 THEN "grow" ELSE "register"]
    BY DEF Write, shared
  <1>2. /\ m \in Merges /\ files \in [Names -> Blocks] /\ m.rest \in Rows /\ OnItsWay(m)
    BY MergeIs
  <1>3. m.fd = name /\ files[name].state = "torn" /\ m.chunks # << >> /\ name \in Names
    BY <1>1, <1>2, OrderIs, ChunkAtWork DEF Stands, OnItsWay, Written, Chunked
  <1>4. PICK fs, recs, end : fs = files' /\ recs = Only(Chunk, Adds(Chunk)) /\ end = EndOf(Chunk)
    OBVIOUS
  <1>5. fs = [files EXCEPT ![name] = [state |-> "ok", recs |-> recs, end |-> end]]
    BY <1>3, <1>4 DEF Write
  <1>6. /\ fs[name].state = "ok" /\ fs[name].recs = recs
        /\ \A n \in Names : n # name => fs[n] = files[n]
    BY <1>2, <1>3, <1>5
  <1>7. name \notin Oks(files) /\ Oks(fs) = Oks(files) \cup {name} /\ name \in Oks(fs)
    BY <1>3, <1>6 DEF Oks
  <1>8. \A n \in Oks(files) : fs[n] = files[n] /\ n \in Names
    BY <1>6, <1>7 DEF Oks
  <1>9. /\ FilesAnswer(files, m, allowed) /\ HandIsRight(files, m, name, allowed)
        /\ m.pc \in Chunked /\ Hand(m) = m.rest
    BY <1>1 DEF Complete, Hand, Chunked
  <1>10. \A k \in Keys :
           recs[k] = IF k \in Nodes(Chunk) /\ m.rest[k] # Deleted THEN m.rest[k] ELSE Nil
    BY <1>3, <1>4, ChunkHas
  <1>11. \A k \in Keys : k \in Nodes(Chunk) => k \in Nodes(m.rest)
    BY <1>3, ChunkHas
  <1>12. PICK s : s = m'
    OBVIOUS
  <1>13. /\ s.pc \in {"grow", "register"} /\ s.list = m.list /\ s.cur = m.cur
         /\ s.merge = m.merge /\ s.rest = m.rest /\ s.chunks = m.chunks
         /\ s.fresh = m.fresh /\ s.then = m.then
    BY <1>1, <1>2, <1>12 DEF Merges
  <1>14. FilesAnswer(fs, s, allowed)
    <2>1. ASSUME NEW k \in Nodes(recs) PROVE recs[k] \in allowed[k]
      <3>1. k \in Keys /\ recs[k] # Nil
        BY DEF Nodes
      <3>2. k \in Nodes(m.rest) /\ recs[k] = m.rest[k] /\ m.rest[k] # Deleted
        BY <1>10, <1>11, <3>1
      <3> QED
        BY <1>9, <3>2 DEF HandIsRight, MayBeWritten
    <2>2. \A n \in Oks(fs) : \A k \in Nodes(fs[n].recs) : fs[n].recs[k] \in allowed[k]
      BY <1>6, <1>7, <1>8, <1>9, <2>1 DEF FilesAnswer
    <2>3. \A n \in Names \ Oks(fs) : fs[n].recs = Empty
      BY <1>6, <1>7, <1>9 DEF FilesAnswer
    <2>4. \A k \in Keys : InNone(fs, k) => InNone(files, k)
      BY <1>7, <1>8 DEF InNone
    <2> QED
      BY <1>1, <1>9, <1>13, <2>2, <2>3, <2>4 DEF FilesAnswer
  <1>15. \A k \in Keys : \A v : InSome(files, k, v) => InSome(fs, k, v)
    BY <1>7, <1>8 DEF InSome
  <1>16. Hand(s) = m.rest /\ Passed(s) = Passed(m) /\ s.pc \in Chunked
    BY <1>1, <1>13 DEF Hand, Passed, Walking, Chunked
  <1>17. HasRecords(fs, s, name) /\ IsUncut(s)
    BY <1>9, <1>13 DEF HasRecords, IsUncut, HandIsRight
  <1>18. IsCopied(fs, s, name)
    <2>1. Chunk = ChunkOf(s)
      BY <1>13 DEF Chunk, ChunkOf
    <2> QED
      BY <1>4, <1>6, <2>1 DEF IsCopied
  <1>19. IsKept(fs, s)
    <2>1. \A k \in Adds(m.merge) : m.rest[k] = m.merge[k] \/ InSome(files, k, m.merge[k])
      BY <1>9 DEF HandIsRight, IsKept
    <2>2. Adds(m.merge) \subseteq Keys
      BY DEF Adds
    <2> QED
      BY <1>13, <1>15, <1>16, <2>1, <2>2 DEF IsKept
  <1>20. IsMerged(fs, s)
    <2>1. ASSUME NEW k \in Passed(m), m.rest[k] = Nil, Settled(files, m, k)
          PROVE  Settled(fs, s, k)
      <3>1. k \in Keys
        BY DEF Passed, Nodes
      <3>2. recs[k] = Nil
        BY <1>10, <1>11, <2>1, <3>1
      <3>3. \A n \in Oks(fs) : fs[n].recs[k] \in {Nil, m.list[k]}
        BY <1>6, <1>7, <1>8, <2>1, <3>2 DEF Settled
      <3> QED
        BY <1>13, <1>15, <2>1, <3>1, <3>3 DEF Settled
    <2>2. \A k \in Passed(m) : m.rest[k] = m.list[k] \/ (m.rest[k] = Nil /\ Settled(files, m, k))
      BY <1>9 DEF HandIsRight, IsMerged
    <2> QED
      BY <1>13, <1>16, <2>1, <2>2 DEF IsMerged
  <1>21. HandIsRight(fs, s, name, allowed)
    <2>1. /\ MayBeWritten(s.list, allowed) /\ MayBeWritten(s.merge, allowed)
          /\ MayBeWritten(s.rest, allowed) /\ Takes(Cardinality(Nodes(s.rest)), s.chunks)
      BY <1>9, <1>13 DEF HandIsRight
    <2> QED
      BY <1>17, <1>18, <1>19, <1>20, <2>1 DEF HandIsRight
  <1> QED
    BY <1>1, <1>4, <1>12, <1>13, <1>14, <1>21 DEF Complete

LEMMA GrowComplete ==
  ASSUME IInv, Complete(files, m, name, allowed), Grow
  PROVE  Complete(files', m', name', allowed')
  <1>1. /\ m.pc = "grow" /\ files' = files /\ name' = name /\ allowed' = allowed
    BY DEF Grow, shared
  <1>2. PICK at : at = Search(meta, EndOf(Chunk))
    OBVIOUS
  <1>3. m' = [m EXCEPT !.pc = "place", !.at = at]
    BY <1>2 DEF Grow
  <1>4. m \in Merges /\ HandIsRight(files, m, name, allowed)
    BY <1>1, MergeIs DEF Complete
  <1>5. /\ m'.pc = "place" /\ m'.list = m.list /\ m'.cur = m.cur /\ m'.merge = m.merge
        /\ m'.rest = m.rest /\ m'.chunks = m.chunks /\ m'.fresh = m.fresh /\ m'.then = m.then
    BY <1>3, <1>4 DEF Merges
  <1>6. /\ Hand(m') = Hand(m) /\ (Walking(m') <=> Walking(m)) /\ HasRecords(files, m', name)
        /\ m.pc \in Chunked
    BY <1>1, <1>5 DEF Hand, Walking, HasRecords, Chunked
  <1>7. IsUncut(m') /\ IsCopied(files, m', name)
    <2>1. ChunkOf(m') = ChunkOf(m)
      BY <1>5 DEF ChunkOf
    <2> QED
      BY <1>1, <1>4, <1>5, <1>6, <2>1 DEF HandIsRight, IsUncut, IsCopied
  <1> QED
    BY <1>1, <1>5, <1>6, <1>7, SameInHand


(* After the last chunk nothing is left in hand. *)
LEMMA NothingIsLeft ==
  ASSUME NEW t \in Rows, Takes(Cardinality(Nodes(t)), << >>)
  PROVE  t = Empty
  <1>1. Nodes(t) \in SUBSET Keys
    BY NodesAreKeys
  <1>2. Cardinality(Nodes(t)) = 0
    BY DEF Takes
  <1>3. Nodes(t) = {}
    BY <1>1, <1>2, KeysAreFinite
  <1> QED
    BY <1>3, NotEmptyHasNodes

(* What a flush was part of goes on. *)
LEMMA ContinueComplete ==
  ASSUME NEW fs, NEW u \in Merges, NEW x, NEW al, Complete(fs, u, x, al),
         u.pc = "unlock", u.then # "newlist", NEW c, c = Continue(u), NEW y
  PROVE  Complete(fs, c, y, al)
  <1>1. /\ c.list = u.list /\ c.cur = u.cur /\ c.then = u.then /\ c.rest = u.rest
        /\ c.chunks = u.chunks
        /\ c.pc \in {"name", "switch", "end"}
        /\ c.pc = "name" => c.fresh = TRUE /\ c.merge = u.merge
        /\ c.pc = "switch" => u.chunks = << >> /\ u.then = "switch" /\ c.merge = Empty
        /\ c.pc = "end" => u.chunks = << >> /\ u.then = "done" /\ c.merge = u.merge
    BY ContinueShape
  <1>2. FilesAnswer(fs, u, al) /\ HandIsRight(fs, u, x, al) /\ Hand(u) = u.rest
    BY DEF Complete, Hand
  <1>3. u.chunks = << >> => u.rest = Empty
    <2>1. Takes(Cardinality(Nodes(u.rest)), u.chunks) /\ u.rest \in Rows
      BY <1>2 DEF HandIsRight, Merges
    <2> QED
      BY <2>1, NothingIsLeft
  <1>4. /\ HasRecords(fs, c, y) /\ IsUncut(c) /\ IsCopied(fs, c, y)
    BY <1>1 DEF HasRecords, IsUncut, IsCopied, Chunked
  <1>5. Hand(c) = Hand(u)
    BY <1>1, <1>2, <1>3 DEF Hand, Chunked
  <1>6. Walking(c) <=> Walking(u)
    BY <1>1 DEF Walking, Chunked
  <1>7. CASE c.pc \in {"name", "end"}
    BY <1>1, <1>4, <1>5, <1>6, <1>7, SameInHand
  <1>8. CASE c.pc = "switch"
    <2>1. c.merge = Empty /\ u.rest = Empty
      BY <1>1, <1>3, <1>8
    <2>2. \A k \in Adds(u.merge) : InSome(fs, k, u.merge[k])
      <3>1. ASSUME NEW k \in Adds(u.merge) PROVE InSome(fs, k, u.merge[k])
        <4>1. k \in Keys /\ u.merge[k] # Nil /\ u.rest[k] = Nil
          BY <2>1 DEF Adds, Empty
        <4> QED
          BY <1>2, <4>1 DEF HandIsRight, IsKept
      <3> QED
        BY <3>1
    <2>3. FilesAnswer(fs, c, al)
      <3>1. ASSUME NEW k \in Keys, InNone(fs, k) PROVE Nil \in al[k]
        <4>1. k \notin Adds(u.merge)
          <5>1. u.merge[k] # Nil => ~ InSome(fs, k, u.merge[k])
            BY <3>1 DEF InNone, InSome
          <5> QED
            BY <2>2, <5>1 DEF Adds
        <4> QED
          BY <1>2, <3>1, <4>1 DEF FilesAnswer
      <3> QED
        BY <1>2, <3>1 DEF FilesAnswer
    <2>4. MayBeWritten(c.merge, al)
      BY <2>1, EmptyHasNothing DEF MayBeWritten
    <2>5. MayBeWritten(c.list, al) /\ MayBeWritten(c.rest, al)
      BY <1>1, <1>2 DEF HandIsRight
    <2>6. IsMerged(fs, c)
      <3>1. Passed(c) = Passed(u)
        BY <1>1, <1>6 DEF Passed
      <3>2. \A k \in Passed(u) : Settled(fs, u, k) => Settled(fs, c, k)
        BY <1>1 DEF Settled
      <3>3. IsMerged(fs, u)
        BY <1>2 DEF HandIsRight
      <3> QED
        BY <1>1, <1>5, <3>1, <3>2, <3>3 DEF IsMerged
    <2>7. IsKept(fs, c) /\ c.pc \notin Chunked \cup {"unlock"}
      BY <1>8 DEF IsKept, Chunked
    <2>8. HandIsRight(fs, c, y, al)
      BY <1>4, <2>4, <2>5, <2>6, <2>7 DEF HandIsRight
    <2> QED
      BY <1>8, <2>1, <2>3, <2>8 DEF Complete
  <1> QED
    BY <1>1, <1>7, <1>8

(* The chunk that was written is no longer in hand. *)
LEMMA AfterChunkComplete ==
  ASSUME IInv, InOrder(files, Table, m, name), Complete(files, m, name, allowed),
         m.pc \in {"place", "register"}, NEW c, c = AfterChunk, NEW y
  PROVE  Complete(files, c, y, allowed)
  <1>1. /\ m \in Merges /\ m.rest \in Rows /\ m.merge \in Rows
        /\ m.chunks \in Seq(1 .. 2 * MaxCount)
    BY MergeIs
  <1>2. /\ m.pc \in Written /\ m.pc \in Chunked /\ m.pc \in Written \ {"write"}
        /\ m.pc \notin {"idle", "down"}
    BY DEF Written, Chunked
  <1>3. m.chunks # << >> /\ name \in Oks(files) /\ m.then # "newlist"
    <2>1. m.chunks # << >>
      BY <1>2, ChunkAtWork
    <2>2. name \in Oks(files) /\ m.then # "newlist"
      BY <1>2, OrderIs DEF Stands, Walks
    <2> QED
      BY <2>1, <2>2
  <1>4. /\ FilesAnswer(files, m, allowed) /\ HandIsRight(files, m, name, allowed)
        /\ Hand(m) = m.rest
    BY <1>2 DEF Complete, Hand, Chunked
  <1>5. PICK S, rest, chunks :
          S = Nodes(m.rest) \ Nodes(Chunk) /\ rest = Only(m.rest, S) /\ chunks = Tail(m.chunks)
    OBVIOUS
  <1>6. rest \in Rows /\ Nodes(rest) = S
    BY <1>1, <1>5, OnlyKeeps
  <1>7. chunks \in Seq(1 .. 2 * MaxCount)
    BY <1>1, <1>3, <1>5, HeadTailProperties
  <1>8. \A k \in Keys : rest[k] = IF k \in Nodes(Chunk) THEN Nil ELSE m.rest[k]
    <2>1. \A k \in Keys : k \notin Nodes(m.rest) => m.rest[k] = Nil
      BY DEF Nodes
    <2> QED
      BY <1>5, <2>1 DEF Only
  <1>9. PICK s : s = [m EXCEPT !.rest = rest, !.chunks = chunks, !.fd = NoName]
    OBVIOUS
  <1>10. /\ s \in Merges /\ s.list = m.list /\ s.cur = m.cur /\ s.merge = m.merge
         /\ s.rest = rest /\ s.chunks = chunks /\ s.then = m.then
    BY <1>1, <1>6, <1>7, <1>9 DEF Merges
  <1>11. PICK u : u = [s EXCEPT !.pc = "unlock"]
    OBVIOUS
  <1>12. /\ u \in Merges /\ u.pc = "unlock" /\ u.list = m.list /\ u.cur = m.cur
         /\ u.merge = m.merge /\ u.rest = rest /\ u.chunks = chunks /\ u.then = m.then
    BY <1>10, <1>11 DEF Merges, MergePcs
  <1>13. \A k \in Keys : files[name].recs[k] =
           IF k \in Nodes(Chunk) /\ m.rest[k] # Deleted THEN m.rest[k] ELSE Nil
    <2>1. CASE m.pc \in {"grow", "place", "register"}
      <3>1. files[name].recs = Only(Chunk, Adds(Chunk))
        BY <1>4, <2>1 DEF HandIsRight, IsCopied, Chunk, ChunkOf
      <3> QED
        BY <1>3, <3>1, ChunkHas
    <2> QED
      BY <2>1
  <1>14. \A k \in Keys : k \in Nodes(Chunk) => k \in Nodes(m.rest)
    BY <1>3, ChunkHas
  <1>15. FilesAnswer(files, u, allowed)
    BY <1>2, <1>4, <1>12 DEF FilesAnswer
  <1>16. MayBeWritten(rest, allowed)
    <2>1. \A k \in Nodes(rest) : k \in Nodes(m.rest) /\ rest[k] = m.rest[k]
      BY <1>5, <1>6, <1>8, NodesAreKeys
    <2> QED
      BY <1>4, <2>1 DEF HandIsRight, MayBeWritten
  <1>17. IsKept(files, u)
    <2>1. ASSUME NEW k \in Adds(m.merge), m.rest[k] = m.merge[k], k \in Nodes(Chunk)
          PROVE  InSome(files, k, m.merge[k])
      <3>1. k \in Keys /\ m.merge[k] # Deleted
        BY DEF Adds
      <3>2. files[name].recs[k] = m.merge[k]
        BY <1>13, <2>1, <3>1
      <3> QED
        BY <1>3, <3>2 DEF InSome
    <2>2. \A k \in Adds(m.merge) : m.rest[k] = m.merge[k] \/ InSome(files, k, m.merge[k])
      BY <1>2, <1>4 DEF HandIsRight, IsKept
    <2>3. \A k \in Adds(m.merge) : rest[k] = m.merge[k] \/ InSome(files, k, m.merge[k])
      <3>1. Adds(m.merge) \subseteq Keys
        BY DEF Adds
      <3> QED
        BY <1>8, <2>1, <2>2, <3>1
    <2>4. Hand(u) = rest
      BY <1>12 DEF Hand
    <2> QED
      BY <1>12, <2>3, <2>4 DEF IsKept
  <1>18. IsMerged(files, u)
    <2>1. Passed(u) = Passed(m) /\ Hand(u) = rest
      BY <1>2, <1>12 DEF Passed, Walking, Hand
    <2>2. ASSUME NEW k \in Passed(m)
          PROVE  rest[k] = m.list[k] \/ (rest[k] = Nil /\ Settled(files, u, k))
      <3>1. k \in Keys /\ m.list[k] # Nil
        BY DEF Passed, Nodes
      <3>2. m.rest[k] = m.list[k] \/ (m.rest[k] = Nil /\ Settled(files, m, k))
        BY <1>4 DEF HandIsRight, IsMerged
      <3>3. Settled(files, m, k) => Settled(files, u, k)
        BY <1>12 DEF Settled
      <3>4. CASE k \notin Nodes(Chunk)
        BY <1>8, <3>1, <3>2, <3>3, <3>4
      <3>5. CASE k \in Nodes(Chunk)
        <4>1. k \in Nodes(m.rest) /\ rest[k] = Nil /\ m.rest[k] # Nil
          BY <1>8, <1>14, <3>1, <3>5 DEF Nodes
        <4>2. m.rest[k] = m.list[k]
          BY <3>2, <4>1
        <4>3. files[name].recs[k] = IF m.list[k] # Deleted THEN m.list[k] ELSE Nil
          BY <1>13, <3>1, <3>5, <4>2
        <4>4. \A n \in Oks(files) \ {name} : files[n].recs[k] = Nil
          BY <1>2, <4>1, NowhereElse
        <4>5. m.list[k] # Deleted => InSome(files, k, m.list[k])
          BY <1>3, <4>3 DEF InSome
        <4>6. \A n \in Oks(files) : files[n].recs[k] \in {Nil, m.list[k]}
          BY <4>3, <4>4
        <4> QED
          BY <1>12, <4>1, <4>5, <4>6 DEF Settled
      <3> QED
        BY <3>4, <3>5
    <2> QED
      BY <1>12, <2>1, <2>2 DEF IsMerged
  <1>19. Takes(Cardinality(Nodes(rest)), chunks)
    <2>1. Takes(Cardinality(Nodes(m.rest)), m.chunks)
      BY <1>2, <1>4 DEF HandIsRight
    <2>2. Takes(Cardinality(S), Tail(m.chunks))
      BY <1>1, <1>3, <1>5, <2>1, ChunkTakes
    <2> QED
      BY <1>5, <1>6, <2>2
  <1>20. HandIsRight(files, u, y, allowed)
    <2>1. HasRecords(files, u, y) /\ IsUncut(u) /\ IsCopied(files, u, y)
      BY <1>12 DEF HasRecords, IsUncut, IsCopied, Chunked
    <2>2. MayBeWritten(u.list, allowed) /\ MayBeWritten(u.merge, allowed)
      BY <1>4, <1>12 DEF HandIsRight
    <2> QED
      BY <1>12, <1>16, <1>17, <1>18, <1>19, <2>1, <2>2 DEF HandIsRight
  <1>21. Complete(files, u, y, allowed)
    BY <1>12, <1>15, <1>20 DEF Complete
  <1>22. c = u \/ c = Continue(s)
    BY <1>5, <1>9, <1>11 DEF AfterChunk
  <1>23. Continue(s) = Continue(u)
    <2>1. CASE s.chunks # << >>
      <3>1. [s EXCEPT !.pc = "name", !.fresh = TRUE] = [u EXCEPT !.pc = "name", !.fresh = TRUE]
        BY <1>10, <1>11 DEF Merges
      <3> QED
        BY <1>10, <1>12, <2>1, <3>1 DEF Continue
    <2>2. CASE s.chunks = << >> /\ s.then = "switch"
      <3>1. [s EXCEPT !.pc = "switch", !.merge = Empty] = [u EXCEPT !.pc = "switch", !.merge = Empty]
        BY <1>10, <1>11 DEF Merges
      <3> QED
        BY <1>10, <1>12, <2>2, <3>1 DEF Continue
    <2>3. CASE s.chunks = << >> /\ s.then = "done"
      <3>1. [s EXCEPT !.pc = "end"] = [u EXCEPT !.pc = "end"]
        BY <1>10, <1>11 DEF Merges
      <3> QED
        BY <1>10, <1>12, <2>3, <3>1 DEF Continue
    <2>4. s.then \in {"switch", "done"}
      BY <1>3, <1>10 DEF Merges
    <2> QED
      BY <2>1, <2>2, <2>3, <2>4
  <1>24. Complete(files, Continue(u), y, allowed)
    BY <1>3, <1>12, <1>21, ContinueComplete
  <1> QED
    BY <1>21, <1>22, <1>23, <1>24

LEMMA PlaceComplete ==
  ASSUME IInv, InOrder(files, Table, m, name), Complete(files, m, name, allowed),
         Place \/ Register
  PROVE  Complete(files', m', name', allowed')
  <1>1. m.pc \in {"place", "register"} /\ m' = AfterChunk /\ files' = files /\ allowed' = allowed
    BY DEF Place, Register
  <1>2. PICK c : c = AfterChunk
    OBVIOUS
  <1>3. Complete(files, c, name', allowed)
    BY <1>1, <1>2, AfterChunkComplete
  <1> QED
    BY <1>1, <1>2, <1>3

LEMMA UnlockComplete ==
  ASSUME IInv, InOrder(files, Table, m, name), Complete(files, m, name, allowed), Unlock
  PROVE  Complete(files', m', name', allowed')
  <1>1. m.pc = "unlock" /\ m' = Continue(m) /\ files' = files /\ allowed' = allowed
    BY DEF Unlock
  <1>2. m \in Merges /\ m.then # "newlist"
    BY <1>1, MergeIs, OrderIs DEF Walks
  <1> QED
    BY <1>1, <1>2, ContinueComplete

(* The memtable's nodes are what the files have. *)
LEMMA EndMergeComplete ==
  ASSUME IInv, Complete(files, m, name, allowed), EndMerge
  PROVE  Complete(files', m', name', allowed')
  <1>1. m.pc = "end" /\ m' = NoMerge /\ files' = files
    BY DEF EndMerge
  <1>2. PICK al : al = allowed'
    OBVIOUS
  <1>3. \A k \in Keys : al[k] = CASE m.list[k] = Nil     -> allowed[k]
                                  [] m.list[k] = Deleted -> {Nil}
                                  [] OTHER               -> {m.list[k]}
    BY <1>2 DEF EndMerge
  <1>4. /\ FilesAnswer(files, m, allowed) /\ HandIsRight(files, m, name, allowed)
        /\ Hand(m) = Empty /\ m.list \in Rows /\ m.merge \in Rows
    BY <1>1, MergeIs DEF Complete, Hand, Chunked
  <1>5. ASSUME NEW k \in Nodes(m.list) PROVE Settled(files, m, k) /\ k \in Keys /\ m.list[k] # Nil
    <2>1. k \in Keys /\ m.list[k] # Nil /\ Empty[k] = Nil
      BY DEF Nodes, Empty
    <2>2. k \in Passed(m)
      BY <1>1 DEF Passed, Walking, Chunked
    <2> QED
      BY <1>4, <2>1, <2>2 DEF HandIsRight, IsMerged
  <1>6. \A k \in Keys : m.list[k] # Nil => k \in Nodes(m.list)
    BY DEF Nodes
  <1>7. ASSUME NEW n \in Oks(files), NEW k \in Nodes(files[n].recs)
        PROVE  files[n].recs[k] \in al[k]
    <2>1. n \in Names /\ k \in Keys
      BY NodesAreKeys DEF Oks
    <2>2. files[n].recs[k] # Nil /\ files[n].recs[k] # Deleted /\ files[n].recs[k] \in allowed[k]
      BY <1>4, <2>1, RecordsAre DEF FilesAnswer
    <2>3. CASE m.list[k] = Nil
      <3>1. al[k] = allowed[k]
        BY <1>3, <2>1, <2>3 DEF Nil, Deleted
      <3> QED
        BY <2>2, <3>1
    <2>4. CASE m.list[k] # Nil
      <3>1. files[n].recs[k] \in {Nil, m.list[k]}
        BY <1>5, <1>6, <2>1, <2>4 DEF Settled
      <3>2. files[n].recs[k] = m.list[k] /\ m.list[k] # Deleted
        BY <2>2, <3>1
      <3>3. al[k] = {m.list[k]}
        BY <1>3, <2>1, <2>4, <3>2
      <3> QED
        BY <3>2, <3>3
    <2> QED
      BY <2>3, <2>4
  <1>8. ASSUME NEW k \in Keys, InNone(files, k) PROVE Nil \in al[k]
    <2>1. \A v : InSome(files, k, v) => v = Nil
      BY <1>8 DEF InNone, InSome
    <2>2. CASE m.list[k] = Nil
      <3>1. k \notin Adds(m.merge)
        <4>1. k \in Adds(m.merge) => m.merge[k] # Nil /\ Empty[k] = Nil
          BY DEF Adds, Empty
        <4>2. k \in Adds(m.merge) => Empty[k] = m.merge[k] \/ InSome(files, k, m.merge[k])
          BY <1>1, <1>4 DEF HandIsRight, IsKept
        <4> QED
          BY <2>1, <4>1, <4>2
      <3>2. Nil \in allowed[k]
        BY <1>1, <1>4, <1>8, <3>1 DEF FilesAnswer
      <3>3. al[k] = allowed[k]
        BY <1>3, <2>2 DEF Nil, Deleted
      <3> QED
        BY <3>2, <3>3
    <2>3. CASE m.list[k] = Deleted
      <3>1. Nil # Deleted
        BY DEF Nil, Deleted
      <3> QED
        BY <1>3, <2>3, <3>1
    <2>4. CASE m.list[k] # Nil /\ m.list[k] # Deleted
      BY <1>5, <1>6, <2>1, <2>4 DEF Settled
    <2> QED
      BY <2>2, <2>3, <2>4
  <1>9. m'.pc = "idle" /\ m'.merge = Empty
    BY <1>1 DEF NoMerge
  <1>10. FilesAnswer(files, m', al)
    BY <1>4, <1>7, <1>8 DEF FilesAnswer
  <1> QED
    BY <1>1, <1>2, <1>9, <1>10 DEF Complete

-----------------------------------------------------------------------------
(* Lookups, deaths and loads *)

(* The process ends with its files as they are. *)
LEMMA EndComplete ==
  ASSUME IInv, Complete(files, m, name, allowed), NEW named, EndProcess(files, named),
         \/ \E n \in Names : files[n].state = "torn"
         \/ m.pc # "down" /\ Homeless = {}
  PROVE  Complete(files', m', name', allowed')
  <1>1. files' = files /\ allowed' = allowed /\ m'.pc = "down" /\ m'.merge = Empty
    BY DEF EndProcess, NoMerge
  <1>2. FilesAnswer(files, m, allowed)
    BY DEF Complete
  <1>3. ASSUME NEW k \in Keys, InNone(files, k), m.pc # "down", Homeless = {}
        PROVE  Nil \in allowed[k]
    <2>1. \A n \in Names : files[n].recs[k] = Nil
      <3>1. Empty[k] = Nil
        BY DEF Empty
      <3> QED
        BY <1>2, <1>3, <3>1 DEF FilesAnswer, InNone
    <2>2. k \in Adds(m.merge) => m.merge[k] \notin {Nil, Deleted}
      BY DEF Adds
    <2>3. k \in Adds(m.merge) => Nil \in allowed[k]
      BY <1>3, <2>1, <2>2 DEF Homeless
    <2> QED
      BY <1>2, <1>3, <2>3 DEF FilesAnswer
  <1>4. FilesAnswer(files, m', allowed)
    BY <1>1, <1>2, <1>3 DEF FilesAnswer
  <1> QED
    BY <1>1, <1>4 DEF Complete

LEMMA GetoffComplete ==
  ASSUME IInv, Complete(files, m, name, allowed), Good', Getoff
  PROVE  Complete(files', m', name', allowed')
  <1>1. CASE GetLsn \/ GetLock \/ GetDone
    BY <1>1, SameComplete DEF GetLsn, GetLock, GetDone, unchangedByGet
  <1>2. CASE GetName
    <2>1. /\ files' = files /\ m' = m /\ allowed' = allowed
          /\ hazards' = IF m.pc # "idle" /\ name' # name THEN hazards \cup {"clobbered"}
                        ELSE hazards
      BY <1>2 DEF GetName, unchangedByGet
    <2>2. m.pc = "idle" \/ name' = name
      <3>1. "clobbered" \notin hazards'
        BY DEF Good
      <3> QED
        BY <2>1, <3>1
    <2> QED
      BY <2>1, <2>2, SameComplete
  <1>3. CASE GetRead
    <2>1. \/ files' = files /\ m' = m /\ allowed' = allowed /\ name' = name
          \/ files[name].state = "torn" /\ \E named : EndProcess(files, named)
      BY <1>3 DEF GetRead, unchangedByGet
    <2>2. r.pc \in {"read", "locked"}
      BY <1>3 DEF GetRead
    <2>3. name \in Names
      BY <2>2 DEF IInv, ReadTyped
    <2> QED
      BY <2>1, <2>3, SameComplete, EndComplete
  <1> QED
    BY <1>1, <1>2, <1>3 DEF Getoff

LEMMA DieComplete ==
  ASSUME IInv, Complete(files, m, name, allowed), Whole', Die
  PROVE  Complete(files', m', name', allowed')
  <1>1. PICK named : /\ named = (IF IsTorn THEN {"torn"} ELSE {})
                                \cup (IF Homeless # {} THEN {"homeless"} ELSE {})
                     /\ EndProcess(files, named)
    BY DEF Die
  <1>2. Homeless = {}
    BY <1>1 DEF EndProcess, Whole
  <1>3. m.pc # "down"
    BY DEF Die, Running
  <1> QED
    BY <1>1, <1>2, <1>3, EndComplete

LEMMA LoadComplete ==
  ASSUME IInv, Complete(files, m, name, allowed), Load
  PROVE  Complete(files', m', name', allowed')
  <1>1. m.pc = "down" /\ ~ IsTorn /\ m' = NoMerge /\ files' = files /\ allowed' = allowed
    BY DEF Load
  <1>2. m'.pc = "idle" /\ m'.merge = Empty /\ m.merge = Empty /\ FilesAnswer(files, m, allowed)
    BY <1>1 DEF NoMerge, Complete
  <1>3. FilesAnswer(files, m', allowed)
    BY <1>1, <1>2 DEF FilesAnswer, IsTorn
  <1> QED
    BY <1>1, <1>2, <1>3 DEF Complete

-----------------------------------------------------------------------------
(* Every step *)

LEMMA CompleteAtTheStart ==
  Init => CInv
  <1> SUFFICES ASSUME Init PROVE Complete(files, m, name, allowed)
    BY DEF CInv
  <1>1. Oks(files) = {} /\ \A n \in Names : files[n].recs = Empty
    BY DEF Init, Oks, Absent
  <1>2. \A k \in Keys : Nil \in allowed[k]
    BY DEF Init
  <1>3. m.pc = "idle" /\ m.merge = Empty
    BY DEF Init, NoMerge
  <1> QED
    BY <1>1, <1>2, <1>3 DEF Complete, FilesAnswer

LEMMA MergeKeepsComplete ==
  ASSUME IInv, InOrder(files, Table, m, name), Complete(files, m, name, allowed), Good', Merge
  PROVE  Complete(files', m', name', allowed')
  BY WalkComplete, WalkDoneComplete, LinesComplete, ReadMmapComplete, OpenComplete, WriteComplete,
     GrowComplete, PlaceComplete, UnlockComplete, EndMergeComplete DEF Merge

LEMMA StepsKeepComplete ==
  IInv /\ OInv /\ CInv /\ [Next]_vars => CInv'
  <1> SUFFICES ASSUME IInv, OInv, CInv, [Next]_vars, Whole'
               PROVE  Complete(files', m', name', allowed')
    BY DEF CInv
  <1>1. Whole /\ Good /\ Good'
    BY HazardsStay DEF Whole, Good
  <1>2. InOrder(files, Table, m, name) /\ Complete(files, m, name, allowed)
    BY <1>1 DEF OInv, CInv
  <1>3. UNCHANGED vars => Complete(files', m', name', allowed')
    BY <1>2, SameComplete DEF vars, shared
  <1>4. ASSUME NEW k \in Keys, Get(k) PROVE Complete(files', m', name', allowed')
    BY <1>2, <1>4, SameComplete DEF Get, unchangedByGet
  <1>5. Refused \/ Quiet => UNCHANGED vars
    BY DEF Refused, Quiet
  <1> QED
    BY <1>1, <1>2, <1>3, <1>4, <1>5, StartMergeComplete, MergeKeepsComplete, GetoffComplete,
       DieComplete, LoadComplete DEF Next

(* Between merges only the file that a key belongs to can have it. *)
LEMMA NoneButTheFound ==
  ASSUME IInv, InOrder(files, Table, m, name), m.pc = "idle", NEW k \in Keys,
         NEW n \in Oks(files), files[n].recs[k] # Nil
  PROVE  MetaGet(k) # NULL /\ n = meta[MetaGet(k)].name
  <1>1. /\ m.pc \notin Written \cup {"down"} /\ m.pc # "place" /\ Table = meta
        /\ Table \in Seq(Entries)
    BY MergeIs DEF Written, Table
  <1>2. FilesApart(files) /\ Sorted(Table)
    BY <1>1, OrderIs
  <1>3. PICK i : i = Found(Table, k)
    OBVIOUS
  <1>4. /\ MetaGet(k) = i
        /\ i = NULL => \A j \in 1 .. Len(Table) : Table[j].end < k
        /\ i # NULL => /\ i \in 1 .. Len(Table) /\ k <= Table[i].end
                       /\ \A j \in 1 .. Len(Table) : j < i => Table[j].end < k
                       /\ \A j \in 1 .. Len(Table) : i < j => Table[i].end < Table[j].end
    BY <1>1, <1>2, <1>3, MetaGetIsFound, FoundParts
  <1>5. PICK j \in 1 .. Len(Table) : Table[j].name = n /\ files[n].end = Table[j].end
    BY <1>1, TableHasFiles
  <1>6. k \in Held(files, n) /\ k \in Int /\ Table[j].end \in Int
    BY <1>1, <1>5, EntriesEnd, KeysAreFinite DEF Held, Nodes
  <1>7. k <= Table[j].end
    BY <1>2, <1>5, <1>6 DEF FilesApart
  <1>8. i # NULL
    BY <1>4, <1>5, <1>6, <1>7
  <1>9. i \in Int /\ j \in Int /\ ~ j < i
    BY <1>4, <1>5, <1>6, <1>7, <1>8
  <1>10. CASE i < j
    <2>1. PICK a : a = Table[i].name
      OBVIOUS
    <2>2. a \in Oks(files) /\ files[a].end = Table[i].end /\ Table[i].end \in Int
      BY <1>1, <1>4, <1>8, <2>1, TableHasFiles, EntriesEnd
    <2>3. Table[i].end < Table[j].end /\ k <= Table[i].end
      BY <1>4, <1>5, <1>8, <1>10
    <2>4. a # n
      BY <1>5, <1>6, <2>2, <2>3
    <2>5. Apart(files, a, Held(files, n))
      BY <1>2, <2>2, <2>4 DEF FilesApart
    <2>6. files[a].end < k \/ files[n].end < files[a].end
      BY <1>6, <2>5 DEF Apart, Below, Above, Held
    <2> QED
      BY <1>5, <1>6, <2>2, <2>3, <2>6
  <1>11. CASE i = j
    BY <1>1, <1>4, <1>5, <1>8, <1>11
  <1> QED
    BY <1>9, <1>10, <1>11

LEMMA FoundIsAllowed ==
  ASSUME IInv, InOrder(files, Table, m, name), Complete(files, m, name, allowed),
         m.pc = "idle", NEW k \in Keys
  PROVE  Find(k) \in allowed[k]
  <1>1. FilesAnswer(files, m, allowed) /\ m.merge = Empty
    BY DEF Complete
  <1>2. PICK i : i = MetaGet(k)
    OBVIOUS
  <1>3. i # NULL => meta[i].name \in Oks(files)
    <2>1. m.pc \notin Written \cup {"down"} /\ Table = meta
      BY DEF Written, Table
    <2>2. i \in 0 .. Len(Table) /\ i \in Nat /\ Len(Table) \in Nat
      BY <1>2, MetaGetIsAnEntry, MergeIs DEF IInv
    <2>3. i # NULL => i \in 1 .. Len(Table)
      BY <2>2 DEF NULL
    <2> QED
      BY <2>1, <2>3, TableHasFiles
  <1>4. CASE i # NULL /\ files[meta[i].name].recs[k] # Nil
    <2>1. PICK n : n = meta[i].name
      OBVIOUS
    <2>2. n \in Oks(files) /\ k \in Nodes(files[n].recs)
      BY <1>3, <1>4, <2>1 DEF Nodes
    <2>3. files[n].recs[k] \in allowed[k]
      BY <1>1, <2>2 DEF FilesAnswer
    <2>4. Find(k) = files[n].recs[k]
      BY <1>2, <1>4, <2>1 DEF Find
    <2> QED
      BY <2>3, <2>4
  <1>5. CASE ~ (i # NULL /\ files[meta[i].name].recs[k] # Nil)
    <2>1. InNone(files, k)
      BY <1>2, <1>5, NoneButTheFound DEF InNone
    <2>2. Nil \in allowed[k]
      BY <1>1, <2>1, EmptyHasNothing DEF FilesAnswer
    <2>3. Find(k) = Nil
      BY <1>2, <1>5 DEF Find
    <2> QED
      BY <2>2, <2>3
  <1> QED
    BY <1>4, <1>5

(* Between merges a lookup finds what the last merges wrote, and after a   *)
(* death in the middle of one what was there or what was being written:    *)
(* _flush_merge_list, _write_mmap and meta (silopit.c, meta.c) lose no     *)
(* record, however the chunks are cut and whenever the process ends,       *)
(* unless one of the named events has happened.                            *)
THEOREM MergesStayComplete ==
  Spec => []MergesAreComplete
  <1>1. Init => OInv /\ CInv
    BY OrderAtTheStart, CompleteAtTheStart
  <1>2. IInv /\ OInv /\ CInv /\ [Next]_vars => OInv' /\ CInv'
    BY StepsKeepOrder, StepsKeepComplete
  <1>3. IInv /\ OInv /\ CInv => MergesAreComplete
    <2> SUFFICES ASSUME IInv, OInv, CInv, Finished, Whole
                 PROVE  \A k \in Keys : Find(k) \in allowed[k]
      BY DEF MergesAreComplete, Whole, Good
    <2> QED
      BY FoundIsAllowed DEF OInv, CInv, Whole, Finished
  <1> QED
    BY <1>1, <1>2, <1>3, InvariantHolds, PTL DEF Spec

-----------------------------------------------------------------------------
(* Lookups beside the merge *)

(* A list is merged with a file, and no file has been written over yet.    *)
Waits(s) == \/ s.pc = "walk"
            \/ s.pc \in {"announce", "lock", "open"} /\ ~ s.fresh

(* Then a key that is in no file may be answered by nothing; and so may    *)
(* one of a new file that the table has not got yet.                       *)
Answers(fs, s, x, al) ==
  /\ Waits(s) => \A k \in Keys : InNone(fs, k) => Nil \in al[k]
  /\ s.pc \in {"grow", "place"} /\ s.merge = Empty =>
       \A k \in Nodes(fs[x].recs) : Nil \in al[k]

(* A file that is in the table is written over under the mutex, which one  *)
(* thread has at a time.                                                   *)
WritesOver(s) == s.pc \in {"announce", "lock", "open", "write", "register"} /\ ~ s.fresh
HasMutex(s)   == s.pc = "unlock" \/ (WritesOver(s) /\ s.pc \notin {"announce", "lock"})
Locking(s, mx, q) ==
  /\ WritesOver(s) => s.lsn # NoLsn
  /\ HasMutex(s) => mx = "merge"
  /\ q.pc = "locked" => mx = "get"

LInv == Whole => Answers(files, m, name, allowed) /\ Locking(m, mutex, r)

(* All that a step of either thread starts from. *)
AllInv == /\ IInv /\ InOrder(files, Table, m, name) /\ Complete(files, m, name, allowed)
          /\ Answers(files, m, name, allowed) /\ Locking(m, mutex, r)

(* A step to where nothing is promised of the merge. *)
LEMMA AwayKeepsAnswers ==
  ASSUME Locking(m, mutex, r),
         m'.pc \in {"idle", "down", "name", "switch", "read", "end"},
         (mutex' = mutex /\ r'.pc = r.pc) \/ r'.pc # "locked"
  PROVE  Answers(files', m', name', allowed') /\ Locking(m', mutex', r')
  BY DEF Answers, Waits, Locking, WritesOver, HasMutex

LEMMA StartMergeAnswers ==
  ASSUME AllInv, Complete(files', m', name', allowed'), NEW t \in Memtables, StartMerge(t)
  PROVE  Answers(files', m', name', allowed') /\ Locking(m', mutex', r')
  <1>1. m.pc = "idle" /\ mutex' = mutex /\ r' = r
    BY DEF StartMerge, shared
  <1>2. PICK list : m' = IF meta = << >> THEN FlushNewList([NoMerge EXCEPT !.list = list], list)
                         ELSE [NoMerge EXCEPT !.list = list, !.pc = "walk",
                                              !.cur = After(list, Nil)]
    BY DEF StartMerge
  <1>3. CASE meta = << >>
    <2>1. m'.pc = "name"
      BY <1>2, <1>3 DEF FlushNewList, Flush, NoMerge
    <2> QED
      BY <1>1, <2>1, AwayKeepsAnswers DEF AllInv
  <1>4. CASE meta # << >>
    <2>1. m'.pc = "walk" /\ m'.merge = Empty
      BY <1>2, <1>4 DEF NoMerge
    <2>2. FilesAnswer(files', m', allowed')
      BY DEF Complete
    <2>3. \A k \in Keys : InNone(files', k) => Nil \in allowed'[k]
      BY <2>1, <2>2, EmptyHasNothing DEF FilesAnswer
    <2>4. Answers(files', m', name', allowed')
      BY <2>1, <2>3 DEF Answers
    <2> QED
      BY <1>1, <2>1, <2>4 DEF AllInv, Locking, WritesOver, HasMutex
  <1> QED
    BY <1>3, <1>4

(* A node of the table has a number. *)
LEMMA LsnsAre ==
  ASSUME IInv, NEW i,
         \/ i = m.info /\ i >= 1
         \/ \E k \in Keys : i = MetaGet(k) /\ i # NULL
  PROVE  meta[i].lsn # NoLsn
  <1>1. i \in 1 .. Len(Table)
    <2>1. m.info \in Nat /\ m.info <= Len(Table) /\ Len(Table) \in Nat
      BY MergeIs
    <2>2. \A k \in Keys : MetaGet(k) \in 0 .. Len(Table)
      BY MetaGetIsAnEntry DEF IInv
    <2> QED
      BY <2>1, <2>2 DEF NULL
  <1>2. meta[i] \in Entries
    BY <1>1, TableIsWhole DEF IInv
  <1> QED
    BY <1>2 DEF Entries, NoLsn

(* A list goes to its file, or the walk goes on. *)
LEMMA WaitingKeepsAnswers ==
  ASSUME AllInv, Waits(m), files' = files, allowed' = allowed, mutex' = mutex, r' = r,
         m'.pc \in {"walk", "announce", "lock"}, m'.pc # "walk" => m'.lsn # NoLsn
  PROVE  Answers(files', m', name', allowed') /\ Locking(m', mutex', r')
  BY DEF AllInv, Answers, Locking, WritesOver, HasMutex

LEMMA WalkAnswers ==
  ASSUME AllInv, Good', Walk
  PROVE  Answers(files', m', name', allowed') /\ Locking(m', mutex', r')
  <1>1. /\ m.pc = "walk" /\ m.cur # Nil /\ files' = files /\ name' = name
        /\ allowed' = allowed /\ mutex' = mutex /\ r' = r
    BY DEF Walk, shared, unchangedByMerge
  <1>2. m \in Merges /\ Waits(m) /\ m.cur \in Keys
    BY <1>1, MergeIs, NodesAreKeys DEF AllInv, Waits, OnItsWay
  <1>3. PICK info : info = MetaGet(m.cur)
    OBVIOUS
  <1>4. CASE info = NULL /\ m.merge = Empty
    <2>1. m' = FlushNewList(m, RestOfList)
      BY <1>3, <1>4 DEF Walk
    <2>2. m'.pc = "name"
      BY <1>2, <2>1 DEF FlushNewList, Flush, Merges
    <2> QED
      BY <1>1, <2>2, AwayKeepsAnswers DEF AllInv
  <1>5. CASE info = NULL /\ m.merge # Empty
    <2>1. PICK first : first = After(m.list, Nil)
      OBVIOUS
    <2>2. m.cur = first
      <3>1. "tail" \notin hazards'
        BY DEF Good
      <3> QED
        BY <1>3, <1>5, <2>1, <3>1 DEF Walk
    <2>3. first < m.cur
      BY <1>1, <1>5, <2>1, OrderIs DEF AllInv, Walks
    <2>4. m.cur \in Int /\ m.cur < m.cur
      BY <1>2, <2>2, <2>3, KeysAreFinite
    <2> QED
      BY <2>4
  <1>6. CASE info # NULL /\ name = meta[info].name
    <2>1. m' = IF m.merge = Empty THEN [m EXCEPT !.pc = "read", !.info = info]
               ELSE [m EXCEPT !.merge = Inserted(m.merge), !.info = info,
                              !.cur = After(m.list, m.cur)]
      BY <1>3, <1>6 DEF Walk
    <2>2. m'.pc \in {"read", "walk"}
      BY <1>1, <1>2, <2>1 DEF Merges
    <2> QED
      BY <1>1, <1>2, <2>2, AwayKeepsAnswers, WaitingKeepsAnswers DEF AllInv
  <1>7. CASE info # NULL /\ name # meta[info].name
    <2>1. PICK s : s = [m EXCEPT !.info = info]
      OBVIOUS
    <2>2. m' = IF m.merge = Empty THEN [s EXCEPT !.pc = "switch"]
               ELSE Flush(s, m.merge, meta[info].lsn, FALSE, "switch")
      BY <1>3, <1>7, <2>1 DEF Walk
    <2>3. meta[info].lsn # NoLsn
      BY <1>2, <1>3, <1>7, LsnsAre DEF AllInv
    <2>4. m'.pc = "switch" \/ (m'.pc = "announce" /\ m'.lsn # NoLsn)
      <3>1. CASE m.merge = Empty
        BY <1>2, <2>1, <2>2, <3>1 DEF Merges
      <3>2. CASE m.merge # Empty
        <4>1. PICK lsn, nodes, then : lsn = meta[info].lsn /\ nodes = m.merge /\ then = "switch"
          OBVIOUS
        <4>2. PICK fresh : fresh = FALSE
          OBVIOUS
        <4>3. m' = Flush(s, nodes, lsn, fresh, then)
          BY <2>2, <3>2, <4>1, <4>2
        <4> QED
          BY <1>2, <2>1, <2>3, <4>1, <4>2, <4>3 DEF Flush, Merges
      <3> QED
        BY <3>1, <3>2
    <2> QED
      BY <1>1, <1>2, <2>4, AwayKeepsAnswers, WaitingKeepsAnswers DEF AllInv
  <1> QED
    BY <1>4, <1>5, <1>6, <1>7


LEMMA WalkDoneAnswers ==
  ASSUME AllInv, WalkDone
  PROVE  Answers(files', m', name', allowed') /\ Locking(m', mutex', r')
  <1>1. /\ m.pc = "walk" /\ m.cur = Nil /\ files' = files /\ name' = name
        /\ allowed' = allowed /\ mutex' = mutex /\ r' = r
    BY DEF WalkDone, shared, unchangedByMerge
  <1>2. m \in Merges /\ Waits(m) /\ m.info >= 1
    BY <1>1, MergeIs DEF AllInv, Waits, OnItsWay
  <1>3. meta[m.info].lsn # NoLsn
    BY <1>2, LsnsAre DEF AllInv
  <1>4. PICK lsn, nodes, then : lsn = meta[m.info].lsn /\ nodes = m.merge /\ then = "done"
    OBVIOUS
  <1>5. PICK fresh : fresh = FALSE
    OBVIOUS
  <1>6. m' = Flush(m, nodes, lsn, fresh, then)
    BY <1>4, <1>5 DEF WalkDone
  <1>7. m'.pc = "announce" /\ m'.lsn # NoLsn
    BY <1>2, <1>3, <1>4, <1>5, <1>6, FlushShape
  <1> QED
    BY <1>1, <1>2, <1>7, WaitingKeepsAnswers

LEMMA LinesAnswers ==
  ASSUME AllInv, Switch \/ NameFile \/ Announce \/ Lock
  PROVE  Answers(files', m', name', allowed') /\ Locking(m', mutex', r')
  <1>1. m \in Merges
    BY MergeIs DEF AllInv
  <1>2. /\ m.pc = "name" => m.fresh
        /\ m.pc \in {"announce", "lock"} => ~ m.fresh
    <2>1. m.pc # "down" => Walks(m)
      BY OrderIs DEF AllInv
    <2> QED
      BY <2>1 DEF Walks
  <1>3. CASE Switch
    <2>1. m'.pc = "read" /\ mutex' = mutex /\ r' = r
      BY <1>1, <1>3 DEF Switch, Merges, unchangedByMerge
    <2> QED
      BY <2>1, AwayKeepsAnswers DEF AllInv
  <1>4. CASE NameFile
    <2>1. /\ m'.pc = "open" /\ m'.fresh = m.fresh /\ m.pc = "name"
          /\ mutex' = mutex /\ r' = r
      BY <1>1, <1>4 DEF NameFile, Merges, unchangedByMerge
    <2> QED
      BY <1>2, <2>1 DEF AllInv, Answers, Waits, Locking, WritesOver, HasMutex
  <1>5. CASE Announce
    <2>1. /\ m'.pc = "lock" /\ m'.lsn = m.lsn /\ m.pc = "announce"
          /\ files' = files /\ allowed' = allowed /\ mutex' = mutex /\ r' = r
      BY <1>1, <1>5 DEF Announce, Merges, unchangedByMerge
    <2>2. Waits(m) /\ m'.lsn # NoLsn
      BY <1>2, <2>1 DEF AllInv, Waits, Locking, WritesOver
    <2> QED
      BY <2>1, <2>2, WaitingKeepsAnswers
  <1>6. CASE Lock
    <2>1. /\ m'.pc = "open" /\ m'.lsn = m.lsn /\ m'.fresh = m.fresh /\ m.pc = "lock"
          /\ files' = files /\ allowed' = allowed /\ r' = r
          /\ mutex = "free" /\ mutex' = "merge"
      BY <1>1, <1>6 DEF Lock, Take, Merges, unchangedByMerge
    <2> QED
      BY <1>2, <2>1 DEF AllInv, Answers, Waits, Locking, WritesOver, HasMutex
  <1> QED
    BY <1>3, <1>4, <1>5, <1>6

(* Where the process ends, nothing is promised. *)
LEMMA EndKeepsAnswers ==
  ASSUME AllInv, NEW left, NEW named, EndProcess(left, named)
  PROVE  Answers(files', m', name', allowed') /\ Locking(m', mutex', r')
  <1>1. m'.pc = "down" /\ r'.pc = "idle"
    BY DEF EndProcess, NoMerge, NoRead
  <1> QED
    BY <1>1, AwayKeepsAnswers DEF AllInv

(* What a file has is in the list before it is gone by. *)
LEMMA ReadMmapAnswers ==
  ASSUME AllInv, ReadMmap
  PROVE  Answers(files', m', name', allowed') /\ Locking(m', mutex', r')
  <1>1. m.pc = "read" /\ m \in Merges
    BY MergeIs DEF AllInv, ReadMmap
  <1>2. CASE \E left, named : EndProcess(left, named)
    BY <1>2, EndKeepsAnswers
  <1>3. CASE /\ m' = [m EXCEPT !.pc = "walk", !.cur = After(m.list, m.cur),
                        !.merge = Inserted(files[name].recs)]
             /\ UNCHANGED <<files, meta, shared, allowed, hazards, unchangedByMerge>>
    <2>1. /\ m'.pc = "walk" /\ files' = files /\ allowed' = allowed /\ mutex' = mutex /\ r' = r
      BY <1>1, <1>3 DEF Merges, shared, unchangedByMerge
    <2>2. FilesAnswer(files, m, allowed) /\ m.merge = Empty
      BY <1>1 DEF AllInv, Complete
    <2>3. \A k \in Keys : InNone(files, k) => Nil \in allowed[k]
      BY <1>1, <2>2, EmptyHasNothing DEF FilesAnswer
    <2> QED
      BY <2>1, <2>3 DEF AllInv, Answers, Locking, WritesOver, HasMutex
  <1> QED
    BY <1>2, <1>3 DEF ReadMmap

LEMMA OpenAnswers ==
  ASSUME AllInv, Open
  PROVE  Answers(files', m', name', allowed') /\ Locking(m', mutex', r')
  <1>1. CASE \E left, named : EndProcess(left, named)
    BY <1>1, EndKeepsAnswers
  <1>2. CASE /\ m.pc = "open" /\ m' = [m EXCEPT !.pc = "write", !.fd = name]
             /\ UNCHANGED <<meta, shared, allowed, hazards, unchangedByMerge>>
    <2>1. m \in Merges
      BY MergeIs DEF AllInv
    <2>2. /\ m'.pc = "write" /\ m'.fresh = m.fresh /\ m'.lsn = m.lsn
          /\ mutex' = mutex /\ r' = r
      BY <1>2, <2>1 DEF Merges, shared, unchangedByMerge
    <2> QED
      BY <1>2, <2>2 DEF AllInv, Answers, Waits, Locking, WritesOver, HasMutex
  <1> QED
    BY <1>1, <1>2 DEF Open

(* The additions to a new file were in no other. *)
LEMMA WriteAnswers ==
  ASSUME AllInv, Write
  PROVE  Answers(files', m', name', allowed') /\ Locking(m', mutex', r')
  <1>1. /\ m.pc = "write" /\ name' = name /\ allowed' = allowed /\ mutex' = mutex /\ r' = r
        /\ m' = [m EXCEPT !.pc = IF m.fresh /\ ~ IsRegistered(meta, EndOf(Chunk))
                                 THEN "grow" ELSE "register"]
    BY DEF Write, shared, unchangedByMerge
  <1>2. m \in Merges /\ files \in [Names -> Blocks] /\ OnItsWay(m)
    BY MergeIs DEF AllInv
  <1>3. m.fd = name /\ files[name].state = "torn" /\ name \in Names /\ m.chunks # << >>
    BY <1>1, <1>2, MergeIs, OrderIs DEF AllInv, Stands, OnItsWay, Chunked, HasName, Named, Written
  <1>4. /\ m'.pc \in {"grow", "register"} /\ (m'.pc = "grow" => m.fresh)
        /\ m'.fresh = m.fresh /\ m'.lsn = m.lsn /\ m'.merge = m.merge
    BY <1>1, <1>2 DEF Merges
  <1>5. ASSUME m.fresh, m.merge = Empty, NEW k \in Nodes(files'[name].recs)
        PROVE  Nil \in allowed[k]
    <2>1. files'[name].recs = Only(Chunk, Adds(Chunk))
      BY <1>2, <1>3 DEF Write
    <2>2. k \in Keys /\ Only(Chunk, Adds(Chunk))[k] # Nil
      BY <1>5, <2>1 DEF Nodes
    <2>3. k \in Nodes(m.rest)
      BY <1>3, <2>2, ChunkHas DEF AllInv
    <2>4. InNone(files, k)
      <3> SUFFICES ASSUME NEW n \in Oks(files), files[n].recs[k] # Nil PROVE FALSE
        BY DEF InNone
      <3>1. FilesApart(files) /\ HandApart(files, Table, m, name)
        BY <1>1, OrderIs DEF AllInv
      <3>2. InHand(m) = Nodes(m.rest) /\ ~ Rewriting(m) /\ m.pc \in Chunked
        BY <1>1, <1>5 DEF InHand, Rewriting, Chunked
      <3>3. n # name
        BY <1>3 DEF Oks
      <3>4. Apart(files, n, Nodes(m.rest))
        BY <3>1, <3>2, <3>3 DEF HandApart, Fresh
      <3>5. k \in Held(files, n)
        BY <2>2 DEF Held, Nodes
      <3>6. k <= files[n].end /\ files[n].end \in Held(files, n)
        BY <3>1, <3>5 DEF FilesApart, Held
      <3>7. files[n].end \in Int /\ k \in Int
        BY <2>2, <3>6, HeldAreNumbers, KeysAreFinite DEF AllInv
      <3>8. files[n].end < k \/ k < k
        BY <2>3, <3>4, <3>5 DEF Apart, Below, Above
      <3> QED
        BY <3>6, <3>7, <3>8
    <2>5. FilesAnswer(files, m, allowed)
      BY DEF AllInv, Complete
    <2> QED
      BY <1>1, <1>5, <2>2, <2>4, <2>5, EmptyHasNothing DEF FilesAnswer
  <1>6. Answers(files', m', name', allowed')
    BY <1>1, <1>4, <1>5 DEF Answers, Waits
  <1>7. Locking(m', mutex', r')
    BY <1>1, <1>4 DEF AllInv, Locking, WritesOver, HasMutex
  <1> QED
    BY <1>6, <1>7

LEMMA GrowAnswers ==
  ASSUME AllInv, Grow
  PROVE  Answers(files', m', name', allowed') /\ Locking(m', mutex', r')
  <1>1. /\ m.pc = "grow" /\ files' = files /\ name' = name /\ allowed' = allowed
        /\ mutex' = mutex /\ r' = r
    BY DEF Grow, shared, unchangedByMerge
  <1>2. PICK at : m' = [m EXCEPT !.pc = "place", !.at = at]
    BY Zenon DEF Grow
  <1>3. m'.pc = "place" /\ m'.merge = m.merge
    BY <1>2, MergeIs DEF AllInv, Merges
  <1> QED
    BY <1>1, <1>3 DEF AllInv, Answers, Waits, Locking, WritesOver, HasMutex

(* A chunk is done: the mutex is still held if its file was written over. *)
LEMMA AfterChunkAnswers ==
  ASSUME AllInv, Place \/ Register
  PROVE  Answers(files', m', name', allowed') /\ Locking(m', mutex', r')
  <1>1. /\ m.pc \in {"place", "register"} /\ m' = AfterChunk /\ mutex' = mutex /\ r' = r
    BY DEF Place, Register, shared, unchangedByMerge
  <1>2. m \in Merges /\ m.chunks # << >> /\ m.then # "newlist"
        /\ (m.pc = "place" => m.fresh) /\ (m.pc = "register" => ~ m.fresh)
    BY <1>1, MergeIs, OrderIs DEF AllInv, OnItsWay, Chunked, Walks
  <1>3. PICK c : c = AfterChunk
    OBVIOUS
  <1>4. c.pc \in {"unlock", "name", "switch", "end"}
    BY <1>2, <1>3, AfterChunkShape
  <1>5. CASE m.pc = "register"
    <2>1. HasMutex(m)
      BY <1>2, <1>5 DEF HasMutex, WritesOver
    <2> QED
      BY <1>1, <1>3, <1>4, <2>1 DEF AllInv, Answers, Waits, Locking, WritesOver, HasMutex
  <1>6. CASE m.pc = "place"
    <2>1. c.pc # "unlock"
      <3>1. PICK s : /\ s = [m EXCEPT !.rest = Only(m.rest, Nodes(m.rest) \ Nodes(Chunk)),
                                    !.chunks = Tail(m.chunks), !.fd = NoName]
                     /\ c = Continue(s)
        BY <1>2, <1>3, <1>6 DEF AfterChunk
      <3>2. s.then = m.then /\ s.then \in {"switch", "newlist", "done"}
        BY <1>2, <3>1 DEF Merges
      <3>3. s.chunks # << >> => c.pc = "name"
        BY <1>2, <3>1 DEF Continue, Merges
      <3>4. s.chunks = << >> => c.pc \in {"switch", "end"}
        BY <1>2, <3>1, <3>2 DEF Continue, Merges
      <3> QED
        BY <3>3, <3>4
    <2> QED
      BY <1>1, <1>3, <1>4, <2>1, AwayKeepsAnswers DEF AllInv
  <1> QED
    BY <1>1, <1>5, <1>6

LEMMA UnlockAnswers ==
  ASSUME AllInv, Unlock
  PROVE  Answers(files', m', name', allowed') /\ Locking(m', mutex', r')
  <1>1. m.pc = "unlock" /\ m' = Continue(m) /\ r' = r
    BY DEF Unlock, unchangedByMerge
  <1>2. m \in Merges /\ m.then # "newlist"
    BY <1>1, MergeIs, OrderIs DEF AllInv, Walks
  <1>3. PICK c : c = Continue(m)
    OBVIOUS
  <1>4. c.pc \in {"name", "switch", "end"}
    BY <1>2, <1>3, ContinueShape
  <1>5. r.pc # "locked"
    BY <1>1 DEF AllInv, Locking, HasMutex
  <1> QED
    BY <1>1, <1>3, <1>4, <1>5, AwayKeepsAnswers DEF AllInv

LEMMA EndMergeAnswers ==
  ASSUME AllInv, EndMerge
  PROVE  Answers(files', m', name', allowed') /\ Locking(m', mutex', r')
  <1>1. m'.pc = "idle" /\ mutex' = mutex /\ r' = r
    BY DEF EndMerge, NoMerge, shared, unchangedByMerge
  <1> QED
    BY <1>1, AwayKeepsAnswers DEF AllInv

LEMMA MergeKeepsAnswers ==
  ASSUME AllInv, Good', Merge
  PROVE  Answers(files', m', name', allowed') /\ Locking(m', mutex', r')
  BY WalkAnswers, WalkDoneAnswers, LinesAnswers, ReadMmapAnswers, OpenAnswers, WriteAnswers,
     GrowAnswers, AfterChunkAnswers, UnlockAnswers, EndMergeAnswers DEF Merge

(* A lookup's own step. *)
LEMMA GetoffAnswers ==
  ASSUME AllInv, Good', Getoff
  PROVE  Answers(files', m', name', allowed') /\ Locking(m', mutex', r')
  <1>1. r \in Reads
    BY ReadIs DEF AllInv
  <1>2. CASE GetName
    <2>1. /\ files' = files /\ m' = m /\ allowed' = allowed /\ mutex' = mutex
          /\ hazards' = IF m.pc # "idle" /\ name' # name THEN hazards \cup {"clobbered"}
                        ELSE hazards
          /\ r' = [r EXCEPT !.pc = "lsn"]
      BY <1>2 DEF GetName, unchangedByGet
    <2>2. m.pc = "idle" \/ name' = name
      <3>1. "clobbered" \notin hazards'
        BY DEF Good
      <3> QED
        BY <2>1, <3>1
    <2>3. r'.pc = "lsn"
      BY <1>1, <2>1 DEF Reads
    <2> QED
      BY <2>1, <2>2, <2>3 DEF AllInv, Answers, Locking
  <1>3. CASE GetLsn
    <2>1. /\ files' = files /\ m' = m /\ allowed' = allowed /\ mutex' = mutex /\ name' = name
          /\ r'.pc \in {"lock", "read"}
      BY <1>1, <1>3 DEF GetLsn, unchangedByGet, Reads
    <2> QED
      BY <2>1 DEF AllInv, Answers, Locking
  <1>4. CASE GetLock
    <2>1. /\ files' = files /\ m' = m /\ allowed' = allowed /\ name' = name
          /\ mutex = "free" /\ mutex' = "get"
      BY <1>4 DEF GetLock, Take, unchangedByGet
    <2> QED
      BY <2>1 DEF AllInv, Answers, Locking
  <1>5. CASE GetRead
    <2>1. CASE \E left, named : EndProcess(left, named)
      BY <2>1, EndKeepsAnswers
    <2>2. CASE /\ r' = [r EXCEPT !.pc = "got", !.off = files[name].recs[r.key]]
               /\ mutex' = IF r.pc = "locked" THEN "free" ELSE mutex
               /\ UNCHANGED <<name, unchangedByGet>>
      <3>1. /\ files' = files /\ m' = m /\ allowed' = allowed /\ name' = name
            /\ r'.pc = "got" /\ (r.pc = "locked" \/ mutex' = mutex)
        BY <1>1, <2>2 DEF unchangedByGet, Reads
      <3> QED
        BY <3>1 DEF AllInv, Answers, Locking
    <2> QED
      BY <1>5, <2>1, <2>2 DEF GetRead
  <1>6. CASE GetDone
    <2>1. /\ files' = files /\ m' = m /\ allowed' = allowed /\ mutex' = mutex /\ name' = name
          /\ r'.pc = "idle"
      BY <1>6 DEF GetDone, unchangedByGet, NoRead
    <2> QED
      BY <2>1 DEF AllInv, Answers, Locking
  <1> QED
    BY <1>2, <1>3, <1>4, <1>5, <1>6 DEF Getoff

LEMMA AnswersAtTheStart ==
  Init => LInv
  <1> SUFFICES ASSUME Init
               PROVE  Answers(files, m, name, allowed) /\ Locking(m, mutex, r)
    BY DEF LInv
  <1>1. m.pc = "idle" /\ r.pc = "idle"
    BY DEF Init, NoMerge, NoRead
  <1> QED
    BY <1>1 DEF Answers, Waits, Locking, WritesOver, HasMutex

LEMMA StepsKeepAnswers ==
  IInv /\ OInv /\ CInv /\ LInv /\ [Next]_vars => LInv'
  <1> SUFFICES ASSUME IInv, OInv, CInv, LInv, [Next]_vars, Whole'
               PROVE  Answers(files', m', name', allowed') /\ Locking(m', mutex', r')
    BY DEF LInv
  <1>1. Whole /\ Good /\ Good'
    BY HazardsStay DEF Whole, Good
  <1>2. AllInv
    BY <1>1 DEF AllInv, OInv, CInv, LInv
  <1>3. Complete(files', m', name', allowed')
    BY StepsKeepComplete DEF CInv
  <1>4. CASE UNCHANGED vars
    BY <1>2, <1>4 DEF vars, shared, AllInv, Answers, Locking
  <1>5. ASSUME NEW k \in Keys, Get(k)
        PROVE  Answers(files', m', name', allowed') /\ Locking(m', mutex', r')
    <2>1. /\ files' = files /\ m' = m /\ allowed' = allowed /\ mutex' = mutex /\ name' = name
          /\ r'.pc # "locked"
      BY <1>5 DEF Get, unchangedByGet, NoRead
    <2> QED
      BY <1>2, <2>1 DEF AllInv, Answers, Locking
  <1>6. CASE Die
    BY <1>2, <1>6, EndKeepsAnswers DEF Die
  <1>7. CASE Load
    <2>1. m'.pc = "idle" /\ mutex' = mutex /\ r' = r
      BY <1>7 DEF Load, NoMerge, shared
    <2> QED
      BY <1>2, <2>1, AwayKeepsAnswers DEF AllInv
  <1>8. Refused \/ Quiet => UNCHANGED vars
    BY DEF Refused, Quiet
  <1> QED
    BY <1>1, <1>2, <1>3, <1>4, <1>5, <1>6, <1>7, <1>8, StartMergeAnswers, MergeKeepsAnswers,
       GetoffAnswers DEF Next

-----------------------------------------------------------------------------
(* What a lookup finds *)

(* Once the last chunk of a list has been written, all of it is in files.  *)
LEMMA LastChunkIsAll ==
  ASSUME IInv, Complete(files, m, name, allowed), m.pc = "register",
         ~ (Len(m.chunks) > 1), NEW k \in Adds(m.merge)
  PROVE  \E n \in Oks(files) \cup {name} : files[n].recs[k] # Nil
  <1>1. /\ m \in Merges /\ m.rest \in Rows /\ m.chunks \in Seq(1 .. 2 * MaxCount)
        /\ m.chunks # << >> /\ k \in Keys
    BY MergeIs DEF OnItsWay, Chunked, Adds
  <1>2. m.merge[k] # Nil /\ m.merge[k] # Deleted
    BY DEF Adds
  <1>3. HandIsRight(files, m, name, allowed) /\ Hand(m) = m.rest /\ m.pc \in Chunked
    BY DEF Complete, Hand, Chunked
  <1>4. CASE InSome(files, k, m.merge[k])
    BY <1>2, <1>4 DEF InSome
  <1>5. CASE m.rest[k] = m.merge[k]
    <2>1. PICK h, n : h = Head(m.chunks) /\ n = Len(m.chunks)
      OBVIOUS
    <2>2. n = 1 /\ h = m.chunks[1] /\ h \in Nat
      <3>1. PICK cs, S : cs = m.chunks /\ S = 1 .. 2 * MaxCount
        OBVIOUS
      <3>2. cs \in Seq(S) /\ cs # << >> /\ h = Head(cs) /\ n = Len(cs) /\ ~ (n > 1)
        BY <1>1, <2>1, <3>1
      <3>3. n \in Nat /\ n # 0 /\ h = cs[1] /\ h \in S
        BY <3>2, EmptySeq, HeadTailProperties, LenProperties
      <3>4. h \in Nat
        BY <3>1, <3>3
      <3>5. n = 1
        BY <3>2, <3>3
      <3>6. m.chunks[1] = cs[1]
        BY <3>1
      <3> QED
        BY <3>3, <3>4, <3>5, <3>6
    <2>3. PICK c, d : /\ c = Cardinality(Nodes(m.rest))
                      /\ d = Cardinality(Nodes(m.rest) \ First(m.rest, h))
      OBVIOUS
    <2>4. c \in Nat /\ (c <= h => First(m.rest, h) = Nodes(m.rest))
      BY <2>2, <2>3, FirstAreAll
    <2>5. c <= h
      <3>1. c <= h + MaxCount * (1 - 1)
        BY <1>1, <1>3, <2>1, <2>2, <2>3 DEF HandIsRight, Takes
      <3>2. MaxCount * (1 - 1) = 0
        BY SilopitAssumption
      <3> QED
        BY <2>2, <2>4, <3>1, <3>2
    <2>6. Chunk = Only(m.rest, Nodes(m.rest))
      BY <2>1, <2>4, <2>5 DEF Chunk
    <2>7. k \in Nodes(Chunk)
      <3>1. Nodes(Chunk) = Nodes(m.rest) \cap Nodes(m.rest)
        BY <1>1, <2>6, OnlyKeeps
      <3> QED
        BY <1>1, <1>2, <1>5, <3>1 DEF Nodes
    <2>8. files[name].recs = Only(Chunk, Adds(Chunk))
      BY <1>1, <1>3, ChunkIs DEF HandIsRight, IsCopied
    <2>9. Only(Chunk, Adds(Chunk))[k] = m.rest[k]
      BY <1>1, <1>2, <1>5, <2>7, ChunkHas
    <2> QED
      BY <1>2, <1>5, <2>8, <2>9
  <1> QED
    BY <1>3, <1>4, <1>5 DEF HandIsRight, IsKept

(* After the last chunk nothing is in hand.                                *)
LEMMA AfterTheLastIsAll ==
  ASSUME IInv, Complete(files, m, name, allowed),
         \/ m.pc = "end"
         \/ m.pc = "unlock" /\ m.chunks = << >>,
         NEW k \in Adds(m.merge)
  PROVE  ~ InNone(files, k)
  <1>1. m.merge[k] # Nil /\ k \in Keys
    BY DEF Adds
  <1>2. HandIsRight(files, m, name, allowed) /\ m.rest \in Rows
    BY MergeIs DEF Complete
  <1>3. m.pc = "unlock" => m.rest = Empty
    BY <1>2, NothingIsLeft DEF HandIsRight
  <1>4. Hand(m) = Empty
    BY <1>3 DEF Hand, Chunked
  <1>5. Empty[k] = m.merge[k] \/ InSome(files, k, m.merge[k])
    BY <1>2, <1>4 DEF HandIsRight, IsKept
  <1>6. Empty[k] = Nil
    BY <1>1 DEF Empty
  <1> QED
    BY <1>1, <1>5, <1>6 DEF InSome, InNone

(* A key that is in no file of the table may be answered by nothing; or it *)
(* is in the file that is being written.                                   *)
LEMMA UnfiledAnswer ==
  ASSUME AllInv, m.pc # "down", ~ Splitting, NEW k \in Keys,
         \A i \in 1 .. Len(Table) : files[Table[i].name].recs[k] = Nil
  PROVE  \/ Nil \in allowed[k]
         \/ m.pc = "write" /\ ~ m.fresh /\ k \in Adds(m.merge)
  <1>1. /\ FilesAnswer(files, m, allowed) /\ Answers(files, m, name, allowed)
        /\ Mirrors(files, Table, m, name) /\ Walks(m) /\ Stands(files, Table, m, name)
        /\ m.pc \in MergePcs
    BY OrderIs, MergeIs DEF AllInv, Complete
  <1>2. \A n \in Oks(files) \ Fresh(m, name) : files[n].recs[k] = Nil
    BY <1>1 DEF Mirrors
  <1>3. k \in Adds(m.merge) => m.merge # Empty
    BY EmptyHasNothing
  <1>4. CASE m.pc \in {"grow", "place"}
    <2>1. m.fresh
      BY <1>1, <1>4 DEF Walks
    <2>2. m.merge = Empty
      BY <1>4, <2>1 DEF Splitting
    <2>3. CASE files[name].recs[k] # Nil
      BY <1>1, <1>4, <2>2, <2>3 DEF Answers, Nodes
    <2>4. CASE files[name].recs[k] = Nil
      <3>1. InNone(files, k)
        BY <1>2, <2>4 DEF InNone, Fresh
      <3> QED
        BY <1>1, <1>3, <1>4, <2>2, <3>1 DEF FilesAnswer
    <2> QED
      BY <2>3, <2>4
  <1>5. CASE m.pc \notin {"grow", "place"}
    <2>1. InNone(files, k)
      <3>1. \A n \in Oks(files) : n \notin Fresh(m, name)
        BY <1>1, <1>5 DEF Fresh, Extra, Stands, Oks
      <3> QED
        BY <1>2, <3>1 DEF InNone
    <2>2. Nil \in allowed[k] \/ k \in Adds(m.merge)
      BY <1>1, <2>1 DEF FilesAnswer
    <2>3. SUFFICES ASSUME k \in Adds(m.merge), ~ Waits(m), ~ (m.pc = "write" /\ ~ m.fresh)
                   PROVE  FALSE
      BY <1>1, <2>1, <2>2 DEF Answers
    <2>4. m.merge # Empty /\ m.pc \notin {"idle", "switch", "read"}
      BY <1>3, <2>3 DEF AllInv, Complete
    <2>5. /\ ~ (m.fresh /\ m.pc \in {"name", "open", "write", "register"})
          /\ ~ (~ m.fresh /\ Len(m.chunks) > 1 /\ m.pc = "register")
          /\ ~ (m.chunks # << >> /\ m.pc = "unlock")
      BY <2>4 DEF Splitting
    <2>6. /\ m.pc \in {"announce", "lock", "register"} => ~ m.fresh
          /\ m.pc \in {"name", "grow", "place"} => m.fresh
      BY <1>1 DEF Walks
    <2>7. m.pc \in {"register", "unlock", "end"}
      BY <1>1, <1>5, <2>3, <2>4, <2>5, <2>6 DEF MergePcs, Waits
    <2>8. CASE m.pc = "register"
      <3>1. \E n \in Oks(files) \cup {name} : files[n].recs[k] # Nil
        BY <2>3, <2>5, <2>6, <2>8, LastChunkIsAll DEF AllInv
      <3>2. name \in Oks(files)
        BY <1>1, <2>8 DEF Stands
      <3> QED
        BY <2>1, <3>1, <3>2 DEF InNone
    <2>9. CASE m.pc \in {"unlock", "end"}
      BY <2>1, <2>3, <2>5, <2>9, AfterTheLastIsAll DEF AllInv
    <2> QED
      BY <2>7, <2>8, <2>9
  <1> QED
    BY <1>4, <1>5


(* At any time only the file of the table that a key belongs to can have it. *)
LEMMA KeysOfAnEntry ==
  ASSUME IInv, InOrder(files, Table, m, name), Complete(files, m, name, allowed),
         m.pc # "down", NEW k \in Keys, NEW j \in 1 .. Len(Table),
         files[Table[j].name].recs[k] # Nil
  PROVE  /\ k <= Table[j].end
         /\ \/ /\ Table[j].name \in Oks(files) /\ files[Table[j].name].end = Table[j].end
               /\ k \in Held(files, Table[j].name)
            \/ Half(m) /\ Table[j].name = name /\ k \in InHand(m)
  <1>1. /\ FilesApart(files) /\ Sorted(Table) /\ Mirrors(files, Table, m, name)
        /\ Stands(files, Table, m, name) /\ HandApart(files, Table, m, name)
    BY OrderIs
  <1>2. PICK n : n = Table[j].name
    OBVIOUS
  <1>3. k \in Held(files, n)
    BY <1>2 DEF Held, Nodes
  <1>4. CASE n \in Oks(files) /\ files[n].end = Table[j].end
    BY <1>1, <1>2, <1>3, <1>4 DEF FilesApart
  <1>5. CASE Half(m) /\ n = name
    <2>1. name \in Names /\ m.pc \in {"write", "register"} /\ ~ m.fresh
      BY <1>5, MergeIs DEF Half, HasName, Named, Written
    <2>2. m.pc # "write"
      <3>1. \A i \in Names \ Oks(files) : files[i].recs = Empty
        BY DEF Complete, FilesAnswer
      <3>2. m.pc = "write" => name \in Names \ Oks(files)
        BY <1>1, <2>1 DEF Stands, Oks
      <3>3. Empty[k] = Nil
        BY DEF Empty
      <3> QED
        BY <1>2, <1>5, <3>1, <3>2, <3>3
    <2>3. m.pc = "register" /\ Rewriting(m) /\ InHand(m) = Nodes(m.rest)
      BY <2>1, <2>2 DEF Rewriting, Chunked, InHand
    <2>4. /\ name \in Oks(files) /\ Held(files, name) \subseteq Nodes(ChunkOf(m))
      BY <1>1, <2>3 DEF Stands
    <2>5. Nodes(ChunkOf(m)) \subseteq Nodes(m.rest)
      BY <2>3, MergeIs, ChunkIs DEF OnItsWay, Chunked
    <2>6. k \in InHand(m)
      BY <1>3, <1>5, <2>3, <2>4, <2>5
    <2>7. PICK i \in 1 .. Len(Table) : /\ name = Table[i].name
                                       /\ \A h \in InHand(m) : h <= Table[i].end
      BY <1>1, <2>3 DEF HandApart, Around
    <2>8. i = j
      <3>1. i \in Nat /\ j \in Nat
        BY MergeIs
      <3>2. ~ i < j /\ ~ j < i
        BY <1>1, <1>2, <1>5, <2>7 DEF Sorted
      <3> QED
        BY <3>1, <3>2
    <2> QED
      BY <1>2, <1>5, <2>6, <2>7, <2>8
  <1> QED
    BY <1>1, <1>2, <1>4, <1>5 DEF Mirrors, Has

LEMMA OnlyTheFound ==
  ASSUME IInv, InOrder(files, Table, m, name), Complete(files, m, name, allowed),
         m.pc # "down", NEW k \in Keys, NEW j \in 1 .. Len(Table),
         files[Table[j].name].recs[k] # Nil
  PROVE  Found(Table, k) = j
  <1>1. /\ FilesApart(files) /\ Sorted(Table) /\ Mirrors(files, Table, m, name)
        /\ HandApart(files, Table, m, name) /\ Table \in Seq(Entries)
    BY OrderIs, MergeIs
  <1>2. PICK i : i = Found(Table, k)
    OBVIOUS
  <1>3. /\ i = NULL => \A l \in 1 .. Len(Table) : Table[l].end < k
        /\ i # NULL => /\ i \in 1 .. Len(Table) /\ k <= Table[i].end
                       /\ \A l \in 1 .. Len(Table) : l < i => Table[l].end < k
                       /\ \A l \in 1 .. Len(Table) : i < l => Table[i].end < Table[l].end
    BY <1>1, <1>2, FoundParts
  <1>4. PICK n : n = Table[j].name
    OBVIOUS
  <1>5. /\ k <= Table[j].end
        /\ \/ n \in Oks(files) /\ files[n].end = Table[j].end /\ k \in Held(files, n)
           \/ Half(m) /\ n = name /\ k \in InHand(m)
    BY <1>4, KeysOfAnEntry
  <1>6. k \in Int /\ \A l \in 1 .. Len(Table) : Table[l].end \in Int
    BY <1>1, EntriesEnd, KeysAreFinite
  <1>7. i # NULL
    BY <1>3, <1>5, <1>6
  <1>8. i \in 1 .. Len(Table) /\ i \in Int /\ j \in Int /\ ~ j < i /\ k <= Table[i].end
    BY <1>3, <1>5, <1>6, <1>7
  <1>9. CASE i < j
    <2>1. PICK a : a = Table[i].name
      OBVIOUS
    <2>2. Table[i].end < Table[j].end /\ a # n
      BY <1>1, <1>4, <1>8, <1>9, <2>1 DEF Sorted
    <2>3. \/ a \in Oks(files) /\ files[a].end = Table[i].end
          \/ Half(m) /\ a = name
      BY <1>1, <1>8, <2>1 DEF Mirrors, Has
    <2>4. ASSUME Half(m), NEW l \in 1 .. Len(Table), Table[l].name = name,
                 NEW b \in Oks(files), b # name
          PROVE  Apart(files, b, InHand(m) \cup {Table[l].end})
      <3>1. Rewriting(m)
        BY <2>4 DEF Half, Rewriting, Chunked
      <3>2. PICK q \in 1 .. Len(Table) :
              /\ name = Table[q].name
              /\ \A c \in Oks(files) \ {name} : Apart(files, c, InHand(m) \cup {Table[q].end})
        BY <1>1, <3>1 DEF HandApart, Around
      <3>3. q = l
        <4>1. q \in Nat /\ l \in Nat
          BY MergeIs
        <4>2. ~ q < l /\ ~ l < q
          BY <1>1, <2>4, <3>2 DEF Sorted
        <4> QED
          BY <4>1, <4>2
      <3> QED
        BY <2>4, <3>2, <3>3
    <2>5. CASE Half(m) /\ a = name
      <3>1. n \in Oks(files) /\ files[n].end = Table[j].end /\ k \in Held(files, n)
        BY <1>5, <2>2, <2>5
      <3>2. Apart(files, n, InHand(m) \cup {Table[i].end})
        BY <1>8, <2>1, <2>2, <2>4, <2>5, <3>1
      <3>3. Table[j].end < Table[i].end \/ Table[i].end < k
        BY <3>1, <3>2 DEF Apart, Below, Above
      <3> QED
        BY <1>6, <1>8, <2>2, <3>3
    <2>6. CASE Half(m) /\ n = name
      <3>1. a \in Oks(files) /\ files[a].end = Table[i].end /\ (k \in InHand(m) \/ k \in Held(files, n))
        BY <1>5, <2>2, <2>3, <2>6
      <3>2. Apart(files, a, InHand(m) \cup {Table[j].end})
        BY <1>4, <2>2, <2>4, <2>6, <3>1
      <3>3. files[a].end \in Held(files, a)
        BY DEF Held
      <3>4. \/ files[a].end < Table[j].end /\ \A h \in InHand(m) : files[a].end < h
            \/ Table[j].end < files[a].end
        BY <3>2, <3>3 DEF Apart, Below, Above
      <3>5. CASE k \in InHand(m)
        BY <1>6, <1>8, <2>2, <3>1, <3>4, <3>5
      <3>6. CASE k \notin InHand(m)
        <4>1. n \in Oks(files) /\ files[n].end = Table[j].end /\ k \in Held(files, n)
          BY <1>5, <3>6
        <4>2. Apart(files, a, Held(files, n))
          BY <1>1, <2>2, <3>1, <4>1 DEF FilesApart
        <4>3. files[a].end < k \/ files[n].end < files[a].end
          BY <3>3, <4>1, <4>2 DEF Apart, Below, Above, Held
        <4> QED
          BY <1>6, <1>8, <2>2, <3>1, <4>1, <4>3
      <3> QED
        BY <3>5, <3>6
    <2>7. CASE ~ (Half(m) /\ name \in {a, n})
      <3>1. /\ n \in Oks(files) /\ files[n].end = Table[j].end /\ k \in Held(files, n)
            /\ a \in Oks(files) /\ files[a].end = Table[i].end
        BY <1>5, <2>3, <2>7
      <3>2. Apart(files, a, Held(files, n))
        BY <1>1, <2>2, <3>1 DEF FilesApart
      <3>3. files[a].end < k \/ files[n].end < files[a].end
        BY <3>1, <3>2 DEF Apart, Below, Above, Held
      <3> QED
        BY <1>6, <1>8, <2>2, <3>1, <3>3
    <2> QED
      BY <2>5, <2>6, <2>7
  <1> QED
    BY <1>2, <1>8, <1>9


(* meta_get finds no other entry than the one that the key belongs to, the *)
(* empty node or not; at worst it finds none.                              *)
LEMMA MetaGetIsRight ==
  ASSUME IInv, Sorted(Table), NEW k \in Keys
  PROVE  /\ MetaGet(k) # NULL => MetaGet(k) = Found(Table, k)
         /\ ~ Overshot(k) => MetaGet(k) = Found(Table, k)
  <1>1. CASE m.pc # "place"
    BY <1>1, MetaGetIsFound
  <1>2. CASE m.pc = "place"
    <2>1. PICK s, t, L : s = Search(meta, k) /\ t = Search(Table, k) /\ L = Len(Table)
      OBVIOUS
    <2>2. /\ Table \in Seq(Entries) /\ L \in Nat /\ Len(meta) = L + 1
          /\ \A i \in 1 .. L : meta[i] = Table[i] /\ Table[i].end \in Int
          /\ meta[L + 1].end = Nil
          /\ \A i \in 1 .. Len(meta) : meta[i].end \in Int
          /\ Front(meta) = Table
      BY <1>2, <2>1, TableIsWhole, EntriesEnd DEF IInv, Table
    <2>3. k \in Int /\ ~ k <= Nil
      <3>1. k \in Nat \ {0}
        BY SilopitAssumption
      <3> QED
        BY <3>1 DEF Nil
    <2>4. /\ s \in 0 .. L + 1
          /\ s < L + 1 => k <= meta[s + 1].end
          /\ s > 0 => meta[s].end < k \/ (s < L + 1 /\ meta[s + 1].end = k)
      <3>1. PICK nodes, n : nodes = meta /\ n = Len(meta)
        OBVIOUS
      <3>2. /\ n = L + 1 /\ Len(nodes) = n /\ n \in Nat /\ k \in Int
            /\ \A i \in 1 .. Len(nodes) : nodes[i].end \in Int
        BY <2>2, <2>3, <3>1
      <3>3. /\ s \in 0 .. n
            /\ s < n => k <= nodes[s + 1].end
            /\ s > 0 => nodes[s].end < k \/ (s < n /\ nodes[s + 1].end = k)
        BY <2>1, <3>1, <3>2, SearchFinds
      <3> QED
        BY <3>1, <3>2, <3>3
    <2>5. /\ t \in 0 .. L
          /\ \A j \in 1 .. L : j <= t => Table[j].end < k
          /\ \A j \in 1 .. L : j > t => k <= Table[j].end
      BY <2>1, <2>2, SearchParts
    <2>6. s \in Nat /\ t \in Nat /\ s # L /\ (s < L \/ s = L + 1)
      BY <2>2, <2>3, <2>4, <2>5
    <2>7. ASSUME s < L PROVE s = t
      <3>1. s + 1 \in 1 .. L /\ meta[s + 1] = Table[s + 1]
        BY <2>2, <2>6, <2>7
      <3>2. k <= Table[s + 1].end
        BY <2>2, <2>4, <2>6, <2>7, <3>1
      <3>3. ~ s + 1 <= t
        BY <2>2, <2>3, <2>5, <3>1, <3>2
      <3>4. ASSUME s > t PROVE FALSE
        <4>1. s \in 1 .. L /\ s < s + 1 /\ meta[s] = Table[s]
          BY <2>2, <2>6, <2>7, <3>4
        <4>2. k <= Table[s].end /\ Table[s].end < Table[s + 1].end
          BY <2>1, <2>5, <3>1, <3>4, <4>1 DEF Sorted
        <4>3. Table[s].end < k \/ Table[s + 1].end = k
          BY <2>4, <2>6, <3>1, <3>4, <4>1
        <4> QED
          BY <2>2, <2>3, <3>1, <4>1, <4>2, <4>3
      <3> QED
        BY <2>6, <3>3, <3>4
    <2>8. ASSUME s = L + 1, t # L PROVE Overshot(k)
      <3>1. t < L /\ s # t
        BY <2>2, <2>5, <2>8
      <3> QED
        BY <1>2, <2>1, <2>2, <3>1 DEF Overshot
    <2>9. /\ MetaGet(k) = IF s = L + 1 THEN NULL ELSE s + 1
          /\ Found(Table, k) = IF t = L THEN NULL ELSE t + 1
      BY <2>1, <2>2 DEF MetaGet, Found
    <2> QED
      BY <2>6, <2>7, <2>8, <2>9
  <1> QED
    BY <1>1, <1>2

(* A key that belongs to no file of the table is in none of them.          *)
LEMMA NotFoundIsNowhere ==
  ASSUME IInv, InOrder(files, Table, m, name), Complete(files, m, name, allowed),
         m.pc # "down", NEW k \in Keys,
         \/ Found(Table, k) = NULL
         \/ files[Table[Found(Table, k)].name].recs[k] = Nil
  PROVE  \A j \in 1 .. Len(Table) : files[Table[j].name].recs[k] = Nil
  <1> SUFFICES ASSUME NEW j \in 1 .. Len(Table), files[Table[j].name].recs[k] # Nil
               PROVE  FALSE
    OBVIOUS
  <1>1. Found(Table, k) = j
    BY OnlyTheFound
  <1>2. j # NULL
    BY MergeIs DEF NULL
  <1> QED
    BY <1>1, <1>2

(* The keys of the file that is being written over belong to its entry.    *)
LEMMA RewrittenIsFound ==
  ASSUME AllInv, m.pc = "write", ~ m.fresh, NEW k \in Adds(m.merge)
  PROVE  Found(Table, k) # NULL /\ Table[Found(Table, k)].name = name
  <1>1. /\ Sorted(Table) /\ HandApart(files, Table, m, name) /\ Table \in Seq(Entries)
    BY OrderIs, MergeIs DEF AllInv
  <1>2. Rewriting(m) /\ InHand(m) = Nodes(m.rest) /\ m.pc \in Chunked
    BY DEF Rewriting, Chunked, InHand
  <1>3. k \in InHand(m) /\ k \in Keys
    <2>1. m.rest = m.merge
      BY <1>2 DEF AllInv, Complete, HandIsRight, IsUncut
    <2> QED
      BY <1>2, <2>1, NodesAreKeys
  <1>4. PICK j \in 1 .. Len(Table) :
          /\ name = Table[j].name
          /\ k <= Table[j].end
          /\ \A n \in Oks(files) \ {name} : Apart(files, n, InHand(m) \cup {Table[j].end})
    BY <1>1, <1>2, <1>3 DEF HandApart, Around
  <1>5. PICK i : i = Found(Table, k)
    OBVIOUS
  <1>6. /\ i = NULL => \A l \in 1 .. Len(Table) : Table[l].end < k
        /\ i # NULL => /\ i \in 1 .. Len(Table) /\ k <= Table[i].end
                       /\ \A l \in 1 .. Len(Table) : l < i => Table[l].end < k
                       /\ \A l \in 1 .. Len(Table) : i < l => Table[i].end < Table[l].end
    BY <1>1, <1>3, <1>5, FoundParts
  <1>7. k \in Int /\ \A l \in 1 .. Len(Table) : Table[l].end \in Int
    BY <1>1, <1>3, EntriesEnd, KeysAreFinite
  <1>8. /\ i # NULL /\ i \in 1 .. Len(Table) /\ i \in Int /\ j \in Int
        /\ ~ j < i /\ k <= Table[i].end
    BY <1>4, <1>6, <1>7
  <1>9. CASE i < j
    <2>1. PICK a : a = Table[i].name
      OBVIOUS
    <2>2. Table[i].end < Table[j].end /\ a # name
      BY <1>1, <1>4, <1>8, <1>9, <2>1 DEF Sorted
    <2>3. a \in Oks(files) /\ files[a].end = Table[i].end
      BY <1>8, <2>1, <2>2, OrderIs DEF AllInv, Mirrors, Has
    <2>4. Apart(files, a, InHand(m) \cup {Table[j].end})
      BY <1>4, <2>2, <2>3
    <2>5. files[a].end < k \/ Table[j].end < files[a].end
      BY <1>3, <2>4 DEF Apart, Below, Above, Held
    <2> QED
      BY <1>7, <1>8, <2>2, <2>3, <2>5
  <1> QED
    BY <1>4, <1>5, <1>8, <1>9


(* A lookup that finds no entry answers nothing.                           *)
LEMMA GetAnswers ==
  ASSUME AllInv, NEW k \in Keys, Get(k), hazards' = {}, r'.pc = "got"
  PROVE  r'.off \in allowed[r'.key]
  <1>1. /\ m.pc # "down" /\ MetaGet(k) = NULL /\ r'.key = k /\ r'.off = Nil
        /\ ~ Overshot(k) /\ ~ Splitting
    BY DEF Get, Running, NoRead
  <1>2. Sorted(Table)
    BY <1>1, OrderIs DEF AllInv
  <1>3. Found(Table, k) = NULL
    BY <1>1, <1>2, MetaGetIsRight DEF AllInv
  <1>4. \A i \in 1 .. Len(Table) : files[Table[i].name].recs[k] = Nil
    BY <1>1, <1>3, NotFoundIsNowhere DEF AllInv
  <1>5. Nil \in allowed[k]
    BY <1>1, <1>3, <1>4, UnfiledAnswer, RewrittenIsFound
  <1> QED
    BY <1>1, <1>5

(* A lookup that reads a file does so where its key belongs, and not while *)
(* the merge writes over it.                                               *)
LEMMA GetReadAnswers ==
  ASSUME AllInv, GetRead, hazards' = {}, r'.pc = "got"
  PROVE  r'.off \in allowed[r'.key]
  <1>1. r \in Reads /\ r.key \in Keys /\ name \in Names /\ r.pc \in {"read", "locked"}
    BY ReadIs DEF AllInv, GetRead
  <1>2. /\ ~ Misled /\ ~ Splitting
        /\ ~ (r.pc = "read" /\ files[name].state = "torn")
        /\ r' = [r EXCEPT !.pc = "got", !.off = files[name].recs[r.key]]
    <2>1. NoRead.pc # "got"
      BY DEF NoRead
    <2> QED
      BY <2>1 DEF GetRead, EndProcess
  <1>3. PICK k, off : k = r.key /\ off = files[name].recs[k]
    OBVIOUS
  <1>4. r'.key = k /\ r'.off = off /\ k \in Keys
    BY <1>1, <1>2, <1>3 DEF Reads
  <1>5. PICK i : i = MetaGet(k)
    OBVIOUS
  <1>6. i # NULL /\ name = meta[i].name /\ i \in 1 .. Len(Table) /\ name = Table[i].name
    <2>1. i # NULL /\ name = meta[i].name
      BY <1>2, <1>3, <1>5 DEF Misled
    <2>2. i \in 0 .. Len(Table) /\ Len(Table) \in Nat
      BY <1>4, <1>5, MetaGetIsAnEntry, MergeIs DEF AllInv, IInv
    <2>3. i \in 1 .. Len(Table)
      BY <2>1, <2>2 DEF NULL
    <2> QED
      BY <2>1, <2>3, TableIsWhole DEF AllInv, IInv
  <1>7. m.pc # "down"
    <2>1. CASE m.pc = "down"
      <3>1. Table = << >>
        BY <2>1 DEF AllInv, IInv, TableTyped, Table
      <3> QED
        BY <1>6, <3>1
    <2> QED
      BY <2>1
  <1>8. i = Found(Table, k)
    BY <1>4, <1>5, <1>6, <1>7, OrderIs, MetaGetIsRight DEF AllInv
  <1>9. FilesAnswer(files, m, allowed)
    BY DEF AllInv, Complete
  <1>10. CASE off # Nil
    <2>1. name \in Oks(files)
      BY <1>1, <1>3, <1>4, <1>9, <1>10 DEF FilesAnswer, Empty
    <2>2. k \in Nodes(files[name].recs)
      BY <1>3, <1>4, <1>10 DEF Nodes
    <2> QED
      BY <1>3, <1>4, <1>9, <2>1, <2>2 DEF FilesAnswer
  <1>11. CASE off = Nil
    <2>1. \A j \in 1 .. Len(Table) : files[Table[j].name].recs[k] = Nil
      BY <1>3, <1>4, <1>6, <1>7, <1>8, <1>11, NotFoundIsNowhere DEF AllInv
    <2>2. ~ (m.pc = "write" /\ ~ m.fresh)
      <3>1. CASE m.pc = "write" /\ ~ m.fresh
        <4>1. files[name].state = "torn"
          BY <1>7, <3>1, OrderIs DEF AllInv, Stands
        <4>2. mutex = "merge"
          BY <3>1 DEF AllInv, Locking, HasMutex, WritesOver
        <4>3. r.pc = "locked" => mutex = "get"
          BY DEF AllInv, Locking
        <4> QED
          BY <1>1, <1>2, <4>1, <4>2, <4>3
      <3> QED
        BY <3>1
    <2>3. Nil \in allowed[k]
      BY <1>2, <1>4, <1>7, <2>1, <2>2, UnfiledAnswer
    <2> QED
      BY <1>4, <1>11, <2>3
  <1> QED
    BY <1>10, <1>11

(* No other step answers.                                                  *)
LEMMA OnlyTheyAnswer ==
  ASSUME IInv, [Next]_vars, r.pc # "got", r'.pc = "got"
  PROVE  (\E k \in Keys : Get(k)) \/ GetRead
  <1>1. NoRead.pc # "got" /\ r \in Reads
    BY ReadIs DEF NoRead
  <1>2. ASSUME NEW left, NEW named, EndProcess(left, named) PROVE FALSE
    BY <1>1, <1>2 DEF EndProcess
  <1>3. ~ Merge
    BY <1>2 DEF Merge, Walk, WalkDone, Switch, ReadMmap, NameFile, Announce, Lock, Open, Write,
         Grow, Place, Register, Unlock, EndMerge, unchangedByMerge
  <1>4. ~ (GetName \/ GetLsn \/ GetLock \/ GetDone)
    BY <1>1 DEF GetName, GetLsn, GetLock, GetDone, Reads
  <1>5. ~ (Die \/ Load \/ Refused \/ Quiet) /\ ~ UNCHANGED vars
    BY <1>2 DEF Die, Load, Refused, Quiet, vars
  <1>6. \A t \in Memtables : ~ StartMerge(t)
    BY DEF StartMerge
  <1> QED
    BY <1>3, <1>4, <1>5, <1>6 DEF Next, Getoff

(* A lookup in the middle of a merge answers with the key's old or its new *)
(* offset: silopit_getoff (silopit.c:569-590) and the merge share no more  *)
(* than silopit->name, the table and one mutex, and the answer is right at *)
(* each step of the other thread unless one of the named races has         *)
(* happened.                                                               *)
THEOREM LookupsStayCurrent ==
  Spec => LookupsAreCurrent
  <1>1. Init => OInv /\ CInv /\ LInv
    BY OrderAtTheStart, CompleteAtTheStart, AnswersAtTheStart
  <1>2. IInv /\ OInv /\ CInv /\ LInv /\ [Next]_vars => OInv' /\ CInv' /\ LInv'
    BY StepsKeepOrder, StepsKeepComplete, StepsKeepAnswers
  <1>3. IInv /\ OInv /\ CInv /\ LInv /\ [Next]_vars =>
          [r.pc # "got" /\ r'.pc = "got" /\ hazards' = {} => r'.off \in allowed[r'.key]]_vars
    <2> SUFFICES ASSUME IInv, OInv, CInv, LInv, [Next]_vars,
                        r.pc # "got", r'.pc = "got", hazards' = {}
                 PROVE  r'.off \in allowed[r'.key]
      OBVIOUS
    <2>1. Whole
      BY HazardsStay DEF Whole, Good
    <2>2. AllInv
      BY <2>1 DEF AllInv, OInv, CInv, LInv, Whole
    <2> QED
      BY <2>2, OnlyTheyAnswer, GetAnswers, GetReadAnswers
  <1> QED
    BY <1>1, <1>2, <1>3, InvariantHolds, PTL DEF Spec, LookupsAreCurrent
=============================================================================
