--------------------------- MODULE RequestProofs ---------------------------
(* Theorems about Request, for any letters, commands, size of the buffer   *)
(* and number of commands.                                                 *)
EXTENDS Request, FiniteSetTheorems, SequenceTheorems, TLAPS

(* A set of natural numbers has a least element: induction over numbers   *)
(* in a form that quantifies over sets.                                    *)
LEMMA LeastElement ==
  ASSUME NEW T, T \subseteq Nat, T # {}
  PROVE  \E n \in T : \A m \in T : n <= m
  <1>1. PICK n \in T : \A m \in T : ~ (<<m, n>> \in OpToRel(<, Nat))
    BY NatLessThanWellFounded, WFMin
  <1>2. \A m \in T : ~ m < n
    BY <1>1 DEF OpToRel
  <1> QED
    BY <1>2

-----------------------------------------------------------------------------
(* Sequences and what is left of them *)

Drop(s, n) == SubSeq(s, n + 1, Len(s))

LEMMA DropIs ==
  ASSUME NEW S, NEW s \in Seq(S), NEW n \in Nat
  PROVE  /\ Drop(s, n) \in Seq(S)
         /\ Len(Drop(s, n)) = IF n <= Len(s) THEN Len(s) - n ELSE 0
         /\ \A i \in 1 .. Len(Drop(s, n)) : Drop(s, n)[i] = s[n + i] /\ n + i \in 1 .. Len(s)
         /\ n >= Len(s) => Drop(s, n) = << >>
  <1>1. Len(s) \in Nat /\ \A i \in n + 1 .. Len(s) : s[i] \in S
    OBVIOUS
  <1>2. /\ Drop(s, n) \in Seq(S)
        /\ Len(Drop(s, n)) = IF n + 1 <= Len(s) THEN Len(s) - (n + 1) + 1 ELSE 0
        /\ \A i \in 1 .. Len(s) - (n + 1) + 1 : Drop(s, n)[i] = s[(n + 1) + i - 1]
    <2>1. n + 1 \in Int /\ Len(s) \in Int
      BY <1>1
    <2> QED
      BY <1>1, <2>1, SubSeqProperties DEF Drop
  <1>3. Len(Drop(s, n)) = IF n <= Len(s) THEN Len(s) - n ELSE 0
    BY <1>1, <1>2
  <1>4. \A i \in 1 .. Len(Drop(s, n)) : Drop(s, n)[i] = s[n + i] /\ n + i \in 1 .. Len(s)
    <2> TAKE i \in 1 .. Len(Drop(s, n))
    <2>1. i \in 1 .. Len(s) - (n + 1) + 1 /\ (n + 1) + i - 1 = n + i /\ n + i \in 1 .. Len(s)
      BY <1>1, <1>3
    <2> QED
      BY <1>2, <2>1
  <1>5. n >= Len(s) => Drop(s, n) = << >>
    BY <1>1, SubSeqEmpty DEF Drop
  <1> QED
    BY <1>2, <1>3, <1>4, <1>5

LEMMA DropDrop ==
  ASSUME NEW S, NEW s \in Seq(S), NEW m \in Nat, NEW n \in Nat
  PROVE  Drop(Drop(s, m), n) = Drop(s, m + n)
  <1> DEFINE t == Drop(s, m)
             u == Drop(t, n)
             v == Drop(s, m + n)
  <1>1. /\ t \in Seq(S) /\ Len(t) = IF m <= Len(s) THEN Len(s) - m ELSE 0
        /\ \A i \in 1 .. Len(t) : t[i] = s[m + i]
    BY DropIs
  <1>2. /\ u \in Seq(S) /\ Len(u) = IF n <= Len(t) THEN Len(t) - n ELSE 0
        /\ \A i \in 1 .. Len(u) : u[i] = t[n + i] /\ n + i \in 1 .. Len(t)
    <2> HIDE DEF t
    <2> QED
      BY <1>1, DropIs
  <1>3. /\ v \in Seq(S) /\ Len(v) = IF m + n <= Len(s) THEN Len(s) - (m + n) ELSE 0
        /\ \A i \in 1 .. Len(v) : v[i] = s[(m + n) + i]
    <2>1. m + n \in Nat
      OBVIOUS
    <2> QED
      BY <2>1, DropIs
  <1>4. Len(s) \in Nat
    OBVIOUS
  <1> HIDE DEF t, u, v
  <1>5. Len(u) = Len(v)
    BY <1>1, <1>2, <1>3, <1>4
  <1>6. \A i \in 1 .. Len(u) : u[i] = v[i]
    <2> TAKE i \in 1 .. Len(u)
    <2>1. u[i] = s[m + (n + i)]
      BY <1>1, <1>2
    <2>2. m + (n + i) = (m + n) + i
      BY <1>2, <1>4
    <2> QED
      BY <1>3, <1>5, <2>1, <2>2
  <1>7. u = v
    BY <1>2, <1>3, <1>5, <1>6, SeqEqual
  <1> QED
    BY <1>7 DEF u, v, t

(* Whoever takes n elements of s off the front of s \o t. *)
LEMMA DropOfConcat ==
  ASSUME NEW S, NEW s \in Seq(S), NEW t \in Seq(S), NEW n \in 0 .. Len(s)
  PROVE  Drop(s \o t, n) = Drop(s, n) \o t
  <1> DEFINE st == s \o t
             u  == Drop(st, n)
             d  == Drop(s, n)
             v  == d \o t
  <1>1. /\ st \in Seq(S) /\ Len(st) = Len(s) + Len(t)
        /\ \A i \in 1 .. Len(s) + Len(t) : st[i] = IF i <= Len(s) THEN s[i] ELSE t[i - Len(s)]
    BY ConcatProperties
  <1>2. n \in Nat /\ Len(s) \in Nat /\ Len(t) \in Nat /\ n <= Len(s)
    OBVIOUS
  <1>3. /\ d \in Seq(S) /\ Len(d) = Len(s) - n
        /\ \A i \in 1 .. Len(d) : d[i] = s[n + i]
    BY <1>2, DropIs
  <1>4. /\ u \in Seq(S) /\ Len(u) = Len(st) - n
        /\ \A i \in 1 .. Len(u) : u[i] = st[n + i]
    <2> HIDE DEF st
    <2>1. n <= Len(st)
      BY <1>1, <1>2
    <2> QED
      BY <1>1, <1>2, <2>1, DropIs
  <1>5. /\ v \in Seq(S) /\ Len(v) = Len(d) + Len(t)
        /\ \A i \in 1 .. Len(d) + Len(t) : v[i] = IF i <= Len(d) THEN d[i] ELSE t[i - Len(d)]
    <2> HIDE DEF d
    <2> QED
      BY <1>3, ConcatProperties
  <1> HIDE DEF st, u, d, v
  <1>6. Len(u) = Len(v)
    BY <1>1, <1>2, <1>3, <1>4, <1>5
  <1>7. \A i \in 1 .. Len(u) : u[i] = v[i]
    <2> TAKE i \in 1 .. Len(u)
    <2>1. u[i] = st[n + i] /\ n + i \in 1 .. Len(s) + Len(t) /\ i \in 1 .. Len(d) + Len(t)
      BY <1>1, <1>2, <1>3, <1>4
    <2>2. CASE i <= Len(d)
      <3>1. n + i <= Len(s) /\ i \in 1 .. Len(d)
        BY <1>2, <1>3, <2>2
      <3> QED
        BY <1>1, <1>3, <1>5, <2>1, <2>2, <3>1
    <2>3. CASE ~ i <= Len(d)
      <3>1. ~ n + i <= Len(s) /\ (n + i) - Len(s) = i - Len(d)
        BY <1>2, <1>3, <2>3
      <3> QED
        BY <1>1, <1>5, <2>1, <2>3, <3>1
    <2> QED
      BY <2>2, <2>3
  <1>8. u = v
    BY <1>4, <1>5, <1>6, <1>7, SeqEqual
  <1> QED
    BY <1>8 DEF u, v, st, d

LEMMA DropPrefix ==
  ASSUME NEW S, NEW s \in Seq(S), NEW t \in Seq(S)
  PROVE  Drop(s \o t, Len(s)) = t
  <1>1. Len(s) \in 0 .. Len(s) /\ Len(s) \in Nat
    OBVIOUS
  <1>2. Drop(s \o t, Len(s)) = Drop(s, Len(s)) \o t
    BY <1>1, DropOfConcat
  <1>3. Drop(s, Len(s)) = << >>
    BY <1>1, DropIs
  <1> QED
    BY <1>2, <1>3, ConcatEmptySeq

(* A sequence is its first n elements and the rest. *)
LEMMA TakeAndDrop ==
  ASSUME NEW S, NEW s \in Seq(S), NEW n \in 0 .. Len(s)
  PROVE  /\ s = SubSeq(s, 1, n) \o Drop(s, n)
         /\ SubSeq(s, 1, n) \in Seq(S) /\ Len(SubSeq(s, 1, n)) = n
         /\ \A i \in 1 .. n : SubSeq(s, 1, n)[i] = s[i]
  <1>1. Len(s) \in Nat /\ n \in Nat /\ n <= Len(s)
    OBVIOUS
  <1>2. SubSeq(s, 1, n) \o SubSeq(s, n + 1, Len(s)) = SubSeq(s, 1, Len(s))
    <2>1. 1 \in 1 .. Len(s) + 1 /\ n \in 1 - 1 .. Len(s) /\ Len(s) \in n .. Len(s)
      BY <1>1
    <2> QED
      BY <2>1, ConcatAdjacentSubSeq
  <1>3. SubSeq(s, 1, Len(s)) = s
    BY SubSeqFull
  <1>4. \A i \in 1 .. n : s[i] \in S
    BY <1>1
  <1>5. /\ SubSeq(s, 1, n) \in Seq(S)
        /\ Len(SubSeq(s, 1, n)) = IF 1 <= n THEN n - 1 + 1 ELSE 0
        /\ \A i \in 1 .. n - 1 + 1 : SubSeq(s, 1, n)[i] = s[1 + i - 1]
    <2>1. 1 \in Int /\ n \in Int
      BY <1>1
    <2> QED
      BY <1>4, <2>1, SubSeqProperties
  <1>6. Len(SubSeq(s, 1, n)) = n /\ \A i \in 1 .. n : SubSeq(s, 1, n)[i] = s[i]
    BY <1>1, <1>5
  <1> QED
    BY <1>2, <1>3, <1>5, <1>6 DEF Drop

(* Of two cuts of one sequence, the shorter front is in the longer.        *)
LEMMA FrontsAgree ==
  ASSUME NEW S, NEW u \in Seq(S), NEW w \in Seq(S), NEW a \in Seq(S), NEW x \in Seq(S),
         u \o w = a \o x, Len(a) <= Len(u)
  PROVE  SubSeq(u, 1, Len(a)) = a /\ Drop(u, Len(a)) \o w = x
  <1>1. Len(a) \in Nat /\ Len(u) \in Nat /\ Len(x) \in Nat /\ Len(w) \in Nat
        /\ Len(a) \in 0 .. Len(u)
    OBVIOUS
  <1>2. Drop(u, Len(a)) \o w = x
    <2>1. Drop(u \o w, Len(a)) = Drop(u, Len(a)) \o w
      BY <1>1, DropOfConcat
    <2>2. Drop(a \o x, Len(a)) = x
      BY DropPrefix
    <2> QED
      BY <2>1, <2>2
  <1>3. /\ SubSeq(u, 1, Len(a)) \in Seq(S) /\ Len(SubSeq(u, 1, Len(a))) = Len(a)
        /\ \A i \in 1 .. Len(a) : SubSeq(u, 1, Len(a))[i] = u[i]
    BY <1>1, TakeAndDrop
  <1>4. \A i \in 1 .. Len(a) : u[i] = a[i]
    <2> TAKE i \in 1 .. Len(a)
    <2>1. (u \o w)[i] = u[i]
      <3>1. i \in 1 .. Len(u) + Len(w) /\ i <= Len(u)
        BY <1>1
      <3> QED
        BY <3>1, ConcatProperties
    <2>2. (a \o x)[i] = a[i]
      <3>1. i \in 1 .. Len(a) + Len(x) /\ i <= Len(a)
        BY <1>1
      <3> QED
        BY <3>1, ConcatProperties
    <2> QED
      BY <2>1, <2>2
  <1>5. SubSeq(u, 1, Len(a)) = a
    BY <1>3, <1>4, SeqEqual
  <1> QED
    BY <1>2, <1>5

-----------------------------------------------------------------------------
(* FlattenSeq *)

(* h has what the elements of seqs, one after the other, add up to. *)
AddsUp(h, seqs, n) ==
  /\ h[0] = << >>
  /\ \A i \in 1 .. n : h[i] = h[i - 1] \o seqs[i]

LEMMA SumsExist ==
  ASSUME NEW S, NEW seqs \in Seq(Seq(S)), NEW n \in 0 .. Len(seqs)
  PROVE  \E h \in [0 .. n -> Seq(S)] : AddsUp(h, seqs, n)
  <1> DEFINE Good(k) == \E h \in [0 .. k -> Seq(S)] : AddsUp(h, seqs, k)
             Bad     == {k \in 0 .. Len(seqs) : ~ Good(k)}
  <1>1. Len(seqs) \in Nat /\ \A i \in 1 .. Len(seqs) : seqs[i] \in Seq(S)
    OBVIOUS
  <1>2. CASE Bad = {}
    BY <1>2
  <1>3. CASE Bad # {}
    <2>1. PICK k \in Bad : \A m \in Bad : k <= m
      <3>1. Bad \subseteq Nat
        OBVIOUS
      <3> HIDE DEF Bad
      <3> QED
        BY <1>3, <3>1, LeastElement
    <2>2. k \in 0 .. Len(seqs) /\ ~ Good(k)
      BY <2>1
    <2>3. CASE k = 0
      <3>1. [i \in 0 .. 0 |-> << >>] \in [0 .. 0 -> Seq(S)]
        BY EmptySeq
      <3>2. AddsUp([i \in 0 .. 0 |-> << >>], seqs, 0)
        BY DEF AddsUp
      <3> QED
        BY <2>2, <2>3, <3>1, <3>2
    <2>4. CASE k > 0
      <3>1. k - 1 \in 0 .. Len(seqs) /\ k - 1 < k
        BY <1>1, <2>2, <2>4
      <3>2. Good(k - 1)
        <4>1. k - 1 \notin Bad
          <5>1. k \in Nat
            BY <2>2
          <5> HIDE DEF Bad
          <5> QED
            BY <2>1, <3>1, <5>1
        <4> QED
          BY <3>1, <4>1
      <3>3. PICK h \in [0 .. k - 1 -> Seq(S)] : AddsUp(h, seqs, k - 1)
        BY <3>2
      <3> DEFINE g == [i \in 0 .. k |-> IF i = k THEN h[k - 1] \o seqs[k] ELSE h[i]]
      <3>4. h[k - 1] \o seqs[k] \in Seq(S)
        <4>1. h[k - 1] \in Seq(S)
          BY <3>1
        <4>2. seqs[k] \in Seq(S)
          BY <1>1, <2>2, <2>4
        <4> QED
          BY <4>1, <4>2, ConcatProperties
      <3>5. g \in [0 .. k -> Seq(S)]
        BY <2>2, <2>4, <3>4
      <3>6. AddsUp(g, seqs, k)
        <4>1. g[0] = << >>
          BY <2>2, <2>4, <3>3 DEF AddsUp
        <4>2. ASSUME NEW i \in 1 .. k
              PROVE  g[i] = g[i - 1] \o seqs[i]
          <5>1. i - 1 \in 0 .. k /\ i - 1 # k /\ i \in 0 .. k /\ g[i - 1] = h[i - 1]
            BY <2>2
          <5>2. CASE i = k
            BY <5>1, <5>2
          <5>3. CASE i # k
            <6>1. i \in 1 .. k - 1
              BY <2>2, <5>3
            <6>2. h[i] = h[i - 1] \o seqs[i]
              BY <3>3, <6>1 DEF AddsUp
            <6> QED
              BY <5>1, <5>3, <6>2
          <5> QED
            BY <5>2, <5>3
        <4> HIDE DEF g
        <4> QED
          BY <4>1, <4>2 DEF AddsUp
      <3> HIDE DEF g
      <3> QED
        BY <2>2, <3>5, <3>6
    <2> QED
      BY <2>2, <2>3, <2>4
  <1> QED
    BY <1>2, <1>3

LEMMA SumsAreUnique ==
  ASSUME NEW seqs, NEW n \in Nat, NEW h, NEW g, AddsUp(h, seqs, n), AddsUp(g, seqs, n)
  PROVE  \A i \in 0 .. n : h[i] = g[i]
  <1> DEFINE Bad == {i \in 0 .. n : h[i] # g[i]}
  <1>1. CASE Bad = {}
    BY <1>1
  <1>2. CASE Bad # {}
    <2>1. PICK k \in Bad : \A m \in Bad : k <= m
      <3>1. Bad \subseteq Nat
        OBVIOUS
      <3> HIDE DEF Bad
      <3> QED
        BY <1>2, <3>1, LeastElement
    <2>2. k \in 0 .. n /\ h[k] # g[k] /\ k # 0
      BY <2>1 DEF AddsUp
    <2>3. k - 1 \in 0 .. n /\ k - 1 \notin Bad /\ k \in 1 .. n
      BY <2>1, <2>2
    <2>4. h[k - 1] = g[k - 1]
      BY <2>3
    <2> QED
      BY <2>2, <2>3, <2>4 DEF AddsUp
  <1> QED
    BY <1>1, <1>2

LEMMA FlattenIsTheSum ==
  ASSUME NEW S, NEW seqs \in Seq(Seq(S)),
         NEW h \in [0 .. Len(seqs) -> Seq(S)], AddsUp(h, seqs, Len(seqs))
  PROVE  FlattenSeq(seqs) = h[Len(seqs)]
  <1>1. Len(seqs) \in Nat
    OBVIOUS
  <1>2. CASE Len(seqs) = 0
    <2>1. seqs = << >>
      BY <1>2, EmptySeq
    <2> QED
      BY <1>2, <2>1 DEF FlattenSeq, AddsUp
  <1>3. CASE Len(seqs) # 0
    <2> DEFINE n == Len(seqs)
               F(f) == [i \in 1 .. n |-> IF i = 1 THEN seqs[i] ELSE f[i - 1] \o seqs[i]]
               g == [i \in 1 .. n |-> h[i]]
               c == CHOOSE f : f = F(f)
    <2>1. FlattenSeq(seqs) = c[n]
      BY <1>3 DEF FlattenSeq
    <2>2. \A i \in 1 .. n : h[i] = IF i = 1 THEN seqs[i] ELSE h[i - 1] \o seqs[i]
      <3> TAKE i \in 1 .. n
      <3>1. h[i] = h[i - 1] \o seqs[i]
        BY DEF AddsUp
      <3>2. CASE i = 1
        <4>1. h[0] = << >> /\ i - 1 = 0
          BY <3>2 DEF AddsUp
        <4>2. seqs[i] \in Seq(S)
          BY <3>2, <1>1
        <4> QED
          BY <3>1, <3>2, <4>1, <4>2, ConcatEmptySeq
      <3> QED
        BY <3>1, <3>2
    <2>3. g = F(g)
      <3>1. \A i \in 1 .. n : (IF i = 1 THEN seqs[i] ELSE h[i - 1] \o seqs[i])
                              = IF i = 1 THEN seqs[i] ELSE g[i - 1] \o seqs[i]
        <4> TAKE i \in 1 .. n
        <4>1. i # 1 => i - 1 \in 1 .. n
          BY <1>1
        <4> QED
          BY <4>1
      <3>2. \A i \in 1 .. n : h[i] = IF i = 1 THEN seqs[i] ELSE g[i - 1] \o seqs[i]
        BY <2>2, <3>1
      <3>3. g = [i \in 1 .. n |-> h[i]]
        OBVIOUS
      <3> HIDE DEF g, n
      <3> QED
        BY <3>2, <3>3
    <2>4. c = F(c)
      <3> HIDE DEF g
      <3> QED
        BY <2>3
    <2>5. \A i \in 1 .. n : c[i] = IF i = 1 THEN seqs[i] ELSE c[i - 1] \o seqs[i]
      <3> HIDE DEF c
      <3> QED
        BY <2>4
    <2> HIDE DEF c
    <2> DEFINE d == [i \in 0 .. n |-> IF i = 0 THEN << >> ELSE c[i]]
    <2>6. AddsUp(d, seqs, n)
      <3>1. d[0] = << >>
        BY <1>1
      <3>2. ASSUME NEW i \in 1 .. n PROVE d[i] = d[i - 1] \o seqs[i]
        <4>1. i \in 0 .. n /\ i - 1 \in 0 .. n /\ i # 0 /\ d[i] = c[i]
          BY <1>1
        <4>2. CASE i = 1
          <5>1. d[i - 1] = << >> /\ d[i] = seqs[i] /\ seqs[i] \in Seq(S)
            BY <1>1, <2>5, <4>1, <4>2
          <5> QED
            BY <5>1, ConcatEmptySeq
        <4>3. CASE i # 1
          <5>1. i - 1 # 0 /\ d[i - 1] = c[i - 1]
            BY <1>1, <4>1, <4>3
          <5> QED
            BY <2>5, <4>1, <4>3, <5>1
        <4> QED
          BY <4>2, <4>3
      <3> HIDE DEF d
      <3> QED
        BY <3>1, <3>2 DEF AddsUp
    <2>7. d[n] = h[n]
      <3> HIDE DEF d
      <3>1. n \in 0 .. n
        BY <1>1
      <3> QED
        BY <1>1, <2>6, <3>1, SumsAreUnique
    <2> QED
      BY <1>1, <1>3, <2>1, <2>7
  <1> QED
    BY <1>2, <1>3

(* A sequence that comes last, or first, does so in what all add up to.    *)
LEMMA FlattenAppend ==
  ASSUME NEW S, NEW seqs \in Seq(Seq(S)), NEW x \in Seq(S)
  PROVE  FlattenSeq(seqs) \in Seq(S) /\ FlattenSeq(Append(seqs, x)) = FlattenSeq(seqs) \o x
  <1>0. PICK n \in Nat : n = Len(seqs)
    OBVIOUS
  <1> DEFINE s == Append(seqs, x)
  <1>1. n \in 0 .. n /\ n \in 0 .. Len(seqs)
    BY <1>0
  <1>2. s \in Seq(Seq(S)) /\ Len(s) = n + 1 /\ s[n + 1] = x /\ \A i \in 1 .. n : s[i] = seqs[i]
    BY <1>0, AppendProperties
  <1> HIDE DEF s
  <1>3. PICK h \in [0 .. Len(s) -> Seq(S)] : AddsUp(h, s, Len(s))
    <2>1. Len(s) \in 0 .. Len(s)
      BY <1>1, <1>2
    <2> QED
      BY <1>2, <2>1, SumsExist
  <1>4. PICK g \in [0 .. n -> Seq(S)] : AddsUp(g, seqs, n)
    BY <1>0, <1>1, SumsExist
  <1>5. AddsUp(h, seqs, n)
    <2>1. \A i \in 1 .. n : i \in 1 .. Len(s)
      BY <1>1, <1>2
    <2> QED
      BY <1>2, <1>3, <2>1 DEF AddsUp
  <1>6. h[n] = g[n]
    <2>1. \A a, b : AddsUp(a, seqs, n) /\ AddsUp(b, seqs, n) => a[n] = b[n]
      BY <1>1, SumsAreUnique
    <2> QED
      BY <1>4, <1>5, <2>1, Zenon
  <1>7. FlattenSeq(s) = h[n + 1] /\ FlattenSeq(seqs) = g[n]
    BY <1>0, <1>2, <1>3, <1>4, FlattenIsTheSum
  <1>8. h[n + 1] = h[n] \o x
    <2>1. n + 1 \in 1 .. Len(s) /\ (n + 1) - 1 = n
      <3>1. Len(s) = n + 1
        BY <1>2
      <3> HIDE <1>2
      <3> QED
        BY <3>1
    <2> QED
      BY <1>2, <1>3, <2>1 DEF AddsUp
  <1>9. g[n] \in Seq(S)
    BY <1>1, <1>4
  <1> QED
    BY <1>0, <1>6, <1>7, <1>8, <1>9 DEF s

LEMMA FlattenFirst ==
  ASSUME NEW S, NEW seqs \in Seq(Seq(S)), Len(seqs) > 0
  PROVE  FlattenSeq(seqs) = seqs[1] \o FlattenSeq(Drop(seqs, 1))
  <1>10. \A a, b, c \in Seq(S) : (a \o b) \o c = a \o (b \o c)
    <2> TAKE a, b, c \in Seq(S)
    <2> QED
      BY ConcatAssociative, SMTT(30)
  <1>0. PICK n \in Nat : n = Len(seqs)
    OBVIOUS
  <1> DEFINE s == Drop(seqs, 1)
  <1>1. n >= 1 /\ n \in 0 .. n /\ n - 1 \in Nat
    BY <1>0
  <1>2. s \in Seq(Seq(S)) /\ Len(s) = n - 1 /\ \A i \in 1 .. n - 1 : s[i] = seqs[1 + i]
    BY <1>0, <1>1, DropIs
  <1>6. seqs[1] \in Seq(S) /\ \A i \in 1 .. n : seqs[i] \in Seq(S)
    BY <1>0, <1>1
  <1> HIDE DEF s
  <1>3. PICK h : h \in [0 .. n -> Seq(S)] /\ AddsUp(h, seqs, n)
    BY <1>0, <1>1, SumsExist
  <1>4. PICK k : k \in [0 .. n - 1 -> Seq(S)] /\ AddsUp(k, s, n - 1)
    <2>1. n - 1 \in 0 .. Len(s)
      BY <1>1, <1>2
    <2> QED
      BY <1>2, <2>1, SumsExist
  <1>5. FlattenSeq(seqs) = h[n] /\ FlattenSeq(s) = k[n - 1]
    BY <1>0, <1>2, <1>3, <1>4, FlattenIsTheSum
  <1> DEFINE g == [i \in 0 .. n |-> IF i = 0 THEN << >> ELSE seqs[1] \o k[i - 1]]
  <1>7. AddsUp(g, seqs, n)
    <2>1. g[0] = << >>
      BY <1>1
    <2>2. ASSUME NEW i \in 1 .. n PROVE g[i] = g[i - 1] \o seqs[i]
      <3>0. i \in 0 .. n /\ i - 1 \in 0 .. n /\ i # 0
        BY <1>1
      <3>1. i \in 0 .. n /\ i - 1 \in 0 .. n /\ i # 0 /\ g[i] = seqs[1] \o k[i - 1]
        BY <3>0, Zenon
      <3>2. CASE i = 1
        <4>1. k[i - 1] = << >> /\ g[i - 1] = << >>
          BY <1>1, <1>4, <3>1, <3>2 DEF AddsUp
        <4> QED
          BY <1>6, <3>1, <3>2, <4>1, ConcatEmptySeq
      <3>3. CASE i # 1
        <4>1. i - 1 \in 1 .. n - 1 /\ (i - 1) - 1 \in 0 .. n - 1 /\ 1 + (i - 1) = i /\ i - 1 # 0
          BY <1>1, <3>3
        <4>2. k[i - 1] = k[(i - 1) - 1] \o seqs[i]
          BY <1>2, <1>4, <4>1 DEF AddsUp
        <4>3. g[i - 1] = seqs[1] \o k[(i - 1) - 1]
          BY <3>1, <4>1
        <4>4. k[(i - 1) - 1] \in Seq(S) /\ seqs[i] \in Seq(S)
          BY <1>4, <1>6, <4>1
        <4>5. (seqs[1] \o k[(i - 1) - 1]) \o seqs[i] = seqs[1] \o (k[(i - 1) - 1] \o seqs[i])
          BY <1>10, <1>6, <4>4
        <4> QED
          BY <3>1, <4>2, <4>3, <4>5
      <3> QED
        BY <3>2, <3>3
    <2> HIDE DEF g
    <2> QED
      BY <2>1, <2>2 DEF AddsUp
  <1>8. h[n] = g[n]
    <2> HIDE DEF g
    <2>1. \A a, b : AddsUp(a, seqs, n) /\ AddsUp(b, seqs, n) => a[n] = b[n]
      BY <1>1, SumsAreUnique
    <2> QED
      BY <1>3, <1>7, <2>1, Zenon
  <1>9. g[n] = seqs[1] \o k[n - 1]
    <2>1. n \in 0 .. n /\ n # 0
      BY <1>1
    <2> QED
      BY <2>1, Zenon
  <1> QED
    BY <1>5, <1>8, <1>9 DEF s

(* What is left of what seqs add up to behind their first t.               *)
Left(seqs, t) == FlattenSeq(Drop(seqs, t))

LEMMA LeftIs ==
  ASSUME NEW S, NEW seqs \in Seq(Seq(S)), NEW t \in 0 .. Len(seqs)
  PROVE  /\ Left(seqs, t) \in Seq(S)
         /\ t = Len(seqs) => Left(seqs, t) = << >>
         /\ t < Len(seqs) => Left(seqs, t) = seqs[t + 1] \o Left(seqs, t + 1)
  <1> DEFINE d == Drop(seqs, t)
  <1>1. t \in Nat /\ Len(seqs) \in Nat /\ t <= Len(seqs)
    OBVIOUS
  <1>2. /\ d \in Seq(Seq(S)) /\ Len(d) = Len(seqs) - t
        /\ \A i \in 1 .. Len(d) : d[i] = seqs[t + i]
        /\ t = Len(seqs) => d = << >>
    BY <1>1, DropIs
  <1> HIDE DEF d
  <1>3. FlattenSeq(d) \in Seq(S)
    <2>1. << >> \in Seq(S)
      BY EmptySeq
    <2> QED
      BY <1>2, <2>1, FlattenAppend
  <1>4. t = Len(seqs) => FlattenSeq(d) = << >>
    BY <1>2 DEF FlattenSeq
  <1>5. ASSUME t < Len(seqs)
        PROVE  FlattenSeq(d) = seqs[t + 1] \o Left(seqs, t + 1)
    <2>1. Len(d) > 0 /\ d[1] = seqs[t + 1]
      BY <1>1, <1>2, <1>5
    <2>2. FlattenSeq(d) = d[1] \o FlattenSeq(Drop(d, 1))
      BY <1>2, <2>1, FlattenFirst
    <2>3. Drop(d, 1) = Drop(seqs, t + 1)
      BY <1>1, DropDrop DEF d
    <2> QED
      BY <2>1, <2>2, <2>3 DEF Left
  <1> QED
    BY <1>3, <1>4, <1>5 DEF d, Left

(* One more at the end. *)
LEMMA LeftOfAppend ==
  ASSUME NEW S, NEW seqs \in Seq(Seq(S)), NEW x \in Seq(S), NEW t \in 0 .. Len(seqs)
  PROVE  Left(Append(seqs, x), t) = Left(seqs, t) \o x
  <1> DEFINE d == Drop(seqs, t)
             a == Append(seqs, x)
             e == Drop(a, t)
             f == Append(d, x)
  <1>1. t \in Nat /\ Len(seqs) \in Nat /\ t <= Len(seqs)
    OBVIOUS
  <1>2. d \in Seq(Seq(S)) /\ Len(d) = Len(seqs) - t /\ \A i \in 1 .. Len(d) : d[i] = seqs[t + i]
    BY <1>1, DropIs
  <1>3. a \in Seq(Seq(S)) /\ Len(a) = Len(seqs) + 1 /\ a[Len(seqs) + 1] = x
        /\ \A i \in 1 .. Len(seqs) : a[i] = seqs[i]
    BY AppendProperties
  <1>4. e \in Seq(Seq(S)) /\ Len(e) = Len(a) - t /\ \A i \in 1 .. Len(e) : e[i] = a[t + i]
    <2> HIDE DEF a
    <2> QED
      BY <1>1, <1>3, DropIs
  <1>5. f \in Seq(Seq(S)) /\ Len(f) = Len(d) + 1 /\ f[Len(d) + 1] = x
        /\ \A i \in 1 .. Len(d) : f[i] = d[i]
    <2> HIDE DEF d
    <2> QED
      BY <1>2, AppendProperties
  <1> HIDE DEF d, a, e, f
  <1>6. Len(e) = Len(f)
    BY <1>1, <1>2, <1>3, <1>4, <1>5
  <1>7. \A i \in 1 .. Len(e) : e[i] = f[i]
    <2> TAKE i \in 1 .. Len(e)
    <2>1. CASE i <= Len(d)
      <3>1. i \in 1 .. Len(d) /\ t + i \in 1 .. Len(seqs)
        BY <1>1, <1>2, <2>1
      <3> QED
        BY <1>2, <1>3, <1>4, <1>5, <3>1
    <2>2. CASE ~ i <= Len(d)
      <3>1. i = Len(d) + 1 /\ t + i = Len(seqs) + 1
        BY <1>1, <1>2, <1>5, <1>6, <2>2
      <3> QED
        BY <1>3, <1>4, <1>5, <3>1
    <2> QED
      BY <2>1, <2>2
  <1>8. e = f
    BY <1>4, <1>5, <1>6, <1>7, SeqEqual
  <1>9. FlattenSeq(f) = FlattenSeq(d) \o x
    BY <1>2, FlattenAppend DEF f
  <1> QED
    BY <1>8, <1>9 DEF Left, e, d, a

-----------------------------------------------------------------------------
(* Bytes, lines and commands *)

LEMMA Small == \A n \in 0 .. 4 : n \in {0, 1, 2, 3, 4}
  OBVIOUS

LEMMA DigitsAre ==
  /\ Len(Digits) = 5
  /\ \A n \in 0 .. 4 : /\ Number(n) \in Range(Digits) /\ ToInt(Number(n)) = n
                       /\ Number(n) \notin Letters \cup {CR, LF}
  /\ \A m, n \in 0 .. 4 : Number(m) = Number(n) => m = n
  /\ CR # LF /\ {CR, LF} \cap Letters = {}
  <1>1. Len(Digits) = 5 /\ DOMAIN Digits = 1 .. 5
    BY DEF Digits
  <1>2. /\ Digits[1] = "0" /\ Digits[2] = "1" /\ Digits[3] = "2" /\ Digits[4] = "3"
        /\ Digits[5] = "4"
    BY DEF Digits
  <1>3. CR # LF /\ \A i \in 1 .. 5 : Digits[i] # CR /\ Digits[i] # LF
    <2>1. \A i \in 1 .. 5 : i \in {1, 2, 3, 4, 5}
      OBVIOUS
    <2> QED
      BY <1>2, <2>1 DEF CR, LF
  <1>4. \A i, j \in 1 .. 5 : Digits[i] = Digits[j] => i = j
    <2>1. \A i \in 1 .. 5 : i \in {1, 2, 3, 4, 5}
      OBVIOUS
    <2> QED
      BY <1>2, <2>1
  <1>5. \A i \in 1 .. 5 : Digits[i] \in Range(Digits)
    BY <1>1 DEF Range
  <1>6. /\ \A i \in 1 .. 5 : Digits[i] \notin Letters
        /\ {CR, LF} \cap Letters = {}
    BY <1>5, RequestAssumption
  <1>7. ASSUME NEW n \in 0 .. 4
        PROVE  /\ Number(n) \in Range(Digits) /\ ToInt(Number(n)) = n
               /\ Number(n) \notin Letters \cup {CR, LF}
    <2>1. n + 1 \in 1 .. 5 /\ Number(n) = Digits[n + 1]
      BY DEF Number
    <2>2. (CHOOSE i \in DOMAIN Digits : Digits[i] = Digits[n + 1]) = n + 1
      BY <1>1, <1>4, <2>1
    <2>3. (n + 1) - 1 = n
      OBVIOUS
    <2> QED
      BY <1>3, <1>5, <1>6, <2>1, <2>2, <2>3 DEF ToInt
  <1>8. ASSUME NEW m \in 0 .. 4, NEW n \in 0 .. 4, Number(m) = Number(n)
        PROVE  m = n
    <2>1. m + 1 \in 1 .. 5 /\ n + 1 \in 1 .. 5 /\ Digits[m + 1] = Digits[n + 1]
      BY <1>8 DEF Number
    <2> QED
      BY <1>4, <2>1
  <1> QED
    BY <1>1, <1>3, <1>6, <1>7, <1>8

LEMMA BytesAre ==
  /\ Letters \subseteq Bytes /\ CR \in Bytes /\ LF \in Bytes
  /\ \A n \in 0 .. 4 : Number(n) \in Bytes
  BY DigitsAre DEF Bytes

LEMMA LinesAre ==
  /\ CRLF \in Seq(Bytes) /\ Len(CRLF) = 2 /\ CRLF[1] = CR /\ CRLF[2] = LF
  /\ \A n \in 0 .. 4 : /\ Line(n) \in Seq(Bytes) /\ Len(Line(n)) = 3
                       /\ Line(n)[1] = Number(n) /\ Line(n)[2] = CR /\ Line(n)[3] = LF
  <1>1. CRLF \in Seq(Bytes) /\ Len(CRLF) = 2 /\ CRLF[1] = CR /\ CRLF[2] = LF
    BY BytesAre DEF CRLF
  <1>2. ASSUME NEW n \in 0 .. 4
        PROVE  /\ Line(n) \in Seq(Bytes) /\ Len(Line(n)) = 3
               /\ Line(n)[1] = Number(n) /\ Line(n)[2] = CR /\ Line(n)[3] = LF
    <2>1. PICK d \in Bytes : d = Number(n)
      BY BytesAre
    <2>2. PICK a \in Seq(Bytes) : a = <<d>> /\ Len(a) = 1 /\ a[1] = d
      <3>1. <<d>> \in Seq(Bytes) /\ Len(<<d>>) = 1 /\ <<d>>[1] = d
        OBVIOUS
      <3> QED
        BY <3>1
    <2>3. Line(n) = a \o CRLF
      BY <2>1, <2>2 DEF Line
    <2>4. /\ a \o CRLF \in Seq(Bytes)
          /\ Len(a \o CRLF) = Len(a) + Len(CRLF)
          /\ \A i \in 1 .. Len(a) + Len(CRLF) :
               (a \o CRLF)[i] = IF i <= Len(a) THEN a[i] ELSE CRLF[i - Len(a)]
      <3> HIDE <2>2
      <3> QED
        BY <1>1, ConcatProperties
    <2>5. (a \o CRLF)[1] = d /\ (a \o CRLF)[2] = CR /\ (a \o CRLF)[3] = LF
      <3>1. Len(a) = 1 /\ a[1] = d
        BY <2>2
      <3> QED
        BY <1>1, <2>4, <3>1
    <2> QED
      BY <1>1, <2>1, <2>2, <2>3, <2>4, <2>5
  <1> QED
    BY <1>1, <1>2

(* The arguments of c as the client writes them, each with its length. *)
Parts(c) == [i \in DOMAIN c |-> Line(Len(c[i])) \o c[i] \o CRLF]

LEMMA CommandsAre ==
  ASSUME NEW c \in Commands
  PROVE  /\ c \in Seq(Seq(Bytes)) /\ Len(c) \in 1 .. 4 /\ DOMAIN c = 1 .. Len(c)
         /\ \A i \in 1 .. Len(c) : /\ c[i] \in Seq(Letters) /\ c[i] \in Seq(Bytes)
                                   /\ Len(c[i]) \in 0 .. 4
  <1>1. c \in Seq(Seq(Letters)) /\ c # << >>
    BY RequestAssumption
  <1>2. Len(c) \in Nat /\ Len(c) # 0 /\ DOMAIN c = 1 .. Len(c)
    BY <1>1, EmptySeq
  <1>3. Len(c) < 5 /\ \A i \in DOMAIN c : Len(c[i]) < 5
    BY RequestAssumption, DigitsAre
  <1>4. \A i \in 1 .. Len(c) : c[i] \in Seq(Letters)
    BY <1>1
  <1>5. \A s \in Seq(Letters) : s \in Seq(Bytes) /\ Len(s) \in Nat
    BY BytesAre, SeqMonotonic
  <1>6. \A i \in 1 .. Len(c) : c[i] \in Seq(Bytes) /\ Len(c[i]) \in 0 .. 4
    <2> TAKE i \in 1 .. Len(c)
    <2>1. c[i] \in Seq(Bytes) /\ Len(c[i]) \in Nat
      BY <1>4, <1>5
    <2>2. Len(c[i]) < 5
      BY <1>2, <1>3
    <2>3. \A k \in Nat : k < 5 => k \in 0 .. 4
      OBVIOUS
    <2> QED
      BY <2>1, <2>2, <2>3
  <1>7. c \in Seq(Seq(Bytes))
    <2>1. Seq(Letters) \subseteq Seq(Bytes)
      BY <1>5
    <2> QED
      BY <1>1, <2>1, SeqMonotonic
  <1>8. Len(c) \in 1 .. 4
    BY <1>2, <1>3
  <1> QED
    BY <1>2, <1>4, <1>6, <1>7, <1>8

LEMMA PartsAre ==
  ASSUME NEW c \in Commands
  PROVE  /\ Parts(c) \in Seq(Seq(Bytes)) /\ Len(Parts(c)) = Len(c)
         /\ \A i \in 1 .. Len(c) : Parts(c)[i] = Line(Len(c[i])) \o (c[i] \o CRLF)
         /\ Left(Parts(c), 0) \in Seq(Bytes)
         /\ Encode(c) = Line(Len(c)) \o Left(Parts(c), 0)
         /\ Encode(c) \in Seq(Bytes)
  <1>1. PICK n \in 1 .. 4 : n = Len(c)
    BY CommandsAre
  <1>2. DOMAIN c = 1 .. n
    BY <1>1, CommandsAre
  <1>3. \A a, b, d \in Seq(Bytes) : /\ (a \o b) \o d = a \o (b \o d) /\ a \o b \in Seq(Bytes)
                                    /\ (a \o b) \o d \in Seq(Bytes)
    <2>1. \A a, b \in Seq(Bytes) : a \o b \in Seq(Bytes)
      BY ConcatProperties
    <2> QED
      BY <2>1, ConcatAssociative
  <1>4. \A i \in 1 .. n : /\ Line(Len(c[i])) \o c[i] \o CRLF \in Seq(Bytes)
                          /\ Line(Len(c[i])) \o c[i] \o CRLF = Line(Len(c[i])) \o (c[i] \o CRLF)
    <2> TAKE i \in 1 .. n
    <2>1. PICK a \in Seq(Bytes) : a = c[i]
      BY <1>1, CommandsAre
    <2>2. PICK l \in Seq(Bytes) : l = Line(Len(c[i]))
      BY <1>1, CommandsAre, LinesAre
    <2>3. CRLF \in Seq(Bytes)
      BY LinesAre
    <2>4. (l \o a) \o CRLF \in Seq(Bytes) /\ (l \o a) \o CRLF = l \o (a \o CRLF)
      BY <1>3, <2>3
    <2> QED
      BY <2>1, <2>2, <2>4
  <1>5. Parts(c) \in Seq(Seq(Bytes)) /\ Len(Parts(c)) = n /\ DOMAIN Parts(c) = 1 .. n
    <2>1. Parts(c) \in [1 .. n -> Seq(Bytes)]
      BY <1>2, <1>4 DEF Parts
    <2> QED
      BY <2>1
  <1>6. \A i \in 1 .. n : Parts(c)[i] = Line(Len(c[i])) \o (c[i] \o CRLF)
    BY <1>2, <1>4 DEF Parts
  <1>7. Left(Parts(c), 0) \in Seq(Bytes)
    <2>1. 0 \in 0 .. Len(Parts(c))
      BY <1>5
    <2> QED
      BY <1>5, <2>1, LeftIs
  <1>8. Encode(c) = Line(Len(c)) \o Left(Parts(c), 0)
    <2>1. Drop(Parts(c), 0) = Parts(c)
      <3>1. Drop(Parts(c), 0) = SubSeq(Parts(c), 1, Len(Parts(c)))
        BY <1>5 DEF Drop
      <3> QED
        BY <1>5, <3>1, SubSeqFull
    <2> QED
      BY <2>1 DEF Encode, Left, Parts
  <1>9. Encode(c) \in Seq(Bytes)
    <2>1. Line(Len(c)) \in Seq(Bytes)
      <3>1. n \in 0 .. 4
        OBVIOUS
      <3> QED
        BY <1>1, <3>1, LinesAre
    <2> QED
      BY <1>7, <1>8, <2>1, ConcatProperties
  <1> QED
    BY <1>1, <1>5, <1>6, <1>7, <1>8, <1>9

-----------------------------------------------------------------------------
(* Reading a line *)

(* What the parser has at hand: a buffer, and a place in it. *)
InBuffer(r) == r.buf \in Seq(Bytes) /\ r.pos \in Nat

LEMMA UnreadIs ==
  ASSUME NEW r, InBuffer(r)
  PROVE  /\ Unread(r) = Drop(r.buf, r.pos) /\ Unread(r) \in Seq(Bytes)
         /\ Len(r.buf) \in Nat /\ Len(Unread(r)) \in Nat
         /\ Len(Unread(r)) = IF r.pos <= Len(r.buf) THEN Len(r.buf) - r.pos ELSE 0
         /\ \A i \in 1 .. Len(Unread(r)) : Unread(r)[i] = r.buf[r.pos + i]
  <1>1. PICK s \in Seq(Bytes) : s = r.buf
    BY DEF InBuffer
  <1>2. PICK n \in Nat : n = r.pos
    BY DEF InBuffer
  <1>3. Unread(r) = Drop(s, n)
    BY <1>1, <1>2 DEF Unread, Drop
  <1>4. /\ Drop(s, n) \in Seq(Bytes) /\ Len(Drop(s, n)) = IF n <= Len(s) THEN Len(s) - n ELSE 0
        /\ \A i \in 1 .. Len(Drop(s, n)) : Drop(s, n)[i] = s[n + i]
    BY DropIs
  <1>5. Len(s) \in Nat /\ Len(Drop(s, n)) \in Nat
    BY <1>4
  <1> QED
    BY <1>1, <1>2, <1>3, <1>4, <1>5

(* A number of at most four is on the line, or none: the first byte says.  *)
LEMMA NumberIs ==
  ASSUME NEW r, InBuffer(r), IsNumber(r)
  PROVE  /\ Len(Unread(r)) >= 3 /\ r.pos + 3 <= Len(r.buf) /\ After(r) = r.pos + 3
         /\ ValueOf(r) \in 0 .. 4 /\ Unread(r)[1] = Number(ValueOf(r))
  <1>1. PICK n \in 0 .. 4 : IsPrefix(Line(n), Unread(r))
    BY DigitsAre DEF IsNumber
  <1>2. Line(n) \in Seq(Bytes) /\ Len(Line(n)) = 3 /\ Line(n)[1] = Number(n)
    BY LinesAre
  <1>3. /\ Unread(r) \in Seq(Bytes) /\ Len(Unread(r)) \in Nat /\ Len(r.buf) \in Nat
        /\ Len(Unread(r)) = IF r.pos <= Len(r.buf) THEN Len(r.buf) - r.pos ELSE 0
        /\ \A i \in 1 .. Len(Unread(r)) : Unread(r)[i] = r.buf[r.pos + i]
    BY UnreadIs
  <1>4. Len(Unread(r)) >= 3 /\ SubSeq(Line(n), 1, 3) = SubSeq(Unread(r), 1, 3)
    BY <1>1, <1>2 DEF IsPrefix
  <1>5. Unread(r)[1] = Number(n)
    <2>1. \A s \in Seq(Bytes) : Len(s) >= 3 => SubSeq(s, 1, 3)[1] = s[1]
      <3> TAKE s \in Seq(Bytes)
      <3> HAVE Len(s) >= 3
      <3>1. 3 \in 0 .. Len(s) /\ 1 \in 1 .. 3
        OBVIOUS
      <3> QED
        BY <3>1, TakeAndDrop
    <2>2. SubSeq(Line(n), 1, 3)[1] = Number(n)
      BY <1>2, <2>1
    <2>3. SubSeq(Unread(r), 1, 3)[1] = Unread(r)[1]
      BY <1>3, <1>4, <2>1
    <2> QED
      BY <1>4, <2>2, <2>3
  <1>6. r.pos \in Nat /\ r.pos + 3 <= Len(r.buf)
    BY <1>3, <1>4 DEF InBuffer
  <1>7. ValueOf(r) = n
    <2>1. r.buf[r.pos + 1] = Number(n)
      BY <1>3, <1>4, <1>5
    <2> QED
      BY <2>1, DigitsAre DEF ValueOf
  <1> QED
    BY <1>4, <1>5, <1>6, <1>7 DEF After

LEMMA NothingIs ==
  ASSUME NEW r, InBuffer(r), IsNothing(r)
  PROVE  Len(Unread(r)) >= 2 /\ Unread(r)[1] = CR /\ r.pos + 2 <= Len(r.buf)
  <1>1. CRLF \in Seq(Bytes) /\ Len(CRLF) = 2 /\ CRLF[1] = CR
    BY LinesAre
  <1>2. /\ Unread(r) \in Seq(Bytes) /\ Len(Unread(r)) \in Nat /\ Len(r.buf) \in Nat
        /\ Len(Unread(r)) = IF r.pos <= Len(r.buf) THEN Len(r.buf) - r.pos ELSE 0
    BY UnreadIs
  <1>3. Len(Unread(r)) >= 2 /\ SubSeq(CRLF, 1, 2) = SubSeq(Unread(r), 1, 2)
    BY <1>1 DEF IsNothing, IsPrefix
  <1>4. Unread(r)[1] = CR
    <2>1. \A s \in Seq(Bytes) : Len(s) >= 2 => SubSeq(s, 1, 2)[1] = s[1]
      <3> TAKE s \in Seq(Bytes)
      <3> HAVE Len(s) >= 2
      <3>1. 2 \in 0 .. Len(s) /\ 1 \in 1 .. 2
        OBVIOUS
      <3> QED
        BY <3>1, TakeAndDrop
    <2> QED
      BY <1>1, <1>2, <1>3, <2>1
  <1> QED
    BY <1>2, <1>3, <1>4 DEF InBuffer

(* What a line gives, whatever is on it. *)
LEMMA LineIs ==
  ASSUME NEW r, InBuffer(r), IsLine(r)
  PROVE  /\ Len(Unread(r)) >= 2 /\ Unread(r)[1] \in Range(Digits) \cup {CR}
         /\ ValueOf(r) \in 0 .. 4
         /\ After(r) \in Nat /\ After(r) > r.pos /\ After(r) <= Len(r.buf)
         /\ Len(r.buf) \in Nat
  <1>1. r.pos \in Nat /\ Len(r.buf) \in Nat
    BY UnreadIs DEF InBuffer
  <1>2. CASE IsNumber(r)
    <2>1. /\ Len(Unread(r)) >= 3 /\ r.pos + 3 <= Len(r.buf) /\ After(r) = r.pos + 3
          /\ ValueOf(r) \in 0 .. 4 /\ Unread(r)[1] = Number(ValueOf(r))
      BY <1>2, NumberIs
    <2>2. Unread(r)[1] \in Range(Digits)
      BY <2>1, DigitsAre
    <2>3. Len(Unread(r)) \in Nat
      BY UnreadIs
    <2> QED
      BY <1>1, <2>1, <2>2, <2>3
  <1>3. CASE ~ IsNumber(r)
    <2>1. IsNothing(r)
      BY <1>3 DEF IsLine
    <2>2. Len(Unread(r)) >= 2 /\ Unread(r)[1] = CR /\ r.pos + 2 <= Len(r.buf)
      BY <2>1, NothingIs
    <2>3. ValueOf(r) = 0 /\ After(r) = r.pos + 2
      BY <1>3 DEF ValueOf, After
    <2> QED
      BY <1>1, <2>2, <2>3
  <1> QED
    BY <1>2, <1>3

(* The line at pos is the client's, and what comes behind it is too.       *)
LEMMA LineRead ==
  ASSUME NEW r, InBuffer(r), IsLine(r), NEW w \in Seq(Bytes), NEW x \in Seq(Bytes),
         NEW n \in 0 .. 4, Unread(r) \o w = Line(n) \o x
  PROVE  ValueOf(r) = n /\ Drop(r.buf, After(r)) \o w = x
  <1>1. PICK u \in Seq(Bytes) : u = Unread(r)
    BY UnreadIs
  <1>2. Line(n) \in Seq(Bytes) /\ Len(Line(n)) = 3 /\ Line(n)[1] = Number(n)
    BY LinesAre
  <1>3. PICK l \in Seq(Bytes) : l = Line(n)
    BY <1>2
  <1>4. u \o w = l \o x /\ Len(l) = 3 /\ l[1] = Number(n)
    BY <1>1, <1>2, <1>3
  <1>5. Len(u) >= 2 /\ u[1] = (u \o w)[1] /\ l[1] = (l \o x)[1]
    <2>1. Len(u) >= 2 /\ Len(u) \in Nat /\ Len(w) \in Nat /\ Len(x) \in Nat
      BY <1>1, LineIs
    <2>2. 1 \in 1 .. Len(u) + Len(w) /\ 1 <= Len(u) /\ 1 \in 1 .. Len(l) + Len(x) /\ 1 <= Len(l)
      BY <1>4, <2>1
    <2> QED
      BY <2>1, <2>2, ConcatProperties
  <1>6. u[1] = Number(n)
    BY <1>4, <1>5
  <1>7. IsNumber(r)
    <2>1. ~ IsNothing(r)
      BY <1>1, <1>6, NothingIs, DigitsAre
    <2> QED
      BY <2>1 DEF IsLine
  <1>8. /\ Len(u) >= 3 /\ r.pos + 3 <= Len(r.buf) /\ After(r) = r.pos + 3
        /\ ValueOf(r) \in 0 .. 4 /\ u[1] = Number(ValueOf(r))
    BY <1>1, <1>7, NumberIs
  <1>9. Drop(u, 3) \o w = x
    <2>1. Len(l) <= Len(u)
      BY <1>4, <1>8
    <2>2. Drop(u, Len(l)) \o w = x
      BY <1>4, <2>1, FrontsAgree
    <2> QED
      BY <1>4, <2>2
  <1>10. Drop(u, 3) = Drop(r.buf, r.pos + 3)
    <2>1. PICK s \in Seq(Bytes) : s = r.buf
      BY DEF InBuffer
    <2>2. PICK m \in Nat : m = r.pos
      BY DEF InBuffer
    <2>3. Drop(Drop(s, m), 3) = Drop(s, m + 3)
      BY DropDrop
    <2>4. u = Drop(s, m)
      BY <1>1, <2>1, <2>2, UnreadIs
    <2> QED
      BY <2>1, <2>2, <2>3, <2>4
  <1> QED
    BY <1>6, <1>8, <1>9, <1>10, DigitsAre

(* No length begins with a line feed: the parser has lost its place.       *)
LEMMA NoLineAfterLF ==
  ASSUME NEW r, InBuffer(r), NEW w \in Seq(Bytes), NEW x \in Seq(Bytes),
         Unread(r) \o w = <<LF>> \o x
  PROVE  ~ IsLine(r)
  <1> SUFFICES ASSUME IsLine(r) PROVE FALSE
    OBVIOUS
  <1>1. PICK u \in Seq(Bytes) : u = Unread(r)
    BY UnreadIs
  <1>2. PICK l \in Seq(Bytes) : l = <<LF>> /\ Len(l) = 1 /\ l[1] = LF
    <2>1. <<LF>> \in Seq(Bytes) /\ Len(<<LF>>) = 1 /\ <<LF>>[1] = LF
      BY BytesAre
    <2> QED
      BY <2>1
  <1>3. Len(u) >= 2 /\ Len(u) \in Nat /\ u[1] \in Range(Digits) \cup {CR}
    BY <1>1, LineIs
  <1>4. u \o w = l \o x /\ Len(l) = 1 /\ l[1] = LF
    BY <1>1, <1>2
  <1>5. u[1] = (u \o w)[1] /\ l[1] = (l \o x)[1]
    <2>1. Len(w) \in Nat /\ Len(x) \in Nat
      OBVIOUS
    <2>2. 1 \in 1 .. Len(u) + Len(w) /\ 1 <= Len(u) /\ 1 \in 1 .. Len(l) + Len(x) /\ 1 <= Len(l)
      BY <1>3, <1>4, <2>1
    <2> HIDE <1>2
    <2> QED
      BY <2>1, <2>2, ConcatProperties
  <1>6. LF \in Range(Digits) \cup {CR}
    BY <1>3, <1>4, <1>5
  <1>7. \A d \in Range(Digits) : d # LF
    <2>1. \A i \in 1 .. 5 : Digits[i] # LF
      <3>1. \A i \in 1 .. 5 : i - 1 \in 0 .. 4 /\ Number(i - 1) = Digits[i]
        BY DEF Number
      <3> QED
        BY <3>1, DigitsAre
    <2>2. DOMAIN Digits = 1 .. 5
      BY DEF Digits
    <2> QED
      BY <2>1, <2>2 DEF Range
  <1> QED
    BY <1>6, <1>7, DigitsAre

LEMMA NoLineInNothing ==
  ASSUME NEW r, InBuffer(r), Unread(r) = << >>
  PROVE  ~ IsLine(r)
  <1>1. Len(Unread(r)) = 0
    BY EmptySeq
  <1> QED
    BY <1>1, LineIs

-----------------------------------------------------------------------------
(* Types *)

Requests == [buf : Seq(Bytes), pos : Nat, argv : Seq(Seq(Bytes)), multilen : 0 .. Len(Digits),
             lastlen : 0 .. Len(Digits), idx : Nat]

(* TypeOK, and what the parser needs to keep it: it looks for an argument  *)
(* only when one is missing.                                               *)
Typed ==
  /\ TypeOK
  /\ req \in Requests
  /\ pc = "argv" => req.multilen # 0

LEMMA RequestIs ==
  ASSUME NEW r \in Requests
  PROVE  /\ InBuffer(r) /\ r.argv \in Seq(Seq(Bytes)) /\ r.idx \in Nat
         /\ r.multilen \in 0 .. 5 /\ r.lastlen \in 0 .. 5
         /\ r.pos \in Nat /\ Len(r.buf) \in Nat /\ Len(r.argv) \in Nat
  <1>1. r.buf \in Seq(Bytes) /\ r.pos \in Nat /\ r.argv \in Seq(Seq(Bytes)) /\ r.idx \in Nat
    BY DEF Requests
  <1>2. r.multilen \in 0 .. 5 /\ r.lastlen \in 0 .. 5
    BY DigitsAre DEF Requests
  <1> QED
    BY <1>1, <1>2 DEF InBuffer

LEMMA NewRequestIs ==
  /\ NewRequest \in Requests
  /\ NewRequest.buf = << >> /\ NewRequest.pos = 0 /\ NewRequest.argv = << >>
  /\ NewRequest.multilen = 0 /\ NewRequest.lastlen = 0 /\ NewRequest.idx = 0
  <1>1. << >> \in Seq(Bytes) /\ << >> \in Seq(Seq(Bytes)) /\ 0 \in Nat /\ 0 \in 0 .. Len(Digits)
    BY DigitsAre
  <1> QED
    BY <1>1 DEF NewRequest, Requests

LEMMA SizedIs ==
  ASSUME NEW r \in Requests, r.lastlen # 0 \/ IsLine(r)
  PROVE  /\ Sized(r) \in Requests
         /\ Sized(r).buf = r.buf /\ Sized(r).argv = r.argv
         /\ Sized(r).multilen = r.multilen /\ Sized(r).idx = r.idx
         /\ Sized(r).lastlen = IF r.lastlen = 0 THEN ValueOf(r) ELSE r.lastlen
         /\ Sized(r).pos = IF r.lastlen = 0 THEN After(r) ELSE r.pos
         /\ r.lastlen = 0 => Sized(r).pos <= Len(r.buf)
  <1>1. CASE r.lastlen # 0
    BY <1>1 DEF Sized
  <1>2. CASE r.lastlen = 0
    <2>1. ValueOf(r) \in 0 .. 5 /\ After(r) \in Nat /\ After(r) <= Len(r.buf)
      BY <1>2, RequestIs, LineIs
    <2>2. Sized(r) = [r EXCEPT !.lastlen = ValueOf(r), !.pos = After(r)]
      BY <1>2 DEF Sized
    <2>3. [r EXCEPT !.lastlen = ValueOf(r), !.pos = After(r)] \in Requests
      BY <2>1, DigitsAre DEF Requests
    <2> QED
      BY <1>2, <2>1, <2>2, <2>3 DEF Requests
  <1> QED
    BY <1>1, <1>2

(* The argument that is taken out of the buffer, and what comes behind it. *)
Argument(r) == SubSeq(r.buf, r.pos + 1, r.pos + r.lastlen)

LEMMA TakenIs ==
  ASSUME NEW r \in Requests, IsWhole(r), r.idx \in 0 .. Len(r.argv) - 1, r.multilen # 0
  PROVE  /\ Taken(r) \in Requests /\ Argument(r) \in Seq(Bytes)
         /\ Taken(r).buf = r.buf /\ Taken(r).pos = r.pos + r.lastlen + 2
         /\ Taken(r).idx = r.idx + 1 /\ Taken(r).lastlen = 0
         /\ Taken(r).multilen = r.multilen - 1
         /\ Len(Taken(r).argv) = Len(r.argv)
         /\ \A j \in 1 .. Len(r.argv) :
              Taken(r).argv[j] = IF j = r.idx + 1 THEN Argument(r) ELSE r.argv[j]
  <1>1. /\ r.buf \in Seq(Bytes) /\ r.argv \in Seq(Seq(Bytes)) /\ r.idx \in Nat
        /\ r.multilen \in 0 .. 5 /\ r.lastlen \in 0 .. 5
        /\ r.pos \in Nat /\ Len(r.buf) \in Nat /\ Len(r.argv) \in Nat
    BY RequestIs DEF InBuffer
  <1>2. Argument(r) \in Seq(Bytes)
    <2>1. r.pos + 1 \in Int /\ r.pos + r.lastlen \in Int /\ r.pos + r.lastlen < Len(r.buf)
      BY <1>1 DEF IsWhole
    <2>2. \A i \in r.pos + 1 .. r.pos + r.lastlen : r.buf[i] \in Bytes
      <3> TAKE i \in r.pos + 1 .. r.pos + r.lastlen
      <3>1. i \in 1 .. Len(r.buf)
        BY <1>1, <2>1
      <3> QED
        BY <1>1, <3>1, ElementOfSeq
    <2> QED
      BY <2>1, <2>2, SubSeqProperties DEF Argument
  <1> DEFINE a == [r.argv EXCEPT ![r.idx + 1] = Argument(r)]
  <1>3. /\ a \in Seq(Seq(Bytes)) /\ Len(a) = Len(r.argv)
        /\ \A j \in 1 .. Len(r.argv) : a[j] = IF j = r.idx + 1 THEN Argument(r) ELSE r.argv[j]
    <2>1. r.idx + 1 \in 1 .. Len(r.argv)
      BY <1>1
    <2> QED
      BY <1>1, <1>2, <2>1, ExceptSeq
  <1>4. Taken(r) = [r EXCEPT !.argv = a, !.idx = r.idx + 1, !.pos = r.pos + r.lastlen + 2,
                             !.lastlen = 0, !.multilen = r.multilen - 1]
    BY DEF Taken, Argument, Requests
  <1> HIDE DEF a
  <1>5. /\ r.multilen - 1 \in 0 .. Len(Digits) /\ 0 \in 0 .. Len(Digits)
        /\ r.idx + 1 \in Nat /\ r.pos + r.lastlen + 2 \in Nat
    <2>1. Len(Digits) = 5
      BY DigitsAre
    <2>2. \A k \in 0 .. 5 : k # 0 => k - 1 \in 0 .. 5
      OBVIOUS
    <2>3. r.multilen - 1 \in 0 .. 5
      BY <1>1, <2>2
    <2>4. r.idx + 1 \in Nat /\ r.pos + r.lastlen + 2 \in Nat
      BY <1>1, SMTT(30)
    <2> QED
      BY <2>1, <2>3, <2>4
  <1>6. Taken(r) \in Requests
    BY <1>3, <1>4, <1>5 DEF Requests
  <1>7. /\ Taken(r).argv = a /\ Taken(r).buf = r.buf /\ Taken(r).pos = r.pos + r.lastlen + 2
        /\ Taken(r).idx = r.idx + 1 /\ Taken(r).lastlen = 0 /\ Taken(r).multilen = r.multilen - 1
    BY <1>4 DEF Requests
  <1> QED
    BY <1>2, <1>3, <1>6, <1>7

(* The vector of a new command: as many empty arguments as were announced. *)
Vector(n) == [i \in 1 .. n |-> << >>]

LEMMA VectorIs ==
  ASSUME NEW n \in 0 .. 4
  PROVE  Vector(n) \in Seq(Seq(Bytes)) /\ Len(Vector(n)) = n
  <1>1. << >> \in Seq(Bytes)
    BY EmptySeq
  <1>2. Vector(n) \in [1 .. n -> Seq(Bytes)]
    BY <1>1 DEF Vector
  <1> QED
    BY <1>2

(* request_append and the front of the wire. *)
LEMMA ReadIs ==
  ASSUME wire \in Seq(Bytes), req \in Requests, NEW n \in 1 .. Len(wire), Read(n), HasRoom(req, n)
  PROVE  /\ wire' = Drop(wire, n) /\ wire' \in Seq(Bytes) /\ req' \in Requests
         /\ req'.buf = req.buf \o SubSeq(wire, 1, n) /\ Len(req'.buf) = Len(req.buf) + n
         /\ req'.buf \in Seq(Bytes)
         /\ req'.pos = req.pos /\ req'.argv = req.argv /\ req'.multilen = req.multilen
         /\ req'.lastlen = req.lastlen /\ req'.idx = req.idx
         /\ wire = SubSeq(wire, 1, n) \o Drop(wire, n) /\ SubSeq(wire, 1, n) \in Seq(Bytes)
  <1>1. n \in 0 .. Len(wire) /\ n \in Nat
    OBVIOUS
  <1>2. /\ wire = SubSeq(wire, 1, n) \o Drop(wire, n)
        /\ SubSeq(wire, 1, n) \in Seq(Bytes) /\ Len(SubSeq(wire, 1, n)) = n
    BY <1>1, TakeAndDrop
  <1>3. wire' = Drop(wire, n) /\ wire' \in Seq(Bytes)
    BY <1>1, DropIs DEF Read, Drop
  <1>4. req' = [req EXCEPT !.buf = req.buf \o SubSeq(wire, 1, n)]
    BY DEF Read
  <1>5. req.buf \in Seq(Bytes)
    BY RequestIs DEF InBuffer
  <1>6. PICK b \in Seq(Bytes) : b = req.buf \o SubSeq(wire, 1, n) /\ Len(b) = Len(req.buf) + n
    <2>1. PICK s \in Seq(Bytes) : s = req.buf
      BY <1>5
    <2>2. PICK f \in Seq(Bytes) : f = SubSeq(wire, 1, n) /\ Len(f) = n
      BY <1>2
    <2>3. s \o f \in Seq(Bytes) /\ Len(s \o f) = Len(s) + Len(f)
      BY ConcatProperties
    <2> QED
      BY <2>1, <2>2, <2>3
  <1>7. req' = [req EXCEPT !.buf = b]
    BY <1>4, <1>6
  <1>8. /\ req' \in Requests /\ req'.buf = b
        /\ req'.pos = req.pos /\ req'.argv = req.argv /\ req'.multilen = req.multilen
        /\ req'.lastlen = req.lastlen /\ req'.idx = req.idx
    BY <1>7 DEF Requests
  <1> QED
    BY <1>2, <1>3, <1>6, <1>8

LEMMA TypedInit == Init => Typed
  <1> SUFFICES ASSUME Init PROVE Typed
    OBVIOUS
  <1>1. req \in Requests /\ req.buf = << >> /\ req.pos = 0 /\ req.argv = << >>
        /\ req.multilen = 0 /\ req.lastlen = 0 /\ req.idx = 0
    BY NewRequestIs DEF Init
  <1>2. /\ << >> \in Seq(Bytes) /\ << >> \in Seq(Seq(Bytes)) /\ << >> \in Seq(Commands)
        /\ << >> \in Seq(Seq(Seq(Bytes))) /\ Len(<< >>) = 0 /\ 0 <= BufSize
    BY RequestAssumption
  <1>3. 0 \in 0 .. Len(Digits) /\ 0 \in Nat
    BY DigitsAre
  <1> QED
    BY <1>1, <1>2, <1>3 DEF Typed, TypeOK, Init

LEMMA TypedClose ==
  ASSUME Typed, Close, hazards' \subseteq {"pipelined", "overflow", "cut", "empty", "gone"}
  PROVE  Typed'
  <1>1. req' \in Requests /\ req'.buf = << >> /\ req'.pos = 0 /\ req'.argv = << >>
        /\ req'.multilen = 0 /\ req'.lastlen = 0 /\ req'.idx = 0
    BY NewRequestIs DEF Close
  <1>2. /\ << >> \in Seq(Bytes) /\ << >> \in Seq(Seq(Bytes)) /\ Len(<< >>) = 0 /\ 0 <= BufSize
    BY RequestAssumption
  <1>3. 0 \in 0 .. Len(Digits) /\ 0 \in Nat
    BY DigitsAre
  <1>4. pc' = "closed" /\ wire' = << >> /\ sent' = sent /\ done' = done
    BY DEF Close
  <1> QED
    BY <1>1, <1>2, <1>3, <1>4 DEF Typed, TypeOK

(* What a step that leaves the buffer no longer than it was has to give.   *)
LEMMA TypedStep ==
  ASSUME Typed, req' \in Requests, Len(req'.buf) <= BufSize,
         wire' \in Seq(Bytes), sent' \in Seq(Commands), done' \in Seq(Seq(Seq(Bytes))),
         pc' \in {"poll", "argc", "argv", "end", "closed", "fault"},
         pc' = "argv" => req'.multilen # 0,
         hazards' \subseteq {"pipelined", "overflow", "cut", "empty", "gone"}
  PROVE  Typed'
  <1>1. /\ req'.buf \in Seq(Bytes) /\ req'.argv \in Seq(Seq(Bytes))
        /\ req'.pos \in Nat /\ req'.idx \in Nat
        /\ req'.multilen \in 0 .. Len(Digits) /\ req'.lastlen \in 0 .. Len(Digits)
    BY DEF Requests
  <1> QED
    BY <1>1 DEF Typed, TypeOK

LEMMA TypedNext == Typed /\ [Next]_vars => Typed'
  <1> SUFFICES ASSUME Typed, [Next]_vars PROVE Typed'
    OBVIOUS
  <1>1. /\ wire \in Seq(Bytes) /\ sent \in Seq(Commands) /\ done \in Seq(Seq(Seq(Bytes)))
        /\ req \in Requests /\ Len(req.buf) <= BufSize
        /\ pc \in {"poll", "argc", "argv", "end", "closed", "fault"}
        /\ pc = "argv" => req.multilen # 0
        /\ hazards \subseteq {"pipelined", "overflow", "cut", "empty", "gone"}
    BY DEF Typed, TypeOK
  <1>2. /\ InBuffer(req) /\ req.buf \in Seq(Bytes) /\ Len(req.buf) \in Nat /\ BufSize \in Nat
        /\ req.argv \in Seq(Seq(Bytes)) /\ req.pos \in Nat
    BY <1>1, RequestIs, RequestAssumption DEF InBuffer
  <1>3. ASSUME NEW c \in Commands, Send(c) PROVE Typed'
    <2>1. wire' \in Seq(Bytes)
      <3>1. Encode(c) \in Seq(Bytes)
        BY PartsAre
      <3> QED
        BY <1>1, <1>3, <3>1, ConcatProperties DEF Send
    <2>2. sent' \in Seq(Commands)
      BY <1>1, <1>3, AppendProperties DEF Send
    <2>3. req' = req /\ pc' = pc /\ done' = done
          /\ hazards' \subseteq {"pipelined", "overflow", "cut", "empty", "gone"}
      BY <1>1, <1>3 DEF Send
    <2> QED
      BY <1>1, <2>1, <2>2, <2>3, TypedStep
  <1>4. ASSUME NEW n \in 1 .. Len(wire), Read(n) PROVE Typed'
    <2>1. /\ pc' = IF req.multilen = 0 THEN "argc" ELSE "argv"
          /\ sent' = sent /\ done' = done
          /\ hazards' \subseteq {"pipelined", "overflow", "cut", "empty", "gone"}
      BY <1>1, <1>4 DEF Read
    <2>2. CASE HasRoom(req, n)
      <3>1. /\ wire' \in Seq(Bytes) /\ req' \in Requests /\ Len(req'.buf) = Len(req.buf) + n
            /\ req'.multilen = req.multilen
        BY <1>1, <1>4, <2>2, ReadIs
      <3>2. Len(req'.buf) <= BufSize
        BY <2>2, <3>1 DEF HasRoom
      <3> QED
        BY <1>1, <2>1, <3>1, <3>2, TypedStep
    <2>3. CASE ~ HasRoom(req, n)
      <3>1. req' = req
        BY <1>4, <2>3 DEF Read
      <3>2. wire' \in Seq(Bytes)
        <4>1. wire' = Drop(wire, n) /\ n \in Nat
          BY <1>4 DEF Read, Drop
        <4> QED
          BY <1>1, <4>1, DropIs
      <3> QED
        BY <1>1, <2>1, <3>1, <3>2, TypedStep
    <2> QED
      BY <2>2, <2>3
  <1>5. ASSUME EndOfFile PROVE Typed'
    <2>1. Close /\ hazards' \subseteq {"pipelined", "overflow", "cut", "empty", "gone"}
      BY <1>1, <1>5 DEF EndOfFile
    <2> QED
      BY <2>1, TypedClose
  <1>6. ASSUME ParseArgc PROVE Typed'
    <2>1. CASE Close /\ hazards' = hazards
      BY <1>1, <2>1, TypedClose
    <2>2. CASE /\ IsLine(req)
               /\ req' = [req EXCEPT !.multilen = ValueOf(req), !.pos = After(req),
                                     !.argv = [i \in 1 .. ValueOf(req) |-> <<>>]]
               /\ pc' = IF ValueOf(req) = 0 THEN "end" ELSE "argv"
               /\ UNCHANGED <<wire, sent, done, hazards>>
      <3>1. ValueOf(req) \in 0 .. 4 /\ After(req) \in Nat
        BY <1>2, <2>2, LineIs
      <3>2. PICK v \in Seq(Seq(Bytes)) : v = Vector(ValueOf(req))
        BY <3>1, VectorIs
      <3>3. req' = [req EXCEPT !.multilen = ValueOf(req), !.pos = After(req), !.argv = v]
        BY <2>2, <3>2 DEF Vector
      <3>4. req' \in Requests /\ req'.buf = req.buf /\ req'.multilen = ValueOf(req)
        <4>1. Len(Digits) = 5
          BY DigitsAre
        <4>2. ValueOf(req) \in 0 .. Len(Digits)
          BY <3>1, <4>1
        <4> QED
          BY <1>1, <3>1, <3>3, <4>2 DEF Requests
      <3> QED
        BY <1>1, <2>2, <3>4, TypedStep
    <2> QED
      BY <1>6, <2>1, <2>2 DEF ParseArgc
  <1>7. ASSUME ParseArgv PROVE Typed'
    <2> DEFINE r == Sized(req)
    <2>1. CASE Close /\ hazards' = hazards
      BY <1>1, <2>1, TypedClose
    <2>2. CASE req.lastlen # 0 \/ IsLine(req)
      <3>1. /\ r \in Requests /\ r.buf = req.buf /\ r.multilen = req.multilen
            /\ r.argv = req.argv
        BY <1>1, <2>2, SizedIs
      <3> HIDE DEF r
      <3>2. CASE /\ req' = r /\ pc' = "poll" /\ UNCHANGED <<wire, sent, done>>
                 /\ hazards' = IF r.lastlen = 0 THEN hazards \cup {"empty"} ELSE hazards
        BY <1>1, <3>1, <3>2, TypedStep
      <3>3. CASE /\ IsWhole(r) /\ r.idx \in 0 .. Len(r.argv) - 1
                 /\ req' = Taken(r) /\ pc' = IF r.multilen = 1 THEN "end" ELSE "argv"
                 /\ UNCHANGED <<wire, sent, done, hazards>>
        <4>1. r.multilen # 0 /\ r.multilen \in 0 .. 5
          BY <1>1, <1>7, <3>1, RequestIs DEF ParseArgv
        <4>2. Taken(r) \in Requests /\ Taken(r).buf = r.buf /\ Taken(r).multilen = r.multilen - 1
          BY <3>1, <3>3, <4>1, TakenIs
        <4>3. pc' = "argv" => r.multilen - 1 # 0
          BY <3>3, <4>1
        <4> QED
          BY <1>1, <3>1, <3>3, <4>2, <4>3, TypedStep
      <3>4. CASE req' = r /\ pc' = "fault" /\ UNCHANGED <<wire, sent, done, hazards>>
        BY <1>1, <3>1, <3>4, TypedStep
      <3> QED
        BY <1>7, <2>1, <3>2, <3>3, <3>4 DEF ParseArgv, r
    <2> QED
      BY <1>7, <2>1, <2>2 DEF ParseArgv
  <1>8. ASSUME Finish PROVE Typed'
    <2>1. done' \in Seq(Seq(Seq(Bytes)))
      BY <1>1, <1>2, <1>8, AppendProperties DEF Finish
    <2>2. CASE req.pos < Len(req.buf)
      <3>1. req' = [req EXCEPT !.buf = Drop(req.buf, req.pos), !.pos = 0, !.argv = << >>]
        BY <1>8, <2>2 DEF Finish, Drop
      <3>2. PICK b \in Seq(Bytes) : b = Drop(req.buf, req.pos) /\ Len(b) <= Len(req.buf)
        <4>1. /\ Drop(req.buf, req.pos) \in Seq(Bytes)
              /\ Len(Drop(req.buf, req.pos)) <= Len(req.buf)
          BY <1>2, UnreadIs
        <4> QED
          BY <4>1
      <3>3. req' = [req EXCEPT !.buf = b, !.pos = 0, !.argv = << >>]
        BY <3>1, <3>2
      <3>4. req' \in Requests /\ req'.buf = b
        <4>1. << >> \in Seq(Seq(Bytes))
          OBVIOUS
        <4> QED
          BY <1>1, <3>3, <4>1 DEF Requests
      <3>5. Len(req'.buf) <= BufSize
        BY <1>1, <1>2, <3>2, <3>4
      <3> QED
        BY <1>1, <1>8, <2>1, <3>4, <3>5, TypedStep DEF Finish
    <2>3. CASE ~ req.pos < Len(req.buf)
      <3>1. req' = NewRequest
        BY <1>8, <2>3 DEF Finish, Reset
      <3>2. req' \in Requests /\ Len(req'.buf) <= BufSize
        BY <1>2, <3>1, NewRequestIs
      <3> QED
        BY <1>1, <1>8, <2>1, <3>2, TypedStep DEF Finish
    <2> QED
      BY <2>2, <2>3
  <1>9. CASE UNCHANGED vars
    BY <1>1, <1>9 DEF vars, Typed, TypeOK
  <1> QED
    BY <1>3, <1>4, <1>5, <1>6, <1>7, <1>8, <1>9 DEF Next, Stopped

(* Whatever the bytes, however they are cut: no variable leaves its type   *)
(* and querybuf is never written beyond its end (request.c:140).           *)
THEOREM TypeCorrect == Spec => []TypeOK
  <1>1. Init => Typed
    BY TypedInit
  <1>2. Typed /\ [Next]_vars => Typed'
    BY TypedNext
  <1>3. Typed => TypeOK
    BY DEF Typed
  <1> QED
    BY <1>1, <1>2, <1>3, PTL DEF Spec

-----------------------------------------------------------------------------
(* The stream and the parser's place in it *)

LEMMA Joined == \A p, q \in Seq(Bytes) : p \o q \in Seq(Bytes)
  BY ConcatProperties

LEMMA Regrouped == \A p, q, s \in Seq(Bytes) : (p \o q) \o s = p \o (q \o s)
  BY ConcatAssociative

Regroups(n, a, e, l, x) == ((n \o (a \o e)) \o l) \o x = n \o (a \o (e \o (l \o x)))

LEMMA AllRegrouped == \A n, a, e, l, x \in Seq(Bytes) : Regroups(n, a, e, l, x)
  <1> SUFFICES ASSUME NEW n \in Seq(Bytes), NEW a \in Seq(Bytes), NEW e \in Seq(Bytes),
                      NEW l \in Seq(Bytes), NEW x \in Seq(Bytes)
               PROVE  ((n \o (a \o e)) \o l) \o x = n \o (a \o (e \o (l \o x)))
    BY DEF Regroups
  <1>1. a \o e \in Seq(Bytes) /\ l \o x \in Seq(Bytes)
    BY Joined
  <1>2. n \o (a \o e) \in Seq(Bytes)
    BY <1>1, Joined
  <1>3. ((n \o (a \o e)) \o l) \o x = (n \o (a \o e)) \o (l \o x)
    BY <1>2, Regrouped, Zenon
  <1>4. PICK ae, lx : ae = a \o e /\ lx = l \o x
    OBVIOUS
  <1>5. ae \in Seq(Bytes) /\ lx \in Seq(Bytes)
    BY <1>1, <1>4
  <1>6. (n \o ae) \o lx = n \o (ae \o lx)
    BY <1>5, Regrouped, ZenonT(30)
  <1>7. (a \o e) \o lx = a \o (e \o lx)
    BY <1>5, Regrouped, ZenonT(30)
  <1> QED
    BY <1>3, <1>4, <1>6, <1>7, Zenon

(* The commands cs as the client writes them, and what of them comes       *)
(* behind the first t.                                                     *)
Stream(cs)    == [i \in 1 .. Len(cs) |-> Encode(cs[i])]
Coming(cs, t) == Left(Stream(cs), t)

(* What comes behind the first t arguments of c, when x comes behind c.    *)
Behind(c, t, x) == Left(Parts(c), t) \o x

LEMMA StreamIs ==
  ASSUME NEW cs \in Seq(Commands)
  PROVE  /\ Stream(cs) \in Seq(Seq(Bytes)) /\ Len(Stream(cs)) = Len(cs)
         /\ \A i \in 1 .. Len(cs) : cs[i] \in Commands /\ Stream(cs)[i] = Encode(cs[i])
  <1>1. PICK n \in Nat : n = Len(cs)
    OBVIOUS
  <1>2. \A i \in 1 .. n : cs[i] \in Commands
    BY <1>1
  <1>3. Stream(cs) \in [1 .. n -> Seq(Bytes)]
    BY <1>1, <1>2, PartsAre DEF Stream
  <1>4. Stream(cs) \in Seq(Seq(Bytes)) /\ Len(Stream(cs)) = n
    BY <1>3
  <1>5. \A i \in 1 .. n : Stream(cs)[i] = Encode(cs[i])
    BY <1>1 DEF Stream
  <1> QED
    BY <1>1, <1>2, <1>4, <1>5

LEMMA ComingIs ==
  ASSUME NEW cs \in Seq(Commands), NEW t \in 0 .. Len(cs)
  PROVE  /\ Coming(cs, t) \in Seq(Bytes)
         /\ t = Len(cs) => Coming(cs, t) = << >>
         /\ t < Len(cs) => /\ t + 1 \in 0 .. Len(cs) /\ cs[t + 1] \in Commands
                           /\ Coming(cs, t) = Line(Len(cs[t + 1]))
                                \o Behind(cs[t + 1], 0, Coming(cs, t + 1))
  <1>1. PICK s \in Seq(Seq(Bytes)) : s = Stream(cs) /\ Len(s) = Len(cs)
    BY StreamIs
  <1>2. t \in 0 .. Len(s)
    BY <1>1
  <1>3. /\ Left(s, t) \in Seq(Bytes)
        /\ t = Len(s) => Left(s, t) = << >>
        /\ t < Len(s) => Left(s, t) = s[t + 1] \o Left(s, t + 1)
    BY <1>2, LeftIs
  <1>4. ASSUME t < Len(cs)
        PROVE  /\ t + 1 \in 0 .. Len(cs) /\ cs[t + 1] \in Commands
               /\ Coming(cs, t) = Line(Len(cs[t + 1])) \o Behind(cs[t + 1], 0, Coming(cs, t + 1))
    <2>1. t + 1 \in 0 .. Len(cs) /\ t + 1 \in 1 .. Len(cs)
      BY <1>4
    <2>2. PICK c \in Commands : c = cs[t + 1] /\ s[t + 1] = Encode(c)
      BY <1>1, <2>1, StreamIs
    <2>3. Left(s, t + 1) \in Seq(Bytes)
      BY <1>1, <2>1, LeftIs
    <2>4. Line(Len(c)) \in Seq(Bytes) /\ Left(Parts(c), 0) \in Seq(Bytes)
          /\ Encode(c) = Line(Len(c)) \o Left(Parts(c), 0)
      <3>1. Len(c) \in 0 .. 4
        BY CommandsAre
      <3> QED
        BY <3>1, PartsAre, LinesAre
    <2>5. Encode(c) \o Left(s, t + 1) = Line(Len(c)) \o (Left(Parts(c), 0) \o Left(s, t + 1))
      <3>1. PICK p \in Seq(Bytes) : p = Line(Len(c))
        BY <2>4
      <3>2. PICK q \in Seq(Bytes) : q = Left(Parts(c), 0)
        BY <2>4
      <3>3. PICK e \in Seq(Bytes) : e = Left(s, t + 1)
        BY <2>3
      <3>4. (p \o q) \o e = p \o (q \o e)
        BY Regrouped
      <3> QED
        BY <2>4, <3>1, <3>2, <3>3, <3>4
    <2> QED
      BY <1>1, <1>3, <1>4, <2>1, <2>2, <2>5 DEF Coming, Behind
  <1> QED
    BY <1>1, <1>3, <1>4 DEF Coming

LEMMA ComingOfAppend ==
  ASSUME NEW cs \in Seq(Commands), NEW c \in Commands, NEW t \in 0 .. Len(cs)
  PROVE  Coming(Append(cs, c), t) = Coming(cs, t) \o Encode(c)
  <1>1. PICK n \in Nat : n = Len(cs)
    OBVIOUS
  <1>2. /\ Append(cs, c) \in Seq(Commands) /\ Len(Append(cs, c)) = n + 1
        /\ \A i \in 1 .. n : Append(cs, c)[i] = cs[i]
        /\ Append(cs, c)[n + 1] = c
    BY <1>1, AppendProperties
  <1>3. PICK s \in Seq(Seq(Bytes)) :
          s = Stream(cs) /\ Len(s) = n /\ \A i \in 1 .. n : s[i] = Encode(cs[i])
    BY <1>1, StreamIs
  <1>4. PICK a \in Seq(Seq(Bytes)) :
          /\ a = Stream(Append(cs, c)) /\ Len(a) = n + 1
          /\ \A i \in 1 .. n + 1 : a[i] = Encode(Append(cs, c)[i])
    BY <1>2, StreamIs
  <1>5. PICK e \in Seq(Bytes) : e = Encode(c)
    BY PartsAre
  <1>6. /\ Append(s, e) \in Seq(Seq(Bytes)) /\ Len(Append(s, e)) = n + 1
        /\ \A i \in 1 .. n : Append(s, e)[i] = s[i]
        /\ Append(s, e)[n + 1] = e
    BY <1>3, AppendProperties
  <1>7. \A i \in 1 .. n + 1 : a[i] = Append(s, e)[i]
    <2> TAKE i \in 1 .. n + 1
    <2>1. CASE i = n + 1
      BY <1>2, <1>4, <1>5, <1>6, <2>1
    <2>2. CASE i # n + 1
      <3>1. i \in 1 .. n
        BY <2>2
      <3> QED
        BY <1>2, <1>3, <1>4, <1>6, <3>1
    <2> QED
      BY <2>1, <2>2
  <1>8. a = Append(s, e)
    BY <1>4, <1>6, <1>7, SeqEqual
  <1>9. Left(Append(s, e), t) = Left(s, t) \o e
    BY <1>1, <1>3, LeftOfAppend
  <1> QED
    BY <1>3, <1>4, <1>5, <1>8, <1>9 DEF Coming

LEMMA BehindIs ==
  ASSUME NEW c \in Commands, NEW x \in Seq(Bytes), NEW t \in 0 .. Len(c)
  PROVE  /\ Behind(c, t, x) \in Seq(Bytes)
         /\ t = Len(c) => Behind(c, t, x) = x
         /\ t < Len(c) => /\ t + 1 \in 0 .. Len(c) /\ t + 1 \in 1 .. Len(c)
                          /\ Behind(c, t, x) = Line(Len(c[t + 1]))
                               \o (c[t + 1] \o (CRLF \o Behind(c, t + 1, x)))
  <1>1. PICK s \in Seq(Seq(Bytes)) :
          /\ s = Parts(c) /\ Len(s) = Len(c)
          /\ \A i \in 1 .. Len(c) : s[i] = Line(Len(c[i])) \o (c[i] \o CRLF)
    BY PartsAre
  <1>2. t \in 0 .. Len(s)
    BY <1>1
  <1>3. /\ Left(s, t) \in Seq(Bytes)
        /\ t = Len(s) => Left(s, t) = << >>
        /\ t < Len(s) => Left(s, t) = s[t + 1] \o Left(s, t + 1)
    BY <1>2, LeftIs
  <1>4. Behind(c, t, x) \in Seq(Bytes) /\ (t = Len(c) => Behind(c, t, x) = x)
    BY <1>1, <1>3, ConcatProperties, ConcatEmptySeq DEF Behind
  <1>5. ASSUME t < Len(c)
        PROVE  /\ t + 1 \in 0 .. Len(c) /\ t + 1 \in 1 .. Len(c)
               /\ Behind(c, t, x) = Line(Len(c[t + 1])) \o (c[t + 1] \o (CRLF \o Behind(c, t + 1, x)))
    <2>1. Len(c) \in Nat /\ t + 1 \in 0 .. Len(c) /\ t + 1 \in 1 .. Len(c)
      BY <1>5, CommandsAre
    <2>2. PICK l \in Seq(Bytes) : l = Left(s, t + 1)
      BY <1>1, <2>1, LeftIs
    <2>3. PICK a \in Seq(Bytes) : a = c[t + 1] /\ Len(a) \in 0 .. 4
      BY <2>1, CommandsAre
    <2>4. PICK n \in Seq(Bytes) : n = Line(Len(a))
      BY <2>3, LinesAre
    <2>5. s[t + 1] = n \o (a \o CRLF)
      BY <1>1, <2>1, <2>3, <2>4
    <2>6. Left(s, t) = (n \o (a \o CRLF)) \o l
      BY <1>1, <1>3, <1>5, <2>2, <2>5
    <2>7. ((n \o (a \o CRLF)) \o l) \o x = n \o (a \o (CRLF \o (l \o x)))
      <3>1. PICK e \in Seq(Bytes) : e = CRLF
        BY LinesAre
      <3>2. Regroups(n, a, e, l, x)
        BY AllRegrouped
      <3> QED
        BY <3>1, <3>2 DEF Regroups
    <2> QED
      BY <1>1, <2>1, <2>2, <2>3, <2>4, <2>6, <2>7 DEF Behind
  <1> QED
    BY <1>4, <1>5

LEMMA LineEndIs ==
  ASSUME NEW x \in Seq(Bytes)
  PROVE  <<LF>> \o x \in Seq(Bytes) /\ CRLF \o x = <<CR>> \o (<<LF>> \o x)
  <1>1. PICK f \in Seq(Bytes) : f = <<CR>> /\ Len(f) = 1 /\ f[1] = CR
    <2>1. <<CR>> \in Seq(Bytes) /\ Len(<<CR>>) = 1 /\ <<CR>>[1] = CR
      BY BytesAre
    <2> QED
      BY <2>1
  <1>2. PICK l \in Seq(Bytes) : l = <<LF>> /\ Len(l) = 1 /\ l[1] = LF
    <2>1. <<LF>> \in Seq(Bytes) /\ Len(<<LF>>) = 1 /\ <<LF>>[1] = LF
      BY BytesAre
    <2> QED
      BY <2>1
  <1>3. PICK z \in Seq(Bytes) : z = f \o l /\ Len(z) = 2 /\ z[1] = CR /\ z[2] = LF
    <2>1. Len(f) = 1 /\ f[1] = CR /\ Len(l) = 1 /\ l[1] = LF
      BY <1>1, <1>2
    <2>2. /\ f \o l \in Seq(Bytes) /\ Len(f \o l) = Len(f) + Len(l)
          /\ \A i \in 1 .. Len(f) + Len(l) :
               (f \o l)[i] = IF i <= Len(f) THEN f[i] ELSE l[i - Len(f)]
      BY ConcatProperties
    <2>3. Len(f \o l) = 2 /\ (f \o l)[1] = CR /\ (f \o l)[2] = LF
      BY <2>1, <2>2
    <2> QED
      BY <2>2, <2>3
  <1>4. PICK d \in Seq(Bytes) : d = CRLF /\ Len(d) = 2 /\ d[1] = CR /\ d[2] = LF
    BY LinesAre
  <1>5. d = z
    <2>1. \A i \in 1 .. 2 : i \in {1, 2}
      OBVIOUS
    <2>2. \A i \in 1 .. 2 : d[i] = z[i]
      BY <1>3, <1>4, <2>1
    <2> QED
      BY <1>3, <1>4, <2>2, SeqEqual
  <1>6. l \o x \in Seq(Bytes)
    BY Joined
  <1>7. (f \o l) \o x = f \o (l \o x)
    BY Regrouped
  <1> QED
    BY <1>1, <1>2, <1>3, <1>4, <1>5, <1>6, <1>7

(* The parser has the argument's length, and is at the argument. *)
AtArgument(r, w, a, x) ==
  /\ r.pos <= Len(r.buf) /\ r.lastlen = Len(a)
  /\ Unread(r) \o w = a \o (CRLF \o x)

(* What is unread behind an argument: what was sent behind it, or nothing, *)
(* and the last byte of the argument's own line end is still to be read.   *)
BehindArgument(u, w, x) == u \o w = x \/ (u = << >> /\ w = <<LF>> \o x)

(* The argument is whole: it is taken as it was sent, and behind it the    *)
(* parser is at the next line, or before its own line end's last byte.     *)
LEMMA TakenReads ==
  ASSUME NEW r \in Requests, IsWhole(r),
         NEW a \in Seq(Bytes), NEW w \in Seq(Bytes), NEW x \in Seq(Bytes),
         AtArgument(r, w, a, x)
  PROVE  /\ Argument(r) = a
         /\ BehindArgument(Drop(r.buf, r.pos + r.lastlen + 2), w, x)
  <1>0. \A i \in Nat : i >= 1 => i >= 2 \/ i = 1
    OBVIOUS
  <1>1. PICK b \in Seq(Bytes) : b = r.buf
    BY RequestIs DEF InBuffer
  <1>2. PICK m \in Nat : m = r.pos
    BY RequestIs
  <1>3. PICK k \in Nat : k = Len(a) /\ r.lastlen = k
    BY DEF AtArgument
  <1>4. PICK u \in Seq(Bytes) : u = Unread(r) /\ u = Drop(b, m)
    BY <1>1, <1>2, RequestIs, UnreadIs
  <1>5. /\ Len(b) \in Nat /\ Len(u) = Len(b) - m /\ m + k < Len(b)
        /\ \A i \in 1 .. Len(u) : u[i] = b[m + i]
    <2>1. m <= Len(b) /\ m + k < Len(b)
      BY <1>1, <1>2, <1>3 DEF IsWhole, AtArgument
    <2>2. Len(u) = Len(b) - m /\ \A i \in 1 .. Len(u) : u[i] = b[m + i]
      BY <1>4, <2>1, DropIs
    <2> QED
      BY <2>1, <2>2
  <1>6. CRLF \in Seq(Bytes) /\ Len(CRLF) = 2 /\ CRLF \o x \in Seq(Bytes)
    BY LinesAre, ConcatProperties
  <1>7. SubSeq(u, 1, k) = a /\ Drop(u, k) \o w = CRLF \o x
    <2>1. Len(a) <= Len(u)
      BY <1>2, <1>3, <1>5
    <2>2. PICK y \in Seq(Bytes) : y = CRLF \o x /\ u \o w = a \o y
      BY <1>4, <1>6 DEF AtArgument
    <2>3. SubSeq(u, 1, Len(a)) = a /\ Drop(u, Len(a)) \o w = y
      BY <2>1, <2>2, FrontsAgree
    <2> QED
      BY <1>3, <2>2, <2>3
  <1>8. Argument(r) = a
    <2>1. Argument(r) = SubSeq(b, m + 1, m + k)
      BY <1>1, <1>2, <1>3 DEF Argument
    <2>2. \A i \in m + 1 .. m + k : b[i] \in Bytes
      <3> TAKE i \in m + 1 .. m + k
      <3>1. i \in 1 .. Len(b)
        BY <1>5
      <3> QED
        BY <3>1
    <2>3. /\ SubSeq(b, m + 1, m + k) \in Seq(Bytes)
          /\ Len(SubSeq(b, m + 1, m + k)) = k
          /\ \A i \in 1 .. k : SubSeq(b, m + 1, m + k)[i] = b[m + i]
      <3>1. /\ SubSeq(b, m + 1, m + k) \in Seq(Bytes)
            /\ Len(SubSeq(b, m + 1, m + k))
                 = IF m + 1 <= m + k THEN (m + k) - (m + 1) + 1 ELSE 0
            /\ \A i \in 1 .. (m + k) - (m + 1) + 1 :
                 SubSeq(b, m + 1, m + k)[i] = b[(m + 1) + i - 1]
        <4>1. m + 1 \in Int /\ m + k \in Int
          OBVIOUS
        <4> QED
          BY <2>2, <4>1, SubSeqProperties
      <3>2. (m + k) - (m + 1) + 1 = k /\ \A i \in 1 .. k : (m + 1) + i - 1 = m + i
        OBVIOUS
      <3>3. Len(SubSeq(b, m + 1, m + k)) = k
        BY <3>1
      <3> QED
        BY <3>1, <3>2, <3>3
    <2>4. \A i \in 1 .. k : a[i] = b[m + i]
      <3> TAKE i \in 1 .. k
      <3>1. k \in 0 .. Len(u) /\ i \in 1 .. Len(u)
        BY <1>5
      <3>2. SubSeq(u, 1, k)[i] = u[i]
        BY <3>1, TakeAndDrop
      <3> QED
        BY <1>5, <1>7, <3>1, <3>2
    <2> QED
      BY <1>3, <2>1, <2>3, <2>4, SeqEqual
  <1>9. PICK v \in Seq(Bytes) : v = Drop(u, k) /\ Len(v) = Len(u) - k
    <2>1. k <= Len(u)
      BY <1>5
    <2> QED
      BY <2>1, DropIs
  <1>10. Drop(r.buf, r.pos + r.lastlen + 2) = Drop(v, 2)
    <2>1. Drop(u, k) = Drop(b, m + k)
      BY <1>4, DropDrop
    <2>2. m + k \in Nat
      OBVIOUS
    <2>3. Drop(Drop(b, m + k), 2) = Drop(b, m + k + 2)
      BY <2>2, DropDrop
    <2> QED
      BY <1>1, <1>2, <1>3, <1>9, <2>1, <2>3
  <1>11. v \o w = CRLF \o x
    BY <1>7, <1>9
  <1>12. Len(v) \in Nat /\ Len(v) >= 1
    <2>1. \A i, j, l \in Nat : j + l < i => (i - j) - l >= 1
      OBVIOUS
    <2> QED
      BY <1>5, <1>9, <2>1
  <1>13. CASE Len(v) >= 2
    <2>1. Len(CRLF) <= Len(v)
      BY <1>6, <1>13
    <2>2. Drop(v, Len(CRLF)) \o w = x
      BY <1>6, <1>11, <2>1, FrontsAgree
    <2> QED
      BY <1>6, <1>8, <1>10, <2>2, Zenon DEF BehindArgument
  <1>14. CASE Len(v) = 1
    <2>1. PICK f \in Seq(Bytes) : f = <<CR>> /\ Len(f) = 1
      <3>1. <<CR>> \in Seq(Bytes) /\ Len(<<CR>>) = 1
        BY BytesAre
      <3> QED
        BY <3>1
    <2>4. Len(f) = 1
      BY <2>1
    <2>5. PICK y \in Seq(Bytes) : y = <<LF>> \o x /\ CRLF \o x = f \o y
      BY <2>1, LineEndIs
    <2>6. Drop(v, 1) \o w = y
      <3>1. Len(f) <= Len(v)
        BY <1>14, <2>4
      <3>2. v \o w = f \o y
        BY <1>11, <2>5
      <3> QED
        BY <2>4, <3>1, <3>2, FrontsAgree
    <2>7. Drop(v, 1) = << >> /\ Drop(v, 2) = << >>
      <3>1. 1 >= Len(v) /\ 2 >= Len(v)
        BY <1>14
      <3> QED
        BY <3>1, DropIs
    <2>8. w = <<LF>> \o x
      <3>1. << >> \o w = w
        OBVIOUS
      <3>2. << >> \o w = y
        BY <2>6, <2>7, Zenon
      <3> QED
        BY <2>5, <3>1, <3>2, Zenon
    <2> QED
      BY <1>8, <1>10, <2>7, <2>8, Zenon DEF BehindArgument
  <1> QED
    <2>1. Len(v) >= 2 \/ Len(v) = 1
      BY <1>0, <1>12, Zenon
    <2> QED
      BY <1>13, <1>14, <2>1, Zenon

(* The parser is before x, a length line and what comes behind it or       *)
(* nothing; or it has lost its place, and a line feed is in its way.       *)
AtLine(r, w, x) == Unread(r) \o w \in {x, <<LF>> \o x}

LEMMA LineGives ==
  ASSUME NEW r, InBuffer(r), IsLine(r), NEW w \in Seq(Bytes), NEW x \in Seq(Bytes),
         NEW n \in 0 .. 4, AtLine(r, w, Line(n) \o x)
  PROVE  ValueOf(r) = n /\ Drop(r.buf, After(r)) \o w = x
  <1>1. PICK y \in Seq(Bytes) : y = Line(n) \o x
    BY LinesAre, Joined
  <1>2. CASE Unread(r) \o w = <<LF>> \o y
    BY <1>2, NoLineAfterLF
  <1>3. CASE Unread(r) \o w = y
    <2>1. Unread(r) \o w = Line(n) \o x
      BY <1>1, <1>3
    <2> QED
      BY <2>1, LineRead
  <1> QED
    BY <1>1, <1>2, <1>3 DEF AtLine

LEMMA NoLineAtTheEnd ==
  ASSUME NEW r, InBuffer(r), NEW w \in Seq(Bytes), AtLine(r, w, << >>)
  PROVE  ~ IsLine(r)
  <1>1. PICK u \in Seq(Bytes) : u = Unread(r)
    BY UnreadIs
  <1>2. PICK y \in Seq(Bytes) : y = << >>
    BY EmptySeq
  <1>3. CASE Unread(r) \o w = <<LF>> \o y
    BY <1>3, NoLineAfterLF
  <1>4. CASE Unread(r) \o w = << >>
    <2>1. u = << >>
      BY <1>1, <1>4, ConcatEqualIffEmpty
    <2> QED
      BY <1>1, <2>1, NoLineInNothing
  <1> QED
    BY <1>2, <1>3, <1>4 DEF AtLine

(* The client sends e: it comes behind everything.                         *)
LEMMA MoreBehind ==
  ASSUME NEW r, InBuffer(r), NEW w \in Seq(Bytes), NEW x \in Seq(Bytes), NEW e \in Seq(Bytes)
  PROVE  /\ AtLine(r, w, x) => AtLine(r, w \o e, x \o e)
         /\ \A a \in Seq(Bytes) : AtArgument(r, w, a, x) => AtArgument(r, w \o e, a, x \o e)
  <1>1. PICK u \in Seq(Bytes) : u = Unread(r)
    BY UnreadIs
  <1>2. u \o (w \o e) = (u \o w) \o e
    BY Regrouped
  <1>3. ASSUME AtLine(r, w, x) PROVE AtLine(r, w \o e, x \o e)
    <2>1. CASE u \o w = x
      BY <1>1, <1>2, <2>1 DEF AtLine
    <2>2. CASE u \o w = <<LF>> \o x
      <3>1. PICK l \in Seq(Bytes) : l = <<LF>>
        <4>1. <<LF>> \in Seq(Bytes)
          BY BytesAre
        <4> QED
          BY <4>1
      <3>2. (l \o x) \o e = l \o (x \o e)
        BY Regrouped
      <3> QED
        BY <1>1, <1>2, <2>2, <3>1, <3>2 DEF AtLine
    <2> QED
      BY <1>1, <1>3, <2>1, <2>2 DEF AtLine
  <1>4. ASSUME NEW a \in Seq(Bytes), AtArgument(r, w, a, x)
        PROVE  AtArgument(r, w \o e, a, x \o e)
    <2>1. PICK l \in Seq(Bytes) : l = CRLF
      BY LinesAre
    <2>2. l \o x \in Seq(Bytes)
      BY Joined
    <2>3. (a \o (l \o x)) \o e = a \o (l \o (x \o e))
      <3>1. (a \o (l \o x)) \o e = a \o ((l \o x) \o e)
        BY <2>2, Regrouped, ZenonT(30)
      <3>2. (l \o x) \o e = l \o (x \o e)
        BY Regrouped
      <3> QED
        BY <3>1, <3>2
    <2>4. u \o w = a \o (l \o x)
      BY <1>1, <1>4, <2>1 DEF AtArgument
    <2>5. u \o (w \o e) = a \o (l \o (x \o e))
      BY <1>2, <2>3, <2>4
    <2> QED
      BY <1>1, <1>4, <2>1, <2>5 DEF AtArgument
  <1> QED
    BY <1>3, <1>4

LEMMA BehindOfMore ==
  ASSUME NEW c \in Commands, NEW t \in 0 .. Len(c), NEW x \in Seq(Bytes), NEW e \in Seq(Bytes)
  PROVE  Behind(c, t, x \o e) = Behind(c, t, x) \o e
  <1>1. PICK l \in Seq(Bytes) : l = Left(Parts(c), t)
    <2>1. Parts(c) \in Seq(Seq(Bytes)) /\ t \in 0 .. Len(Parts(c))
      BY PartsAre
    <2> QED
      BY <2>1, LeftIs
  <1>2. (l \o x) \o e = l \o (x \o e)
    BY Regrouped
  <1> QED
    BY <1>1, <1>2 DEF Behind

(* A read moves bytes from the wire to the buffer, and loses none.         *)
LEMMA ReadKeeps ==
  ASSUME wire \in Seq(Bytes), req \in Requests, NEW n \in 1 .. Len(wire), Read(n),
         HasRoom(req, n), req.pos <= Len(req.buf)
  PROVE  Unread(req') \o wire' = Unread(req) \o wire /\ req'.pos <= Len(req'.buf)
  <1>1. /\ wire' = Drop(wire, n) /\ wire' \in Seq(Bytes) /\ req' \in Requests
        /\ req'.buf = req.buf \o SubSeq(wire, 1, n) /\ Len(req'.buf) = Len(req.buf) + n
        /\ req'.pos = req.pos
        /\ wire = SubSeq(wire, 1, n) \o Drop(wire, n) /\ SubSeq(wire, 1, n) \in Seq(Bytes)
    BY ReadIs
  <1>2. PICK b \in Seq(Bytes) : b = req.buf
    BY RequestIs DEF InBuffer
  <1>3. PICK m \in 0 .. Len(b) : m = req.pos
    BY <1>2, RequestIs
  <1>4. PICK f \in Seq(Bytes) : f = SubSeq(wire, 1, n)
    BY <1>1
  <1>5. PICK v \in Seq(Bytes) : v = wire'
    BY <1>1
  <1>6. Drop(b \o f, m) = Drop(b, m) \o f
    BY DropOfConcat
  <1>7. PICK u \in Seq(Bytes) : u = Drop(b, m)
    BY DropIs
  <1>8. Unread(req) = u
    BY <1>2, <1>3, <1>7, RequestIs, UnreadIs
  <1>9. Unread(req') = u \o f
    <2>1. Unread(req') = Drop(req'.buf, req'.pos)
      BY <1>1, RequestIs, UnreadIs
    <2> QED
      BY <1>1, <1>2, <1>3, <1>4, <1>6, <1>7, <2>1
  <1>10. (u \o f) \o v = u \o (f \o v)
    BY Regrouped
  <1>11. req'.pos <= Len(req'.buf)
    BY <1>1, RequestIs
  <1> QED
    BY <1>1, <1>4, <1>5, <1>8, <1>9, <1>10, <1>11

-----------------------------------------------------------------------------
(* The command at hand *)

Current == sent[Len(done) + 1]
Rest(t) == Behind(Current, t, Coming(sent, Len(done) + 1))
At      == Len(Current) - req.multilen

Between == pc = "argc" \/ (pc = "poll" /\ req.multilen = 0)
Within  == pc = "argv" \/ (pc = "poll" /\ req.multilen # 0)

InSync ==
  /\ Len(done) <= Len(sent)
  /\ \A i \in 1 .. Len(done) : done[i] = sent[i]

(* Between two commands all that is read and sent and not processed is     *)
(* commands.                                                               *)
AtCommand == Between =>
  /\ req.multilen = 0 /\ req.lastlen = 0 /\ req.pos <= Len(req.buf)
  /\ AtLine(req, wire, Coming(sent, Len(done)))

(* Within one, the first At arguments are taken; idx may be beyond them,   *)
(* when it was not reset, and then some argument cannot be placed.         *)
InCommand == Within =>
  /\ Len(done) < Len(sent) /\ Len(req.argv) = Len(Current)
  /\ req.multilen \in 1 .. Len(Current) /\ req.idx >= At
  /\ req.idx = At => \A j \in 1 .. At : req.argv[j] = Current[j]
  /\ req.lastlen = 0 => pc = "argv" /\ AtLine(req, wire, Rest(At))
  /\ req.lastlen # 0 => AtArgument(req, wire, Current[At + 1], Rest(At + 1))

AtEnd == pc = "end" =>
  /\ Len(done) < Len(sent) /\ req.argv = Current
  /\ req.multilen = 0 /\ req.lastlen = 0
  /\ AtLine(req, wire, Coming(sent, Len(done) + 1))

Parsing == InSync /\ AtCommand /\ InCommand /\ AtEnd
Clean   == hazards \cap {"overflow", "empty"} = {}

(* What the types give in every state. *)
LEMMA Sorts ==
  ASSUME Typed
  PROVE  /\ wire \in Seq(Bytes) /\ sent \in Seq(Commands) /\ done \in Seq(Seq(Seq(Bytes)))
         /\ Len(sent) \in Nat /\ Len(done) \in Nat
         /\ req \in Requests /\ InBuffer(req)
  BY RequestIs DEF Typed, TypeOK

LEMMA CurrentIs ==
  ASSUME Typed, Len(done) < Len(sent)
  PROVE  /\ Current \in Commands /\ Len(done) + 1 \in 0 .. Len(sent)
         /\ Len(done) \in 0 .. Len(sent)
         /\ Coming(sent, Len(done) + 1) \in Seq(Bytes)
         /\ Coming(sent, Len(done)) = Line(Len(Current)) \o Rest(0)
         /\ \A t \in 0 .. Len(Current) : Rest(t) \in Seq(Bytes)
  <1>1. PICK d \in Nat : d = Len(done) /\ d < Len(sent) /\ sent \in Seq(Commands)
    BY Sorts
  <1>2. d \in 0 .. Len(sent) /\ d + 1 \in 0 .. Len(sent)
    BY <1>1
  <1>3. /\ sent[d + 1] \in Commands
        /\ Coming(sent, d) = Line(Len(sent[d + 1])) \o Behind(sent[d + 1], 0, Coming(sent, d + 1))
    BY <1>1, <1>2, ComingIs
  <1>4. Coming(sent, d + 1) \in Seq(Bytes)
    BY <1>1, <1>2, ComingIs
  <1>5. \A t \in 0 .. Len(sent[d + 1]) :
          Behind(sent[d + 1], t, Coming(sent, d + 1)) \in Seq(Bytes)
    BY <1>3, <1>4, BehindIs
  <1> QED
    BY <1>1, <1>2, <1>3, <1>4, <1>5 DEF Current, Rest

LEMMA ParsingInit == Init => Parsing
  <1> SUFFICES ASSUME Init PROVE Parsing
    OBVIOUS
  <1>1. pc = "poll" /\ sent = << >> /\ done = << >> /\ wire = << >> /\ req = NewRequest
    BY DEF Init
  <1>2. InSync
    BY <1>1 DEF InSync
  <1>3. /\ req.multilen = 0 /\ req.lastlen = 0 /\ req.pos = 0 /\ req.buf = << >>
        /\ req \in Requests
    BY <1>1, NewRequestIs
  <1>4. AtLine(req, wire, Coming(sent, Len(done)))
    <2>1. Coming(sent, Len(done)) = << >>
      <3>1. << >> \in Seq(Commands) /\ Len(<< >>) = 0 /\ 0 \in 0 .. Len(<< >>)
        OBVIOUS
      <3>2. Coming(<< >>, 0) = << >>
        BY <3>1, ComingIs
      <3> QED
        BY <1>1, <3>1, <3>2
    <2>2. Unread(req) = << >>
      <3>1. SubSeq(<< >>, 1, 0) = << >>
        BY SubSeqEmpty
      <3> QED
        BY <1>3, <3>1 DEF Unread
    <2>3. << >> \o << >> = << >>
      OBVIOUS
    <2> QED
      BY <1>1, <2>1, <2>2, <2>3 DEF AtLine
  <1>5. AtCommand
    <2>1. Len(<< >>) = 0
      OBVIOUS
    <2> QED
      BY <1>3, <1>4, <2>1 DEF AtCommand
  <1>6. InCommand /\ AtEnd
    BY <1>1, <1>3 DEF InCommand, AtEnd, Within
  <1> QED
    BY <1>2, <1>5, <1>6 DEF Parsing

(* A client that sends another command changes nothing before it.          *)
LEMMA SendParses ==
  ASSUME Typed, Parsing, NEW c \in Commands, Send(c)
  PROVE  Parsing'
  <1>1. /\ wire \in Seq(Bytes) /\ sent \in Seq(Commands) /\ req \in Requests /\ InBuffer(req)
        /\ Len(sent) \in Nat /\ Len(done) \in Nat
    BY Sorts
  <1>2. /\ wire' = wire \o Encode(c) /\ sent' = Append(sent, c)
        /\ req' = req /\ pc' = pc /\ done' = done
    BY DEF Send
  <1>3. PICK e \in Seq(Bytes) : e = Encode(c)
    BY PartsAre
  <1>4. Len(sent') = Len(sent) + 1 /\ \A i \in 1 .. Len(sent) : sent'[i] = sent[i]
    BY <1>1, <1>2, AppendProperties
  <1>5. InSync'
    <2>1. Len(done) <= Len(sent) /\ \A i \in 1 .. Len(done) : done[i] = sent[i]
      BY DEF Parsing, InSync
    <2>2. \A i \in 1 .. Len(done) : i \in 1 .. Len(sent)
      BY <1>1, <2>1
    <2> QED
      BY <1>1, <1>2, <1>4, <2>1, <2>2 DEF InSync
  <1>6. \A t \in 0 .. Len(sent) : /\ Coming(sent', t) = Coming(sent, t) \o e
                                  /\ Coming(sent, t) \in Seq(Bytes)
    BY <1>1, <1>2, <1>3, ComingOfAppend, ComingIs
  <1>7. Len(done) \in 0 .. Len(sent)
    BY <1>1 DEF Parsing, InSync
  <1>8. AtCommand'
    <2> SUFFICES ASSUME Between PROVE AtLine(req, wire \o e, Coming(sent', Len(done)))
      BY <1>2, <1>3 DEF AtCommand, Between, Parsing
    <2>1. AtLine(req, wire, Coming(sent, Len(done)))
      BY DEF AtCommand, Parsing
    <2>2. AtLine(req, wire \o e, Coming(sent, Len(done)) \o e)
      BY <1>1, <1>6, <1>7, <2>1, MoreBehind
    <2> QED
      BY <1>6, <1>7, <2>2
  <1>9. ASSUME Len(done) < Len(sent)
        PROVE  /\ Current' = Current /\ At' = At
               /\ \A t \in 0 .. Len(Current) : Rest(t)' = Rest(t) \o e
    <2>1. Current' = Current
      <3>1. Len(done) + 1 \in 1 .. Len(sent)
        BY <1>1, <1>9
      <3> QED
        BY <1>2, <1>4, <3>1 DEF Current
    <2>2. Len(done) + 1 \in 0 .. Len(sent)
      BY <1>1, <1>9
    <2>3. Current \in Commands
      BY <1>9, CurrentIs
    <2>4. \A t \in 0 .. Len(Current) :
            Behind(Current, t, Coming(sent, Len(done) + 1) \o e)
              = Behind(Current, t, Coming(sent, Len(done) + 1)) \o e
      BY <1>6, <2>2, <2>3, BehindOfMore
    <2>5. \A t \in 0 .. Len(Current) : Rest(t)' = Rest(t) \o e
      BY <1>2, <1>6, <2>1, <2>2, <2>4 DEF Rest
    <2> QED
      BY <1>2, <2>1, <2>5 DEF At
  <1>10. InCommand'
    <2> SUFFICES ASSUME Within PROVE InCommand'
      BY <1>2 DEF InCommand, Within
    <2>1. /\ Len(done) < Len(sent) /\ Len(req.argv) = Len(Current)
          /\ req.multilen \in 1 .. Len(Current) /\ req.idx >= At
          /\ req.lastlen = 0 => pc = "argv" /\ AtLine(req, wire, Rest(At))
          /\ req.lastlen # 0 => AtArgument(req, wire, Current[At + 1], Rest(At + 1))
          /\ req.idx = At => \A j \in 1 .. At : req.argv[j] = Current[j]
      BY DEF Parsing, InCommand
    <2>2. Current' = Current /\ At' = At /\ Len(done') < Len(sent')
      BY <1>1, <1>2, <1>4, <1>9, <2>1
    <2>3. /\ Current \in Commands /\ Len(Current) \in 1 .. 4
          /\ At \in 0 .. Len(Current) /\ At + 1 \in 0 .. Len(Current) /\ At + 1 \in 1 .. Len(Current)
      <3>1. Current \in Commands /\ Len(Current) \in 1 .. 4
        BY <2>1, CurrentIs, CommandsAre
      <3> QED
        BY <2>1, <3>1 DEF At
    <2>4. Rest(At) \in Seq(Bytes) /\ Rest(At + 1) \in Seq(Bytes) /\ Current[At + 1] \in Seq(Bytes)
      BY <2>1, <2>3, CurrentIs, CommandsAre
    <2>5. req.lastlen = 0 => pc = "argv" /\ AtLine(req, wire \o e, Rest(At) \o e)
      BY <1>1, <2>1, <2>4, MoreBehind
    <2>6. req.lastlen # 0 => AtArgument(req, wire \o e, Current[At + 1], Rest(At + 1) \o e)
      BY <1>1, <2>1, <2>4, MoreBehind
    <2>7. Rest(At)' = Rest(At) \o e /\ Rest(At + 1)' = Rest(At + 1) \o e
      <3>1. \A t \in 0 .. Len(Current) : Rest(t)' = Rest(t) \o e
        BY <1>9, <2>1
      <3>2. \A t : Rest(t)' = Behind(Current', t, Coming(sent', Len(done') + 1))
        BY DEF Rest
      <3>3. Rest(At)' = Behind(Current', At', Coming(sent', Len(done') + 1))
        BY DEF Rest
      <3>4. Rest(At + 1)' = Behind(Current', At' + 1, Coming(sent', Len(done') + 1))
        BY DEF Rest
      <3> QED
        BY <2>2, <2>3, <3>1, <3>2, <3>3, <3>4
    <2> QED
      BY <1>2, <1>3, <2>1, <2>2, <2>5, <2>6, <2>7 DEF InCommand
  <1>11. AtEnd'
    <2> SUFFICES ASSUME pc = "end" PROVE AtEnd'
      BY <1>2 DEF AtEnd
    <2>1. /\ Len(done) < Len(sent) /\ req.argv = Current
          /\ req.multilen = 0 /\ req.lastlen = 0
          /\ AtLine(req, wire, Coming(sent, Len(done) + 1))
      BY DEF AtEnd, Parsing
    <2>2. Len(done) + 1 \in 0 .. Len(sent)
      BY <1>1, <2>1
    <2>3. AtLine(req, wire \o e, Coming(sent, Len(done) + 1) \o e)
      BY <1>1, <1>6, <2>1, <2>2, MoreBehind
    <2>4. AtLine(req, wire \o e, Coming(sent', Len(done) + 1))
      BY <1>6, <2>2, <2>3
    <2>5. Current' = Current /\ Len(done) < Len(sent')
      BY <1>1, <1>4, <1>9, <2>1
    <2> QED
      BY <1>2, <1>3, <2>1, <2>4, <2>5 DEF AtEnd
  <1> QED
    BY <1>5, <1>8, <1>10, <1>11 DEF Parsing

(* At the place in the command where the parser is. *)
LEMMA PlaceIs ==
  ASSUME Typed, Parsing, Within
  PROVE  /\ Len(done) < Len(sent) /\ Current \in Commands /\ Len(Current) \in 1 .. 4
         /\ Len(req.argv) = Len(Current)
         /\ req.multilen \in 1 .. Len(Current)
         /\ At \in 0 .. Len(Current) /\ At < Len(Current)
         /\ At + 1 \in 0 .. Len(Current) /\ At + 1 \in 1 .. Len(Current)
         /\ Rest(At) \in Seq(Bytes) /\ Rest(At + 1) \in Seq(Bytes)
         /\ Current[At + 1] \in Seq(Bytes) /\ Len(Current[At + 1]) \in 0 .. 4
         /\ Rest(At) = Line(Len(Current[At + 1])) \o (Current[At + 1] \o (CRLF \o Rest(At + 1)))
         /\ At + 1 = Len(Current) => Rest(At + 1) = Coming(sent, Len(done) + 1)
  <1>1. /\ Len(done) < Len(sent) /\ Len(req.argv) = Len(Current)
        /\ req.multilen \in 1 .. Len(Current)
    BY DEF Parsing, InCommand
  <1>2. Current \in Commands /\ Coming(sent, Len(done) + 1) \in Seq(Bytes)
    BY <1>1, CurrentIs
  <1>3. Len(Current) \in 1 .. 4
    BY <1>2, CommandsAre
  <1>4. /\ At \in 0 .. Len(Current) /\ At < Len(Current)
        /\ At + 1 \in 0 .. Len(Current) /\ At + 1 \in 1 .. Len(Current)
    BY <1>1, <1>3 DEF At
  <1>5. Rest(At) \in Seq(Bytes) /\ Rest(At + 1) \in Seq(Bytes)
    BY <1>1, <1>4, CurrentIs
  <1>6. Current[At + 1] \in Seq(Bytes) /\ Len(Current[At + 1]) \in 0 .. 4
    BY <1>2, <1>4, CommandsAre
  <1>7. Rest(At) = Line(Len(Current[At + 1])) \o (Current[At + 1] \o (CRLF \o Rest(At + 1)))
    BY <1>2, <1>4, BehindIs DEF Rest
  <1>8. At + 1 = Len(Current) => Rest(At + 1) = Coming(sent, Len(done) + 1)
    BY <1>2, <1>4, BehindIs DEF Rest
  <1> QED
    BY <1>1, <1>2, <1>3, <1>4, <1>5, <1>6, <1>7, <1>8

LEMMA ReadParses ==
  ASSUME Typed, Parsing, NEW n \in 1 .. Len(wire), Read(n), HasRoom(req, n)
  PROVE  Parsing'
  <1>1. wire \in Seq(Bytes) /\ req \in Requests
    BY Sorts
  <1>2. /\ pc = "poll" /\ pc' = IF req.multilen = 0 THEN "argc" ELSE "argv"
        /\ sent' = sent /\ done' = done
    BY DEF Read
  <1>3. /\ req'.argv = req.argv /\ req'.multilen = req.multilen
        /\ req'.lastlen = req.lastlen /\ req'.idx = req.idx
    BY <1>1, ReadIs
  <1>4. req.pos <= Len(req.buf)
    BY <1>2 DEF Parsing, AtCommand, InCommand, Between, Within, AtArgument
  <1>5. Unread(req') \o wire' = Unread(req) \o wire /\ req'.pos <= Len(req'.buf)
    BY <1>1, <1>4, ReadKeeps
  <1>6. InSync'
    BY <1>2 DEF Parsing, InSync
  <1>7. \A x : AtLine(req, wire, x) => AtLine(req', wire', x)
    BY <1>5 DEF AtLine
  <1>8. \A a, x : AtArgument(req, wire, a, x) => AtArgument(req', wire', a, x)
    BY <1>3, <1>5 DEF AtArgument
  <1>9. AtCommand'
    <2> SUFFICES ASSUME Between' PROVE AtCommand'
      BY DEF AtCommand
    <2>1. Between
      BY <1>2, <1>3 DEF Between
    <2>2. /\ req.multilen = 0 /\ req.lastlen = 0
          /\ AtLine(req, wire, Coming(sent, Len(done)))
      BY <2>1 DEF Parsing, AtCommand
    <2>3. AtLine(req', wire', Coming(sent, Len(done)))
      BY <1>7, <2>2
    <2> QED
      BY <1>2, <1>3, <1>5, <2>2, <2>3 DEF AtCommand
  <1>10. InCommand'
    <2> SUFFICES ASSUME Within' PROVE InCommand'
      BY DEF InCommand
    <2>1. Within
      BY <1>2, <1>3 DEF Within
    <2>2. /\ Len(done) < Len(sent) /\ Len(req.argv) = Len(Current)
          /\ req.multilen \in 1 .. Len(Current) /\ req.idx >= At
          /\ req.lastlen # 0
          /\ AtArgument(req, wire, Current[At + 1], Rest(At + 1))
          /\ req.idx = At => \A j \in 1 .. At : req.argv[j] = Current[j]
      BY <1>2, <2>1 DEF Parsing, InCommand
    <2>3. Current' = Current /\ At' = At
      BY <1>2, <1>3 DEF Current, At
    <2>4. Rest(At + 1)' = Rest(At + 1)
      BY <1>2, <2>3 DEF Rest
    <2>5. AtArgument(req', wire', Current[At + 1], Rest(At + 1))
      BY <1>8, <2>2
    <2> QED
      BY <1>2, <1>3, <2>2, <2>3, <2>4, <2>5 DEF InCommand
  <1>11. AtEnd'
    BY <1>2 DEF AtEnd
  <1> QED
    BY <1>6, <1>9, <1>10, <1>11 DEF Parsing

LEMMA StopParses ==
  ASSUME Typed, Parsing, pc' \in {"closed", "fault"}, sent' = sent, done' = done
  PROVE  Parsing'
  <1>1. InSync'
    BY DEF Parsing, InSync
  <1>2. AtCommand' /\ InCommand' /\ AtEnd'
    BY DEF AtCommand, InCommand, AtEnd, Between, Within
  <1> QED
    BY <1>1, <1>2 DEF Parsing

(* The line tells how many arguments there are. *)
LEMMA ArgcParses ==
  ASSUME Typed, Parsing, pc = "argc", IsLine(req),
         req' = [req EXCEPT !.multilen = ValueOf(req), !.pos = After(req),
                            !.argv = [i \in 1 .. ValueOf(req) |-> <<>>]],
         pc' = IF ValueOf(req) = 0 THEN "end" ELSE "argv",
         UNCHANGED <<wire, sent, done>>
  PROVE  Parsing'
  <1>1. /\ wire \in Seq(Bytes) /\ sent \in Seq(Commands) /\ req \in Requests /\ InBuffer(req)
        /\ Len(sent) \in Nat /\ Len(done) \in Nat
    BY Sorts
  <1>2. /\ req.multilen = 0 /\ req.lastlen = 0 /\ req.pos <= Len(req.buf)
        /\ AtLine(req, wire, Coming(sent, Len(done)))
    BY DEF Parsing, AtCommand, Between
  <1>3. Len(done) < Len(sent)
    <2>1. Len(done) <= Len(sent)
      BY DEF Parsing, InSync
    <2>2. CASE Len(done) = Len(sent)
      <3>1. Coming(sent, Len(done)) = << >>
        BY <1>1, <2>2, ComingIs
      <3> QED
        BY <1>1, <1>2, <3>1, NoLineAtTheEnd
    <2> QED
      BY <1>1, <2>1, <2>2
  <1>4. /\ Current \in Commands /\ Rest(0) \in Seq(Bytes) /\ Len(Current) \in 1 .. 4
        /\ Coming(sent, Len(done)) = Line(Len(Current)) \o Rest(0)
    <2>1. Current \in Commands /\ Len(Current) \in 1 .. 4
      BY <1>3, CurrentIs, CommandsAre
    <2>2. 0 \in 0 .. Len(Current)
      BY <2>1
    <2> QED
      BY <1>3, <2>1, <2>2, CurrentIs
  <1>5. ValueOf(req) = Len(Current) /\ Drop(req.buf, After(req)) \o wire = Rest(0)
    <2>1. Len(Current) \in 0 .. 4
      BY <1>4
    <2> QED
      <3>1. PICK c, x : c = Len(Current) /\ x = Rest(0)
        OBVIOUS
      <3>2. c \in 0 .. 4 /\ x \in Seq(Bytes) /\ AtLine(req, wire, Line(c) \o x)
        BY <1>2, <1>4, <2>1, <3>1
      <3>3. ValueOf(req) = c /\ Drop(req.buf, After(req)) \o wire = x
        BY <1>1, <3>2, LineGives
      <3> QED
        BY <3>1, <3>3
  <1>6. PICK v \in Seq(Seq(Bytes)) : v = Vector(ValueOf(req)) /\ Len(v) = Len(Current)
    <2>1. Len(Current) \in 0 .. 4
      BY <1>4
    <2> QED
      BY <1>5, <2>1, VectorIs
  <1>7. req' = [req EXCEPT !.multilen = ValueOf(req), !.pos = After(req), !.argv = v]
    BY <1>6 DEF Vector
  <1>8. /\ req'.multilen = Len(Current) /\ req'.pos = After(req) /\ req'.argv = v
        /\ req'.buf = req.buf /\ req'.lastlen = 0 /\ req'.idx = req.idx /\ req.idx \in Nat
    BY <1>1, <1>2, <1>5, <1>7 DEF Requests
  <1>9. Unread(req') \o wire = Rest(0)
    BY <1>5, <1>8 DEF Unread, Drop
  <1>10. pc' = "argv" /\ sent' = sent /\ done' = done /\ wire' = wire
    <2>1. \A n \in 1 .. 4 : n # 0
      OBVIOUS
    <2>2. Len(Current) \in 1 .. 4 /\ ValueOf(req) = Len(Current)
      BY <1>4, <1>5
    <2>3. ValueOf(req) # 0
      BY <2>1, <2>2, Zenon
    <2> QED
      BY <2>3
  <1>11. InSync' /\ AtCommand' /\ AtEnd'
    BY <1>10 DEF Parsing, InSync, AtCommand, AtEnd, Between
  <1>12. InCommand'
    <2>1. Current' = Current /\ At' = 0
      <3>1. Current' = Current
        BY <1>10 DEF Current
      <3>2. Len(Current) - Len(Current) = 0
        BY <1>4
      <3> QED
        BY <1>8, <3>1, <3>2 DEF At
    <2>2. Rest(At)' = Rest(0)
      BY <1>10, <2>1 DEF Rest
    <2>3. AtLine(req', wire', Rest(At)')
      BY <1>9, <1>10, <2>2 DEF AtLine
    <2>4. req'.multilen \in 1 .. Len(Current)
      BY <1>4, <1>8
    <2>5. \A j \in 1 .. 0 : FALSE
      OBVIOUS
    <2> QED
      BY <1>3, <1>6, <1>8, <1>10, <2>1, <2>3, <2>4, <2>5 DEF InCommand
  <1> QED
    BY <1>11, <1>12 DEF Parsing

(* A command is processed, and the next one's bytes come to the front.     *)
LEMMA FinishParses ==
  ASSUME Typed, Parsing, Finish
  PROVE  Parsing'
  <1>1. /\ wire \in Seq(Bytes) /\ sent \in Seq(Commands) /\ req \in Requests /\ InBuffer(req)
        /\ Len(sent) \in Nat /\ Len(done) \in Nat /\ done \in Seq(Seq(Seq(Bytes)))
    BY Sorts
  <1>2. pc' = "poll" /\ wire' = wire /\ sent' = sent /\ done' = Append(done, req.argv)
    BY DEF Finish
  <1>3. /\ Len(done) < Len(sent) /\ req.argv = Current /\ req.multilen = 0 /\ req.lastlen = 0
        /\ AtLine(req, wire, Coming(sent, Len(done) + 1))
    BY DEF Parsing, AtEnd, Finish
  <1>4. /\ Len(done') = Len(done) + 1 /\ done'[Len(done) + 1] = Current
        /\ \A i \in 1 .. Len(done) : done'[i] = done[i]
    <2>1. req.argv \in Seq(Seq(Bytes))
      BY <1>1, RequestIs
    <2> QED
      BY <1>1, <1>2, <1>3, <2>1, AppendProperties
  <1>5. InSync'
    <2>1. \A i \in 1 .. Len(done) : done[i] = sent[i]
      BY DEF Parsing, InSync
    <2>2. Len(done') <= Len(sent)
      BY <1>1, <1>3, <1>4
    <2>3. \A i \in 1 .. Len(done) + 1 : i = Len(done) + 1 \/ i \in 1 .. Len(done)
      <3>1. \A d \in Nat : \A i \in 1 .. d + 1 : i = d + 1 \/ i \in 1 .. d
        OBVIOUS
      <3> QED
        BY <1>1, <3>1
    <2> QED
      BY <1>2, <1>4, <2>1, <2>2, <2>3 DEF InSync, Current
  <1>6. /\ req'.multilen = 0 /\ req'.lastlen = 0 /\ req'.pos <= Len(req'.buf)
        /\ Unread(req') = Unread(req)
    <2>1. PICK u \in Seq(Bytes) : u = Unread(req) /\ u = Drop(req.buf, req.pos)
      BY <1>1, UnreadIs
    <2>2. CASE req.pos < Len(req.buf)
      <3>1. req' = [req EXCEPT !.buf = u, !.pos = 0, !.argv = << >>]
        BY <2>1, <2>2 DEF Finish, Drop
      <3>2. req'.buf = u /\ req'.pos = 0 /\ req'.multilen = 0 /\ req'.lastlen = 0
        BY <1>1, <1>3, <3>1 DEF Requests
      <3>3. SubSeq(u, 0 + 1, Len(u)) = u /\ Len(u) >= 0
        BY SubSeqFull
      <3> QED
        BY <2>1, <3>2, <3>3 DEF Unread
    <2>3. CASE ~ req.pos < Len(req.buf)
      <3>1. req' = NewRequest
        BY <2>3 DEF Finish, Reset
      <3>2. /\ req'.multilen = 0 /\ req'.lastlen = 0 /\ req'.pos = 0 /\ req'.buf = << >>
        BY <3>1, NewRequestIs
      <3>3. Unread(req') = << >>
        <4>1. SubSeq(<< >>, 1, 0) = << >> /\ Len(<< >>) = 0
          BY SubSeqEmpty
        <4> QED
          BY <3>2, <4>1 DEF Unread
      <3>4. u = << >>
        <4>1. PICK b \in Seq(Bytes) : b = req.buf
          BY <1>1 DEF InBuffer
        <4>2. PICK m \in Nat : m = req.pos
          BY <1>1 DEF InBuffer
        <4>3. m >= Len(b)
          BY <2>3, <4>1, <4>2
        <4> QED
          BY <2>1, <4>1, <4>2, <4>3, DropIs
      <3> QED
        BY <2>1, <3>2, <3>3, <3>4
    <2> QED
      BY <2>2, <2>3
  <1>7. AtCommand'
    <2>1. AtLine(req', wire', Coming(sent, Len(done) + 1))
      BY <1>2, <1>3, <1>6 DEF AtLine
    <2> QED
      BY <1>2, <1>4, <1>6, <2>1 DEF AtCommand
  <1>8. InCommand' /\ AtEnd'
    BY <1>2, <1>6 DEF InCommand, AtEnd, Within
  <1> QED
    BY <1>5, <1>7, <1>8 DEF Parsing

(* Whether it has just read the argument's length or knew it: the parser   *)
(* is at the argument.                                                     *)
LEMMA SizedReads ==
  ASSUME Typed, Parsing, pc = "argv", req.lastlen # 0 \/ IsLine(req)
  PROVE  AtArgument(Sized(req), wire, Current[At + 1], Rest(At + 1))
  <1>1. wire \in Seq(Bytes) /\ req \in Requests /\ InBuffer(req) /\ Within
    BY Sorts DEF Within
  <1>2. /\ Current[At + 1] \in Seq(Bytes) /\ Len(Current[At + 1]) \in 0 .. 4
        /\ Rest(At + 1) \in Seq(Bytes)
        /\ Rest(At) = Line(Len(Current[At + 1])) \o (Current[At + 1] \o (CRLF \o Rest(At + 1)))
    BY <1>1, PlaceIs
  <1>3. CASE req.lastlen # 0
    <2>1. Sized(req) = req
      BY <1>3 DEF Sized
    <2> QED
      BY <1>1, <1>3, <2>1 DEF Parsing, InCommand
  <1>4. CASE req.lastlen = 0
    <2>1. IsLine(req) /\ AtLine(req, wire, Rest(At))
      BY <1>1, <1>4 DEF Parsing, InCommand
    <2>2. PICK a \in Seq(Bytes) : a = Current[At + 1] /\ Len(a) \in 0 .. 4
      BY <1>2
    <2>3. PICK x \in Seq(Bytes) : x = a \o (CRLF \o Rest(At + 1))
      <3>1. CRLF \o Rest(At + 1) \in Seq(Bytes)
        BY <1>2, LinesAre, Joined
      <3> QED
        BY <3>1, Joined
    <2>4. AtLine(req, wire, Line(Len(a)) \o x)
      BY <1>2, <2>1, <2>2, <2>3
    <2>5. ValueOf(req) = Len(a) /\ Drop(req.buf, After(req)) \o wire = x
      BY <1>1, <2>1, <2>2, <2>4, LineGives
    <2>6. /\ Sized(req).buf = req.buf /\ Sized(req).pos = After(req)
          /\ Sized(req).lastlen = Len(a) /\ Sized(req).pos <= Len(req.buf)
      BY <1>1, <1>4, <2>1, <2>5, SizedIs
    <2>7. Unread(Sized(req)) = Drop(req.buf, After(req))
      BY <2>6 DEF Unread, Drop
    <2> QED
      BY <2>2, <2>3, <2>5, <2>6, <2>7 DEF AtArgument
  <1> QED
    BY <1>3, <1>4

(* The argument is not whole: its length is known, unless it is empty.     *)
LEMMA SizedParses ==
  ASSUME Typed, Parsing, pc = "argv", req.lastlen # 0 \/ IsLine(req), Sized(req).lastlen # 0,
         req' = Sized(req), pc' = "poll", UNCHANGED <<wire, sent, done>>
  PROVE  Parsing'
  <1>1. req \in Requests /\ Within
    BY Sorts DEF Within
  <1>2. /\ req'.argv = req.argv /\ req'.multilen = req.multilen /\ req'.idx = req.idx
        /\ req'.lastlen # 0
    BY <1>1, SizedIs
  <1>3. AtArgument(req', wire, Current[At + 1], Rest(At + 1))
    BY SizedReads
  <1>4. /\ Len(done) < Len(sent) /\ Len(req.argv) = Len(Current)
        /\ req.multilen \in 1 .. Len(Current) /\ req.idx >= At
        /\ req.idx = At => \A j \in 1 .. At : req.argv[j] = Current[j]
    BY <1>1 DEF Parsing, InCommand
  <1>5. Current' = Current /\ At' = At
    BY <1>2 DEF Current, At
  <1>6. Rest(At + 1)' = Rest(At + 1)
    BY <1>5 DEF Rest
  <1>7. InCommand'
    BY <1>2, <1>3, <1>4, <1>5, <1>6 DEF InCommand
  <1>8. req'.multilen # 0
    BY <1>1, <1>2, <1>4, PlaceIs
  <1>9. InSync' /\ AtCommand' /\ AtEnd'
    BY <1>8 DEF Parsing, InSync, AtCommand, AtEnd, Between
  <1> QED
    BY <1>7, <1>9 DEF Parsing

(* It is whole, and there is a place for it in the vector.                 *)
LEMMA TakenParses ==
  ASSUME Typed, Parsing, pc = "argv", req.lastlen # 0 \/ IsLine(req),
         IsWhole(Sized(req)), Sized(req).idx \in 0 .. Len(Sized(req).argv) - 1,
         req' = Taken(Sized(req)), pc' = IF Sized(req).multilen = 1 THEN "end" ELSE "argv",
         UNCHANGED <<wire, sent, done>>
  PROVE  Parsing'
  <1> DEFINE r == Sized(req)
  <1>1. wire \in Seq(Bytes) /\ req \in Requests /\ Within
    BY Sorts DEF Within
  <1>2. /\ r \in Requests /\ r.buf = req.buf /\ r.argv = req.argv
        /\ r.multilen = req.multilen /\ r.idx = req.idx
    BY <1>1, SizedIs
  <1>3. AtArgument(r, wire, Current[At + 1], Rest(At + 1))
    BY SizedReads
  <1>4. /\ Len(done) < Len(sent) /\ Current \in Commands /\ Len(Current) \in 1 .. 4
        /\ Len(req.argv) = Len(Current)
        /\ req.multilen \in 1 .. Len(Current)
        /\ At \in 0 .. Len(Current) /\ At < Len(Current)
        /\ Rest(At + 1) \in Seq(Bytes) /\ Current[At + 1] \in Seq(Bytes)
        /\ At + 1 = Len(Current) => Rest(At + 1) = Coming(sent, Len(done) + 1)
    BY <1>1, PlaceIs
  <1>5. /\ req.idx >= At
        /\ req.idx = At => \A j \in 1 .. At : req.argv[j] = Current[j]
    BY <1>1 DEF Parsing, InCommand
  <1>6. IsWhole(r) /\ r.idx \in 0 .. Len(r.argv) - 1 /\ r.multilen # 0
    BY <1>2, <1>4
  <1>7. req' = Taken(r) /\ pc' = IF r.multilen = 1 THEN "end" ELSE "argv"
    OBVIOUS
  <1> HIDE DEF r
  <1>8. /\ req' \in Requests
        /\ req'.buf = r.buf /\ req'.pos = r.pos + r.lastlen + 2
        /\ req'.idx = r.idx + 1 /\ req'.lastlen = 0
        /\ req'.multilen = r.multilen - 1
        /\ Len(req'.argv) = Len(r.argv)
        /\ \A j \in 1 .. Len(r.argv) :
             req'.argv[j] = IF j = r.idx + 1 THEN Argument(r) ELSE r.argv[j]
    BY <1>2, <1>6, <1>7, TakenIs, SMTT(30)
  <1>9. /\ Argument(r) = Current[At + 1]
        /\ AtLine(req', wire, Rest(At + 1))
    <2>1. /\ Argument(r) = Current[At + 1]
          /\ BehindArgument(Drop(r.buf, r.pos + r.lastlen + 2), wire, Rest(At + 1))
      BY <1>1, <1>2, <1>3, <1>4, <1>6, TakenReads
    <2>2. Unread(req') = Drop(r.buf, r.pos + r.lastlen + 2)
      BY <1>8 DEF Unread, Drop
    <2>3. << >> \o wire = wire
      BY <1>1
    <2> QED
      BY <2>1, <2>2, <2>3, Zenon DEF AtLine, BehindArgument
  <1>10. Current' = Current /\ At' = At + 1
    <2>1. Current' = Current
      BY DEF Current
    <2>2. Len(Current) - (req.multilen - 1) = (Len(Current) - req.multilen) + 1
      BY <1>4
    <2> QED
      BY <1>2, <1>8, <2>1, <2>2 DEF At
  <1>11. /\ req'.idx >= At + 1
         /\ req'.idx = At + 1 => \A j \in 1 .. At + 1 : req'.argv[j] = Current[j]
    <2>1. req.idx \in Nat /\ At \in Nat /\ req'.idx = req.idx + 1
      BY <1>1, <1>2, <1>4, <1>8, RequestIs
    <2>2. ASSUME req.idx = At PROVE \A j \in 1 .. At + 1 : req'.argv[j] = Current[j]
      <3> TAKE j \in 1 .. At + 1
      <3>1. j \in 1 .. Len(r.argv) /\ (j = At + 1 \/ j \in 1 .. At) /\ r.idx + 1 = At + 1
        BY <1>2, <1>4, <2>1, <2>2
      <3> QED
        BY <1>2, <1>5, <1>8, <1>9, <2>2, <3>1
    <2> QED
      BY <1>5, <2>1, <2>2
  <1>12. InSync'
    BY DEF Parsing, InSync
  <1>13. CASE req.multilen = 1
    <2>1. pc' = "end" /\ req'.multilen = 0 /\ At + 1 = Len(Current)
      BY <1>2, <1>4, <1>7, <1>8, <1>13 DEF At
    <2>2. req'.idx = At + 1
      <3>1. req.idx \in Nat /\ req.idx <= Len(Current) - 1
        BY <1>1, <1>2, <1>4, <1>6, RequestIs
      <3> QED
        BY <1>2, <1>4, <1>5, <1>8, <2>1, <3>1
    <2>3. req'.argv = Current
      <3>1. req'.argv \in Seq(Seq(Bytes)) /\ Current \in Seq(Seq(Bytes))
        BY <1>4, <1>8, RequestIs, CommandsAre
      <3>2. Len(req'.argv) = Len(Current)
        BY <1>2, <1>4, <1>8
      <3>3. \A j \in 1 .. Len(req'.argv) : req'.argv[j] = Current[j]
        BY <1>11, <2>1, <2>2, <3>2
      <3> QED
        BY <3>1, <3>2, <3>3, SeqEqual
    <2>4. AtLine(req', wire', Coming(sent', Len(done') + 1))
      BY <1>4, <1>9, <2>1
    <2>5. AtEnd'
      BY <1>4, <1>8, <1>10, <2>1, <2>3, <2>4 DEF AtEnd
    <2>6. AtCommand' /\ InCommand'
      BY <2>1 DEF AtCommand, InCommand, Between, Within
    <2> QED
      BY <1>12, <2>5, <2>6 DEF Parsing
  <1>14. CASE req.multilen # 1
    <2>1. pc' = "argv" /\ req'.multilen \in 1 .. Len(Current)
      <3>1. \A n, m \in Int : m \in 1 .. n /\ m # 1 => m - 1 \in 1 .. n /\ m - 1 # 0
        OBVIOUS
      <3>2. Len(Current) \in Int /\ req.multilen \in Int /\ req.multilen \in 1 .. Len(Current)
        BY <1>2, <1>4
      <3>3. req.multilen - 1 \in 1 .. Len(Current) /\ req.multilen - 1 # 0
        BY <3>1, <3>2, <1>14, Zenon
      <3>4. r.multilen = req.multilen
        BY <1>2
      <3>5. pc' = "argv"
        BY <3>4, <1>7, <1>14
      <3>6. req'.multilen = req.multilen - 1
        BY <3>4, <1>8
      <3> QED
        BY <3>3, <3>5, <3>6
    <2>2. Rest(At)' = Rest(At + 1)
      BY <1>10 DEF Rest
    <2>3. AtLine(req', wire', Rest(At)')
      BY <1>9, <2>2
    <2>4. InCommand'
      <3>1. /\ Len(done') < Len(sent') /\ Len(req'.argv) = Len(Current')
            /\ req'.multilen \in 1 .. Len(Current')
        BY <1>2, <1>4, <1>8, <1>10, <2>1
      <3>2. req'.idx >= At' /\ (req'.idx = At' => \A j \in 1 .. At' : req'.argv[j] = Current'[j])
        BY <1>10, <1>11
      <3> QED
        BY <1>8, <2>1, <2>3, <3>1, <3>2 DEF InCommand
    <2>5. AtCommand' /\ AtEnd'
      BY <2>1 DEF AtCommand, AtEnd, Between
    <2> QED
      BY <1>12, <2>4, <2>5 DEF Parsing
  <1> QED
    BY <1>13, <1>14

LEMMA ParsingNext == Typed /\ (Clean => Parsing) /\ [Next]_vars => (Clean' => Parsing')
  <1> SUFFICES ASSUME Typed, Clean => Parsing, [Next]_vars, Clean' PROVE Parsing'
    OBVIOUS
  <1>1. Clean
    <2>1. hazards \subseteq hazards'
      BY DEF Next, Send, Read, EndOfFile, ParseArgc, ParseArgv, Finish, Stopped, vars
    <2> QED
      BY <2>1 DEF Clean
  <1>2. Parsing
    BY <1>1
  <1>3. ASSUME NEW c \in Commands, Send(c) PROVE Parsing'
    BY <1>2, <1>3, SendParses
  <1>4. ASSUME NEW n \in 1 .. Len(wire), Read(n) PROVE Parsing'
    <2>1. HasRoom(req, n)
      BY <1>4 DEF Read, Clean
    <2> QED
      BY <1>2, <1>4, <2>1, ReadParses
  <1>5. ASSUME Close PROVE Parsing'
    BY <1>2, <1>5, StopParses DEF Close
  <1>6. ASSUME ParseArgc PROVE Parsing'
    BY <1>2, <1>5, <1>6, ArgcParses DEF ParseArgc
  <1>7. ASSUME ParseArgv PROVE Parsing'
    <2>1. CASE /\ req.lastlen # 0 \/ IsLine(req)
               /\ req' = Sized(req) /\ pc' = "poll"
               /\ hazards' = IF Sized(req).lastlen = 0 THEN hazards \cup {"empty"} ELSE hazards
               /\ UNCHANGED <<wire, sent, done>>
      <3>1. Sized(req).lastlen # 0
        BY <2>1 DEF Clean
      <3> QED
        BY <1>2, <1>7, <2>1, <3>1, SizedParses DEF ParseArgv
    <2>2. CASE /\ req.lastlen # 0 \/ IsLine(req)
               /\ IsWhole(Sized(req)) /\ Sized(req).idx \in 0 .. Len(Sized(req).argv) - 1
               /\ req' = Taken(Sized(req))
               /\ pc' = IF Sized(req).multilen = 1 THEN "end" ELSE "argv"
               /\ UNCHANGED <<wire, sent, done>>
      BY <1>2, <1>7, <2>2, TakenParses DEF ParseArgv
    <2>3. CASE pc' = "fault" /\ UNCHANGED <<wire, sent, done>>
      BY <1>2, <2>3, StopParses
    <2> QED
      BY <1>5, <1>7, <2>1, <2>2, <2>3 DEF ParseArgv
  <1>8. ASSUME Finish PROVE Parsing'
    BY <1>2, <1>8, FinishParses
  <1>9. CASE UNCHANGED vars
    BY <1>2, <1>9 DEF vars, Parsing, InSync, AtCommand, InCommand, AtEnd, Between, Within,
                      Current, At, Rest
  <1> QED
    BY <1>3, <1>4, <1>5, <1>6, <1>7, <1>8, <1>9 DEF Next, EndOfFile, Stopped

LEMMA ParsingGives ==
  ASSUME Typed, Clean => Parsing
  PROVE  ProcessedAsSent
  <1> SUFFICES ASSUME Parsing PROVE IsPrefix(done, sent)
    BY DEF ProcessedAsSent, Clean
  <1>1. /\ done \in Seq(Seq(Seq(Bytes))) /\ sent \in Seq(Commands)
        /\ Len(sent) \in Nat /\ Len(done) \in Nat
    BY Sorts
  <1>2. Len(done) <= Len(sent) /\ \A i \in 1 .. Len(done) : done[i] = sent[i]
    BY DEF Parsing, InSync
  <1>3. sent \in Seq(Seq(Seq(Bytes)))
    <2>1. Commands \subseteq Seq(Seq(Bytes))
      BY CommandsAre
    <2> QED
      BY <1>1, <2>1, SeqMonotonic
  <1>4. Len(done) \in 0 .. Len(sent) /\ Len(done) \in 0 .. Len(done)
    BY <1>1, <1>2
  <1>5. /\ SubSeq(sent, 1, Len(done)) \in Seq(Seq(Seq(Bytes)))
        /\ Len(SubSeq(sent, 1, Len(done))) = Len(done)
        /\ \A i \in 1 .. Len(done) : SubSeq(sent, 1, Len(done))[i] = sent[i]
    BY <1>3, <1>4, TakeAndDrop
  <1>6. SubSeq(done, 1, Len(done)) = done
    BY <1>1, SubSeqFull
  <1>7. SubSeq(sent, 1, Len(done)) = done
    BY <1>1, <1>2, <1>5, SeqEqual
  <1> QED
    BY <1>2, <1>6, <1>7 DEF IsPrefix

(* However TCP cuts the stream, and whether or not the client waits for    *)
(* its answers: what _process_cmd gets is the commands that were sent, in  *)
(* their order, as long as no byte was lost for want of room               *)
(* (siloserver.c:279) and no empty argument was cut off (request.c:177).   *)
THEOREM CommandsAreProcessedAsSent == Spec => []ProcessedAsSent
  <1> DEFINE I == Typed /\ (Clean => Parsing)
  <1>1. Init => I
    BY TypedInit, ParsingInit
  <1>2. I /\ [Next]_vars => I'
    BY TypedNext, ParsingNext
  <1>3. I => ProcessedAsSent
    BY ParsingGives
  <1> QED
    BY <1>1, <1>2, <1>3, PTL DEF Spec

-----------------------------------------------------------------------------
(* Clients that wait *)

(* A read that went well ended before or within an argument, or with       *)
(* everything that had been sent.                                          *)
NotCut(w, b) ==
  \/ w = << >>
  \/ w[1] \in Letters
  \/ w[1] = CR /\ b # << >> /\ b[Len(b)] \in Letters

(* The parser never waits for the rest of a line: no line feed is in its   *)
(* way, each argument has its place, and behind a command there is nothing.*)
Patient ==
  /\ pc # "fault" /\ (pc = "closed" => Len(done) = MaxCommands)
  /\ Len(sent) <= Len(done) + 1
  /\ Between => req.idx = 0 /\ Unread(req) \o wire = Coming(sent, Len(done))
  /\ pc = "argc" => Len(done) < Len(sent)
  /\ Within => req.idx = At /\ (req.lastlen = 0 => Unread(req) \o wire = Rest(At))
  /\ pc = "end" => Unread(req) = << >> /\ wire = << >>
  /\ pc \in {"argc", "argv"} => NotCut(wire, req.buf)

(* A line that was not cut is there. *)
LEMMA LineIsThere ==
  ASSUME NEW r, InBuffer(r), NEW w \in Seq(Bytes), NEW x \in Seq(Bytes), NEW n \in 0 .. 4,
         Unread(r) \o w = Line(n) \o x, NotCut(w, r.buf)
  PROVE  IsLine(r)
  <1>1. PICK u \in Seq(Bytes) : u = Unread(r)
    BY UnreadIs
  <1>2. PICK l \in Seq(Bytes) : l = Line(n) /\ Len(l) = 3 /\ l[1] = Number(n) /\ l[2] = CR /\ l[3] = LF
    BY LinesAre
  <1>3. u \o w = l \o x
    BY <1>1, <1>2
  <1>4. /\ Len(u) \in Nat /\ Len(w) \in Nat /\ Len(x) \in Nat
        /\ Len(u) + Len(w) = 3 + Len(x)
    <2>1. Len(u) \in Nat /\ Len(w) \in Nat /\ Len(x) \in Nat
      OBVIOUS
    <2>2. Len(u \o w) = Len(u) + Len(w) /\ Len(l \o x) = Len(l) + Len(x)
      BY ConcatProperties
    <2>3. Len(l) = 3
      BY <1>2
    <2> QED
      BY <1>3, <2>1, <2>2, <2>3
  <1>5. CASE Len(u) >= 3
    <2>1. Len(l) <= Len(u)
      BY <1>2, <1>5
    <2>2. SubSeq(u, 1, Len(l)) = l
      BY <1>3, <2>1, FrontsAgree
    <2>3. SubSeq(l, 1, Len(l)) = l
      BY SubSeqFull
    <2>4. IsPrefix(l, u)
      BY <2>1, <2>2, <2>3 DEF IsPrefix
    <2>5. n \in 0 .. Len(Digits) - 1
      BY DigitsAre
    <2> QED
      BY <1>1, <1>2, <2>4, <2>5 DEF IsLine, IsNumber
  <1>6. CASE Len(u) < 3
    <2>1. PICK k \in 1 .. 3 : k = Len(u) + 1
      BY <1>4, <1>6
    <2>2. w[1] = l[k]
      <3>1. Len(w) >= 1 /\ k \in 1 .. Len(u) + Len(w) /\ ~ k <= Len(u) /\ k - Len(u) = 1
        BY <1>4, <1>6, <2>1
      <3>2. k \in 1 .. Len(l) + Len(x) /\ k <= Len(l)
        BY <1>2, <1>4, <2>1, SMTT(30)
      <3>3. (u \o w)[k] = w[1]
        BY <3>1, ConcatProperties
      <3>4. (l \o x)[k] = l[k]
        BY <3>2, ConcatProperties
      <3> QED
        BY <1>3, <3>3, <3>4
    <2>3. w # << >>
      <3>1. Len(w) # 0
        BY <1>4, <1>6
      <3> QED
        BY <3>1, EmptySeq
    <2>4. w[1] \in {Number(n), CR, LF}
      <3>1. k \in {1, 2, 3}
        BY <2>1
      <3> QED
        BY <1>2, <2>2, <3>1
    <2>5. w[1] = CR /\ r.buf # << >> /\ r.buf[Len(r.buf)] \in Letters
      BY <2>3, <2>4, DigitsAre DEF NotCut
    <2>6. k = 2
      <3>1. k = 1 \/ k = 2 \/ k = 3
        BY <2>1
      <3>2. Number(n) # CR /\ LF # CR
        BY DigitsAre
      <3> QED
        BY <1>2, <2>2, <2>5, <3>1, <3>2
    <2>7. Len(u) = 1 /\ r.buf[Len(r.buf)] = u[1]
      <3>1. Len(u) = 1
        <4>1. \A i \in Nat : i + 1 = 2 => i = 1
          OBVIOUS
        <4> QED
          BY <1>4, <2>1, <2>6, <4>1, Zenon
      <3>2. /\ \A i \in 1 .. Len(u) : u[i] = r.buf[r.pos + i]
            /\ Len(r.buf) \in Nat
            /\ Len(u) = IF r.pos <= Len(r.buf) THEN Len(r.buf) - r.pos ELSE 0
        BY <1>1, UnreadIs, Zenon
      <3>3. r.pos \in Nat
        BY DEF InBuffer
      <3>4. PICK p \in Nat : p = r.pos
        BY <3>3
      <3>5. PICK m \in Nat : m = Len(r.buf)
        BY <3>2
      <3>6. \A i, j \in Nat : 1 = (IF i <= j THEN j - i ELSE 0) => i + 1 = j
        OBVIOUS
      <3>7. p + 1 = m
        BY <3>1, <3>2, <3>4, <3>5, <3>6, Zenon
      <3>8. 1 \in 1 .. 1
        OBVIOUS
      <3> QED
        BY <3>1, <3>2, <3>4, <3>5, <3>7, <3>8, Zenon
    <2>8. u[1] = Number(n)
      <3>1. 1 \in 1 .. Len(u) + Len(w) /\ 1 <= Len(u)
        BY <1>4, <2>7
      <3>2. 1 \in 1 .. Len(l) + Len(x) /\ 1 <= Len(l)
        BY <1>2, <1>4
      <3>3. (u \o w)[1] = u[1]
        BY <3>1, ConcatProperties
      <3>4. (l \o x)[1] = l[1]
        BY <3>2, ConcatProperties
      <3> QED
        BY <1>2, <1>3, <3>3, <3>4
    <2> QED
      BY <2>5, <2>7, <2>8, DigitsAre
  <1> QED
    BY <1>4, <1>5, <1>6

LEMMA NothingBehind ==
  ASSUME Typed, Len(done) < Len(sent), Len(sent) <= Len(done) + 1
  PROVE  Len(sent) = Len(done) + 1 /\ Coming(sent, Len(done) + 1) = << >>
  <1>1. sent \in Seq(Commands) /\ Len(sent) \in Nat /\ Len(done) \in Nat
    BY Sorts
  <1>2. Len(sent) = Len(done) + 1
    BY <1>1
  <1>3. Len(sent) \in 0 .. Len(sent)
    BY <1>1
  <1> QED
    BY <1>1, <1>2, <1>3, ComingIs

LEMMA PatientInit == Init => Patient
  <1> SUFFICES ASSUME Init PROVE Patient
    OBVIOUS
  <1>1. pc = "poll" /\ sent = << >> /\ done = << >> /\ wire = << >> /\ req = NewRequest
    BY DEF Init
  <1>2. /\ req.multilen = 0 /\ req.idx = 0 /\ req.pos = 0 /\ req.buf = << >>
    BY <1>1, NewRequestIs
  <1>3. Coming(sent, Len(done)) = << >>
    <2>1. << >> \in Seq(Commands) /\ Len(<< >>) = 0 /\ 0 \in 0 .. Len(<< >>)
      OBVIOUS
    <2>2. Coming(<< >>, 0) = << >>
      BY <2>1, ComingIs
    <2> QED
      BY <1>1, <2>1, <2>2
  <1>4. Unread(req) \o wire = << >>
    <2>1. SubSeq(<< >>, 1, 0) = << >> /\ Len(<< >>) = 0
      BY SubSeqEmpty
    <2>2. Unread(req) = << >>
      BY <1>2, <2>1 DEF Unread
    <2> QED
      BY <1>1, <2>2
  <1>5. Len(sent) <= Len(done) + 1
    BY <1>1
  <1> QED
    BY <1>1, <1>2, <1>3, <1>4, <1>5 DEF Patient, Between, Within

(* It sends the next command when the last one has been processed, and     *)
(* then the parser has nothing of it left.                                 *)
LEMMA PatientSend ==
  ASSUME Typed, Parsing, Patient, NEW c \in Commands, Send(c), hazards' = {}
  PROVE  Patient'
  <1>1. wire \in Seq(Bytes) /\ sent \in Seq(Commands) /\ Len(sent) \in Nat /\ Len(done) \in Nat
    BY Sorts
  <1>2. /\ wire' = wire \o Encode(c) /\ sent' = Append(sent, c)
        /\ req' = req /\ pc' = pc /\ done' = done
        /\ Len(sent) = Len(done) /\ wire = << >> /\ pc \notin {"closed", "fault"}
    BY DEF Send
  <1>3. pc = "poll" /\ req.multilen = 0 /\ Between
    <2>1. pc # "argc"
      BY <1>1, <1>2 DEF Patient
    <2>2. ~ Within /\ pc # "end"
      BY <1>1, <1>2 DEF Parsing, InCommand, AtEnd
    <2>3. pc \in {"poll", "argc", "argv", "end", "closed", "fault"}
      BY DEF Typed, TypeOK
    <2> QED
      BY <1>2, <2>1, <2>2, <2>3 DEF Within, Between
  <1>4. Len(sent') = Len(sent) + 1
    BY <1>1, <1>2, AppendProperties
  <1>5. req.idx = 0 /\ Unread(req) \o wire = Coming(sent, Len(done))
    BY <1>3 DEF Patient
  <1>6. Unread(req) \o wire' = Coming(sent', Len(done))
    <2>1. PICK e \in Seq(Bytes) : e = Encode(c)
      BY PartsAre
    <2>2. Len(done) \in 0 .. Len(sent)
      BY <1>1, <1>2
    <2>3. Coming(sent', Len(done)) = Coming(sent, Len(done)) \o e
      BY <1>1, <1>2, <2>1, <2>2, ComingOfAppend
    <2>4. PICK u \in Seq(Bytes) : u = Unread(req)
      BY Sorts, UnreadIs
    <2>5. (u \o wire) \o e = u \o (wire \o e)
      BY <1>1, Regrouped
    <2> QED
      BY <1>2, <1>5, <2>1, <2>3, <2>4, <2>5
  <1> QED
    BY <1>1, <1>2, <1>3, <1>4, <1>5, <1>6 DEF Patient, Between, Within

LEMMA PatientRead ==
  ASSUME Typed, Parsing, Patient, NEW n \in 1 .. Len(wire), Read(n), hazards' = {}
  PROVE  Patient'
  <1>1. wire \in Seq(Bytes) /\ req \in Requests /\ sent \in Seq(Commands)
    BY Sorts
  <1>2. /\ pc = "poll" /\ pc' = IF req.multilen = 0 THEN "argc" ELSE "argv"
        /\ sent' = sent /\ done' = done /\ HasRoom(req, n) /\ EndsWell(n)
    BY DEF Read
  <1>3. /\ req'.multilen = req.multilen /\ req'.lastlen = req.lastlen /\ req'.idx = req.idx
        /\ wire' = Drop(wire, n) /\ req'.buf = req.buf \o SubSeq(wire, 1, n)
        /\ SubSeq(wire, 1, n) \in Seq(Bytes)
    BY <1>1, <1>2, ReadIs
  <1>4. req.pos <= Len(req.buf)
    BY <1>2 DEF Parsing, AtCommand, InCommand, Between, Within, AtArgument
  <1>5. Unread(req') \o wire' = Unread(req) \o wire
    BY <1>1, <1>2, <1>4, ReadKeeps
  <1>6. NotCut(wire', req'.buf)
    <2>1. CASE n = Len(wire)
      <3>1. Drop(wire, n) = << >>
        BY <1>1, <2>1, DropIs
      <3> QED
        BY <1>3, <3>1 DEF NotCut
    <2>2. CASE n # Len(wire)
      <3>1. /\ n \in 0 .. Len(wire) /\ n <= Len(wire) /\ n \in Nat
            /\ 1 \in 1 .. Len(wire) - n /\ n \in 1 .. n
        BY <1>1, <2>2
      <3>2. wire'[1] = wire[n + 1]
        BY <1>1, <1>3, <3>1, DropIs
      <3>3. PICK f \in Seq(Bytes) : f = SubSeq(wire, 1, n) /\ Len(f) = n /\ f[n] = wire[n]
        BY <1>1, <1>3, <3>1, TakeAndDrop
      <3>4. PICK b \in Seq(Bytes) : b = req.buf
        BY <1>1, RequestIs DEF InBuffer
      <3>5. /\ Len(b \o f) = Len(b) + Len(f) /\ Len(b) \in Nat
            /\ \A i \in 1 .. Len(b) + Len(f) :
                 (b \o f)[i] = IF i <= Len(b) THEN b[i] ELSE f[i - Len(b)]
        BY ConcatProperties
      <3>6. (b \o f)[Len(b \o f)] = wire[n] /\ Len(b \o f) # 0
        <4>1. PICK m \in Nat : m = Len(b)
          BY <3>5
        <4>2. /\ m + n \in 1 .. m + n /\ ~ m + n <= m /\ (m + n) - m = n /\ m + n # 0
          BY <3>1
        <4> QED
          BY <3>3, <3>5, <4>1, <4>2
      <3>7. b \o f # << >>
        BY <3>6, EmptySeq
      <3>8. wire[n + 1] \in Letters \/ (wire[n] \in Letters /\ wire[n + 1] = CR)
        BY <1>2, <2>2 DEF EndsWell
      <3> QED
        BY <1>3, <3>2, <3>3, <3>4, <3>6, <3>7, <3>8 DEF NotCut
    <2> QED
      BY <2>1, <2>2
  <1>7. ASSUME Between PROVE /\ req.idx = 0 /\ Unread(req) \o wire = Coming(sent, Len(done))
                             /\ Len(done) < Len(sent)
    <2>1. req.idx = 0 /\ Unread(req) \o wire = Coming(sent, Len(done))
      BY <1>7 DEF Patient
    <2>2. Len(done) <= Len(sent) /\ Len(done) \in Nat /\ Len(sent) \in Nat
      BY Sorts DEF Parsing, InSync
    <2>3. Len(done) # Len(sent)
      <3>1. PICK u \in Seq(Bytes) : u = Unread(req)
        BY Sorts, UnreadIs
      <3>2. u \o wire # << >>
        <4>1. wire # << >>
          BY <1>1, EmptySeq
        <4> QED
          BY <1>1, <4>1, ConcatEqualIffEmpty
      <3>3. Len(sent) \in 0 .. Len(sent)
        BY <2>2
      <3> QED
        BY <1>1, <2>1, <3>1, <3>2, <3>3, ComingIs
    <2> QED
      BY <2>1, <2>2, <2>3
  <1>8. ASSUME Within PROVE req.idx = At /\ req.lastlen # 0
    BY <1>2, <1>8 DEF Patient, Parsing, InCommand
  <1>9. At' = At
    BY <1>2, <1>3 DEF At, Current
  <1>10. (Between' => Between) /\ (Within' => Within)
    BY <1>2, <1>3 DEF Between, Within
  <1>11. Len(sent) <= Len(done) + 1
    BY DEF Patient
  <1>12. /\ pc' # "fault" /\ (pc' = "closed" => Len(done') = MaxCommands)
         /\ Len(sent') <= Len(done') + 1 /\ pc' # "end" /\ (pc' = "argc" => Between)
    BY <1>2, <1>11 DEF Between
  <1>13. Coming(sent', Len(done')) = Coming(sent, Len(done))
    BY <1>2
  <1>14. Between' => /\ req'.idx = 0 /\ Unread(req') \o wire' = Coming(sent', Len(done'))
    BY <1>3, <1>5, <1>7, <1>10, <1>13
  <1>15. pc' = "argc" => Len(done') < Len(sent')
    BY <1>2, <1>7, <1>12
  <1>16. Within' => req'.idx = At' /\ req'.lastlen # 0
    BY <1>3, <1>8, <1>9, <1>10
  <1> QED
    BY <1>6, <1>12, <1>14, <1>15, <1>16 DEF Patient

LEMMA PatientArgc ==
  ASSUME Typed, Parsing, Patient, ParseArgc, hazards' = {}
  PROVE  Patient'
  <1>1. /\ wire \in Seq(Bytes) /\ sent \in Seq(Commands) /\ req \in Requests /\ InBuffer(req)
        /\ Len(sent) \in Nat /\ Len(done) \in Nat /\ pc = "argc" /\ Between
    BY Sorts DEF ParseArgc, Between
  <1>2. /\ Len(done) < Len(sent) /\ Len(sent) <= Len(done) + 1 /\ req.idx = 0
        /\ Unread(req) \o wire = Coming(sent, Len(done)) /\ NotCut(wire, req.buf)
    BY <1>1 DEF Patient
  <1>3. /\ Current \in Commands /\ Rest(0) \in Seq(Bytes)
        /\ Coming(sent, Len(done)) = Line(Len(Current)) \o Rest(0)
    <2>1. Current \in Commands /\ Len(Current) \in 1 .. 4
      BY <1>2, CurrentIs, CommandsAre
    <2>2. 0 \in 0 .. Len(Current)
      BY <2>1
    <2> QED
      BY <1>2, <2>1, <2>2, CurrentIs
  <1>4. Len(Current) \in 0 .. 4 /\ Len(Current) # 0
    <2>1. \A i \in 1 .. 4 : i \in 0 .. 4 /\ i # 0
      OBVIOUS
    <2> QED
      BY <1>3, <2>1, CommandsAre
  <1>5. IsLine(req)
    BY <1>1, <1>2, <1>3, <1>4, LineIsThere
  <1>6. ValueOf(req) = Len(Current) /\ Drop(req.buf, After(req)) \o wire = Rest(0)
    <2>1. AtLine(req, wire, Line(Len(Current)) \o Rest(0))
      BY <1>2, <1>3 DEF AtLine
    <2> QED
      BY <1>1, <1>3, <1>4, <1>5, <2>1, LineGives
  <1>7. PICK v : v = Vector(ValueOf(req))
    OBVIOUS
  <1>8. /\ req' = [req EXCEPT !.multilen = ValueOf(req), !.pos = After(req), !.argv = v]
        /\ pc' = IF ValueOf(req) = 0 THEN "end" ELSE "argv"
        /\ wire' = wire /\ sent' = sent /\ done' = done
    BY <1>5, <1>7 DEF ParseArgc, Vector
  <1>9. /\ req'.multilen = Len(Current) /\ req'.pos = After(req) /\ req'.buf = req.buf
        /\ req'.idx = 0
    BY <1>1, <1>2, <1>6, <1>8 DEF Requests
  <1>10. pc' = "argv"
    BY <1>4, <1>6, <1>8
  <1>11. Current' = Current /\ At' = 0
    <2>1. Current' = Current
      BY <1>8 DEF Current
    <2>2. Len(Current) - Len(Current) = 0
      BY <1>4
    <2> QED
      BY <1>9, <2>1, <2>2 DEF At
  <1>12. Unread(req') \o wire' = Rest(At)'
    <2>1. Unread(req') = Drop(req.buf, After(req))
      BY <1>9 DEF Unread, Drop
    <2>2. Rest(At)' = Rest(0)
      BY <1>8, <1>11 DEF Rest
    <2> QED
      BY <1>6, <1>8, <2>1, <2>2
  <1>13. ~ Between'
    BY <1>10 DEF Between
  <1>14. /\ pc' # "fault" /\ (pc' = "closed" => Len(done') = MaxCommands)
         /\ Len(sent') <= Len(done') + 1 /\ pc' # "argc" /\ pc' # "end"
         /\ NotCut(wire', req'.buf)
    BY <1>2, <1>8, <1>9, <1>10
  <1>15. req'.idx = At'
    BY <1>9, <1>11
  <1> QED
    BY <1>12, <1>13, <1>14, <1>15 DEF Patient

LEMMA PatientArgv ==
  ASSUME Typed, Parsing, Patient, ParseArgv, hazards' = {}
  PROVE  Patient'
  <1> DEFINE r == Sized(req)
  <1>1. /\ wire \in Seq(Bytes) /\ req \in Requests /\ InBuffer(req) /\ pc = "argv" /\ Within
    BY Sorts DEF ParseArgv, Within
  <1>2. /\ Len(sent) <= Len(done) + 1 /\ req.idx = At /\ NotCut(wire, req.buf)
        /\ req.lastlen = 0 => Unread(req) \o wire = Rest(At)
    BY <1>1 DEF Patient
  <1>3. /\ Len(done) < Len(sent) /\ Current \in Commands
        /\ Len(req.argv) = Len(Current) /\ Len(Current) \in 1 .. 4
        /\ At \in 0 .. Len(Current) - 1
        /\ req.multilen \in 1 .. Len(Current)
        /\ At + 1 = Len(Current) => Rest(At + 1) = Coming(sent, Len(done) + 1)
    BY <1>1, PlaceIs
  <1>4. req.lastlen # 0 \/ IsLine(req)
    <2> SUFFICES ASSUME req.lastlen = 0 PROVE IsLine(req)
      OBVIOUS
    <2>1. PICK a \in Seq(Bytes) : a = Current[At + 1] /\ Len(a) \in 0 .. 4
      BY <1>1, PlaceIs
    <2>2. PICK x \in Seq(Bytes) : x = a \o (CRLF \o Rest(At + 1))
      <3>1. Rest(At + 1) \in Seq(Bytes)
        BY <1>1, PlaceIs
      <3>2. CRLF \o Rest(At + 1) \in Seq(Bytes)
        BY <3>1, LinesAre, Joined
      <3> QED
        BY <3>2, Joined
    <2>3. Rest(At) = Line(Len(a)) \o x
      BY <1>1, <2>1, <2>2, PlaceIs
    <2>4. Unread(req) \o wire = Line(Len(a)) \o x
      BY <1>2, <2>3
    <2> QED
      BY <1>1, <1>2, <2>1, <2>4, LineIsThere
  <1>5. /\ r \in Requests /\ r.buf = req.buf /\ r.argv = req.argv
        /\ r.multilen = req.multilen /\ r.idx = req.idx
    BY <1>1, <1>4, SizedIs
  <1>6. r.idx \in 0 .. Len(r.argv) - 1
    BY <1>2, <1>3, <1>5
  <1>7. \/ /\ req' = r /\ pc' = "poll" /\ r.lastlen # 0
           /\ UNCHANGED <<wire, sent, done>>
        \/ /\ IsWhole(r) /\ req' = Taken(r)
           /\ pc' = IF r.multilen = 1 THEN "end" ELSE "argv"
           /\ UNCHANGED <<wire, sent, done>>
    BY <1>4, <1>6 DEF ParseArgv
  <1> HIDE DEF r
  <1>8. CASE /\ req' = r /\ pc' = "poll" /\ r.lastlen # 0
             /\ UNCHANGED <<wire, sent, done>>
    <2>1. At' = At
      BY <1>5, <1>8 DEF At, Current
    <2>2. \A k \in 1 .. Len(Current) : k # 0
      BY <1>3
    <2>3. ~ Between'
      BY <1>3, <1>5, <1>8, <2>2 DEF Between
    <2> QED
      BY <1>2, <1>5, <1>8, <2>1, <2>3 DEF Patient
  <1>9. CASE /\ IsWhole(r) /\ req' = Taken(r)
             /\ pc' = IF r.multilen = 1 THEN "end" ELSE "argv"
             /\ UNCHANGED <<wire, sent, done>>
    <2>1. AtArgument(r, wire, Current[At + 1], Rest(At + 1))
      BY <1>1, <1>4, SizedReads DEF r
    <2>2. Rest(At + 1) \in Seq(Bytes) /\ Current[At + 1] \in Seq(Bytes) /\ r.multilen # 0
      <3>1. Rest(At + 1) \in Seq(Bytes) /\ Current[At + 1] \in Seq(Bytes)
        BY <1>1, PlaceIs
      <3>2. \A k \in 1 .. Len(Current) : k # 0
        BY <1>3
      <3> QED
        BY <1>3, <1>5, <3>1, <3>2
    <2>3. BehindArgument(Drop(r.buf, r.pos + r.lastlen + 2), wire, Rest(At + 1))
      BY <1>1, <1>5, <1>9, <2>1, <2>2, TakenReads
    <2>4. wire # <<LF>> \o Rest(At + 1)
      <3> SUFFICES ASSUME wire = <<LF>> \o Rest(At + 1) PROVE FALSE
        OBVIOUS
      <3>1. PICK l \in Seq(Bytes) : l = <<LF>> /\ Len(l) = 1 /\ l[1] = LF
        <4>1. <<LF>> \in Seq(Bytes) /\ Len(<<LF>>) = 1 /\ <<LF>>[1] = LF
          BY BytesAre
        <4> QED
          BY <4>1
      <3>2. PICK x \in Seq(Bytes) : x = Rest(At + 1)
        BY <2>2
      <3>3. Len(wire) # 0 /\ wire[1] = LF
        <4>1. Len(x) \in Nat /\ wire = l \o x
          BY <3>1, <3>2
        <4>2. 1 \in 1 .. Len(l) + Len(x) /\ 1 <= Len(l) /\ Len(l) + Len(x) # 0
          BY <3>1, <4>1
        <4>3. Len(l \o x) = Len(l) + Len(x) /\ (l \o x)[1] = l[1]
          BY <4>2, ConcatProperties
        <4> QED
          BY <3>1, <4>1, <4>2, <4>3
      <3>4. wire # << >>
        BY <3>3, EmptySeq
      <3> QED
        BY <1>2, <3>3, <3>4, DigitsAre DEF NotCut
    <2>5. /\ req'.buf = r.buf /\ req'.pos = r.pos + r.lastlen + 2
          /\ req'.idx = r.idx + 1 /\ req'.multilen = r.multilen - 1
      BY <1>5, <1>6, <1>9, <2>2, TakenIs
    <2>6. Unread(req') \o wire = Rest(At + 1)
      BY <2>3, <2>4, <2>5 DEF BehindArgument, Unread, Drop
    <2>7. At' = At + 1 /\ Current' = Current
      <3>1. Current' = Current
        BY <1>9 DEF Current
      <3>2. \A n, m \in Int : n - (m - 1) = (n - m) + 1
        OBVIOUS
      <3>3. Len(Current) \in Int /\ req.multilen \in Int
        BY <1>3
      <3> QED
        BY <1>5, <2>5, <3>1, <3>2, <3>3 DEF At
    <2>8. Rest(At)' = Rest(At + 1)
      BY <1>9, <2>7 DEF Rest
    <2>9. CASE r.multilen = 1
      <3>1. At + 1 = Len(Current)
        BY <1>3, <1>5, <2>9 DEF At
      <3>2. Rest(At + 1) = << >>
        BY <1>2, <1>3, <3>1, NothingBehind
      <3>3. Unread(req') = << >> /\ wire = << >>
        <4>1. PICK u \in Seq(Bytes) : u = Unread(req')
          BY <1>5, <1>6, <1>9, <2>2, TakenIs, RequestIs, UnreadIs
        <4> QED
          BY <1>1, <2>6, <3>2, <4>1, ConcatEqualIffEmpty
      <3>4. pc' = "end"
        BY <1>9, <2>9
      <3> QED
        BY <1>2, <1>9, <3>3, <3>4 DEF Patient, Between, Within
    <2>10. CASE r.multilen # 1
      <3>1. pc' = "argv"
        BY <1>9, <2>10
      <3>2. Unread(req') \o wire' = Rest(At)'
        BY <1>9, <2>6, <2>8
      <3>3. req'.idx = At'
        BY <1>2, <1>5, <2>5, <2>7
      <3>4. /\ Len(sent') <= Len(done') + 1 /\ NotCut(wire', req'.buf)
        BY <1>2, <1>5, <1>9, <2>5
      <3> QED
        BY <3>1, <3>2, <3>3, <3>4 DEF Patient, Between
    <2> QED
      BY <2>9, <2>10
  <1> QED
    BY <1>7, <1>8, <1>9

LEMMA PatientFinish ==
  ASSUME Typed, Parsing, Patient, Finish
  PROVE  Patient'
  <1>1. /\ wire \in Seq(Bytes) /\ sent \in Seq(Commands) /\ req \in Requests /\ InBuffer(req)
        /\ Len(sent) \in Nat /\ Len(done) \in Nat /\ done \in Seq(Seq(Seq(Bytes)))
        /\ pc = "end" /\ req.argv \in Seq(Seq(Bytes))
    BY Sorts, RequestIs DEF Finish
  <1>2. /\ Len(done) < Len(sent) /\ Len(sent) <= Len(done) + 1
        /\ Unread(req) = << >> /\ wire = << >>
    BY <1>1 DEF Patient, Parsing, AtEnd
  <1>3. pc' = "poll" /\ wire' = wire /\ sent' = sent /\ done' = Append(done, req.argv)
    BY DEF Finish
  <1>4. Len(done') = Len(done) + 1
    BY <1>1, <1>3, AppendProperties
  <1>5. ~ req.pos < Len(req.buf)
    <2>1. PICK m \in Nat : m = req.pos
      BY <1>1 DEF InBuffer
    <2>2. PICK k \in Nat : k = Len(req.buf)
      BY <1>1, UnreadIs
    <2>3. 0 = IF m <= k THEN k - m ELSE 0
      BY <1>1, <1>2, <2>1, <2>2, UnreadIs, EmptySeq
    <2>4. ~ m < k
      BY <2>3
    <2> QED
      BY <2>1, <2>2, <2>4
  <1>6. req' = NewRequest
    BY <1>5 DEF Finish, Reset
  <1>7. req'.multilen = 0 /\ req'.idx = 0 /\ req'.pos = 0 /\ req'.buf = << >>
    BY <1>6, NewRequestIs
  <1>8. Unread(req') \o wire' = << >>
    <2>1. SubSeq(<< >>, 1, 0) = << >> /\ Len(<< >>) = 0
      BY SubSeqEmpty
    <2>2. Unread(req') = << >>
      BY <1>7, <2>1 DEF Unread
    <2> QED
      BY <1>2, <1>3, <2>2
  <1>9. Coming(sent', Len(done')) = << >>
    BY <1>2, <1>3, <1>4, NothingBehind
  <1>10. Len(sent') <= Len(done') + 1
    BY <1>1, <1>2, <1>3, <1>4
  <1> QED
    BY <1>3, <1>7, <1>8, <1>9, <1>10 DEF Patient, Between, Within

LEMMA PatientNext ==
  ASSUME Typed, hazards = {} => Parsing /\ Patient, [Next]_vars
  PROVE  hazards' = {} => Patient'
  <1> SUFFICES ASSUME hazards' = {} PROVE Patient'
    OBVIOUS
  <1>1. hazards = {}
    BY DEF Next, Send, Read, EndOfFile, ParseArgc, ParseArgv, Finish, Stopped, vars
  <1>2. Parsing /\ Patient
    BY <1>1
  <1>3. ASSUME NEW c \in Commands, Send(c) PROVE Patient'
    BY <1>2, <1>3, PatientSend
  <1>4. ASSUME NEW n \in 1 .. Len(wire), Read(n) PROVE Patient'
    BY <1>2, <1>4, PatientRead
  <1>5. CASE EndOfFile
    <2>1. pc' = "closed" /\ sent' = sent /\ done' = done /\ Len(done) = MaxCommands
      BY <1>5 DEF EndOfFile, Close
    <2>2. ~ Between' /\ ~ Within'
      BY <2>1 DEF Between, Within
    <2> QED
      BY <1>2, <2>1, <2>2 DEF Patient
  <1>6. CASE ParseArgc
    BY <1>2, <1>6, PatientArgc
  <1>7. CASE ParseArgv
    BY <1>2, <1>7, PatientArgv
  <1>8. CASE Finish
    BY <1>2, <1>8, PatientFinish
  <1>9. CASE UNCHANGED vars
    BY <1>2, <1>9 DEF vars, Patient, Between, Within, Current, At, Rest
  <1> QED
    BY <1>3, <1>4, <1>5, <1>6, <1>7, <1>8, <1>9 DEF Next, Stopped

(* A client that waits for its answers, and whose reads end before or      *)
(* within arguments, is never taken for a broken one: its connection is    *)
(* closed when it hangs up, having sent all it had to send, and the parser *)
(* writes every argument into the vector (request.c:157, 177 and 222).     *)
THEOREM PatientClientsAreKept == Spec => []PatientClientsKeepConnections
  <1> DEFINE I == Typed /\ (Clean => Parsing) /\ (hazards = {} => Patient)
  <1>1. Init => I
    BY TypedInit, ParsingInit, PatientInit
  <1>2. I /\ [Next]_vars => I'
    <2>1. hazards = {} => Clean
      BY DEF Clean
    <2> QED
      BY <2>1, TypedNext, ParsingNext, PatientNext
  <1>3. I => PatientClientsKeepConnections
    BY DEF Patient, PatientClientsKeepConnections
  <1> QED
    BY <1>1, <1>2, <1>3, PTL DEF Spec
=============================================================================
