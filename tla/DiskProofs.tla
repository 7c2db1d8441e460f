----------------------------- MODULE DiskProofs -----------------------------
(***************************************************************************)
(* The bytes on disk are a durable map: what is written of numbers,        *)
(* strings, files, records and values is read back; a merge leaves in the  *)
(* files what the list shows over them; and the engine keeps, step by      *)
(* step, an invariant from which the map of module DurableMap follows.     *)
(***************************************************************************)
EXTENDS Disk, FiniteSetTheorems, SequenceTheorems, TLAPS

-----------------------------------------------------------------------------
(* Recursion *)

(* A set of natural numbers has a least element. *)
LEMMA LeastElement ==
  ASSUME NEW T, T \subseteq Nat, T # {}
  PROVE  \E n \in T : \A m \in T : n <= m
  <1>1. PICK n \in T : \A m \in T : ~ (<<m, n>> \in OpToRel(<, Nat))
    BY NatLessThanWellFounded, WFMin
  <1>2. \A m \in T : ~ m < n
    BY <1>1 DEF OpToRel
  <1> QED
    BY <1>2

(* What goes from each number to the next has all of them. *)
LEMMA Induction ==
  ASSUME NEW T, 0 \in T, \A n \in Nat : n \in T => n + 1 \in T
  PROVE  Nat \subseteq T
  <1> DEFINE Bad == Nat \ T
  <1>1. CASE Bad = {}
    BY <1>1
  <1>2. CASE Bad # {}
    <2>1. PICK n \in Bad : \A m \in Bad : n <= m
      <3>1. Bad \subseteq Nat
        OBVIOUS
      <3> HIDE DEF Bad
      <3> QED
        BY <1>2, <3>1, LeastElement
    <2>2. n \in Nat /\ n # 0 /\ n - 1 \in Nat /\ ~ n <= n - 1 /\ n - 1 + 1 = n
      BY <2>1
    <2>3. n - 1 \in T
      BY <2>1, <2>2
    <2> QED
      BY <2>1, <2>2, <2>3
  <1> QED
    BY <1>1, <1>2

(* Up to a bound. *)
LEMMA InductionTo ==
  ASSUME NEW N \in Nat, NEW T, 0 \in T, \A n \in 0 .. N - 1 : n \in T => n + 1 \in T
  PROVE  0 .. N \subseteq T
  <1> DEFINE U == {n \in Nat : n <= N => n \in T}
  <1>1. 0 \in U
    OBVIOUS
  <1>2. ASSUME NEW n \in Nat, n \in U PROVE n + 1 \in U
    <2>1. CASE n + 1 <= N
      <3>1. n \in 0 .. N - 1 /\ n \in T
        BY <1>2, <2>1
      <3> QED
        BY <3>1
    <2>2. CASE ~ n + 1 <= N
      BY <2>2
    <2> QED
      BY <2>1, <2>2
  <1>3. Nat \subseteq U
    <2> HIDE DEF U
    <2> QED
      BY <1>1, <1>2, Induction
  <1> QED
    BY <1>3

(* A value of S for each number, by a step from the one before. *)
Steps(f, z, F, N) == f[0] = z /\ \A n \in Nat : n < N => f[n + 1] = F[<<n, f[n]>>]

(* Two runs of the same steps agree. *)
LEMMA StepsAgree ==
  ASSUME NEW z, NEW F, NEW N \in Nat, NEW f, NEW g, Steps(f, z, F, N), Steps(g, z, F, N)
  PROVE  \A n \in 0 .. N : f[n] = g[n]
  <1> DEFINE T == {n \in 0 .. N : f[n] = g[n]}
  <1>1. 0 \in T
    BY DEF Steps
  <1>2. ASSUME NEW n \in 0 .. N - 1, n \in T PROVE n + 1 \in T
    <2>1. n \in Nat /\ n < N /\ n + 1 \in 0 .. N
      OBVIOUS
    <2>2. f[n + 1] = F[<<n, f[n]>>] /\ g[n + 1] = F[<<n, g[n]>>]
      BY <2>1 DEF Steps
    <2> QED
      BY <1>2, <2>1, <2>2
  <1>3. 0 .. N \subseteq T
    <2> HIDE DEF T
    <2> QED
      BY <1>1, <1>2, InductionTo
  <1> QED
    BY <1>3

Goes(f, z, F) == f[0] = z /\ \A n \in Nat : f[n + 1] = F[<<n, f[n]>>]

(* There is a function that a step from each number to the next makes. *)
LEMMA Recursion ==
  ASSUME NEW S, NEW z \in S, NEW F \in [Nat \X S -> S]
  PROVE  \E f \in [Nat -> S] : Goes(f, z, F)
  <1> DEFINE T == {N \in Nat : \E f \in [Nat -> S] : Steps(f, z, F, N)}
  <1>1. 0 \in T
    <2>1. [n \in Nat |-> z] \in [Nat -> S] /\ Steps([n \in Nat |-> z], z, F, 0)
      BY DEF Steps
    <2> QED
      BY <2>1
  <1>2. ASSUME NEW N \in Nat, N \in T PROVE N + 1 \in T
    <2>1. PICK f \in [Nat -> S] : Steps(f, z, F, N)
      BY <1>2
    <2>2. PICK g : g = [f EXCEPT ![N + 1] = F[<<N, f[N]>>]]
      OBVIOUS
    <2>3. g \in [Nat -> S] /\ g[N + 1] = F[<<N, f[N]>>]
      BY <2>2
    <2>4. \A n \in Nat : n <= N => g[n] = f[n]
      BY <2>2
    <2>5. Steps(g, z, F, N + 1)
      <3>1. g[0] = z
        BY <2>1, <2>4 DEF Steps
      <3>2. ASSUME NEW n \in Nat, n < N + 1 PROVE g[n + 1] = F[<<n, g[n]>>]
        <4>1. CASE n = N
          BY <2>3, <2>4, <4>1
        <4>2. CASE n < N
          BY <2>1, <2>4, <4>2 DEF Steps
        <4> QED
          BY <3>2, <4>1, <4>2
      <3> QED
        BY <3>1, <3>2 DEF Steps
    <2> QED
      BY <2>3, <2>5
  <1>3. \A N \in Nat : \E f \in [Nat -> S] : Steps(f, z, F, N)
    <2>1. Nat \subseteq T
      <3> HIDE DEF T
      <3> QED
        BY <1>1, <1>2, Induction
    <2> QED
      BY <2>1
  <1> DEFINE a(N) == CHOOSE f \in [Nat -> S] : Steps(f, z, F, N)
  <1>4. \A N \in Nat : a(N) \in [Nat -> S] /\ Steps(a(N), z, F, N)
    BY <1>3
  <1> HIDE DEF a
  <1>5. PICK f : f = [n \in Nat |-> a(n)[n]]
    OBVIOUS
  <1>6. f \in [Nat -> S] /\ f[0] = z
    BY <1>4, <1>5 DEF Steps
  <1>7. ASSUME NEW n \in Nat PROVE f[n + 1] = F[<<n, f[n]>>]
    <2>1. PICK g, h : g = a(n) /\ h = a(n + 1)
      OBVIOUS
    <2>2. Steps(g, z, F, n) /\ Steps(h, z, F, n + 1)
      BY <1>4, <2>1
    <2>3. Steps(h, z, F, n)
      BY <2>2 DEF Steps
    <2>4. g[n] = h[n]
      BY <2>2, <2>3, StepsAgree
    <2>5. h[n + 1] = F[<<n, h[n]>>]
      BY <2>2 DEF Steps
    <2> QED
      BY <1>5, <2>1, <2>4, <2>5
  <1> QED
    BY <1>6, <1>7 DEF Goes

(* The same up to N, as an equation of functions. *)
RunsTo(f, z, F, N) == f = [n \in 0 .. N |-> IF n = 0 THEN z ELSE F[<<n, f[n - 1]>>]]

LEMMA RecursionTo ==
  ASSUME NEW N \in Nat, NEW S, NEW z \in S, NEW F \in [(1 .. N) \X S -> S]
  PROVE  \E f \in [0 .. N -> S] : RunsTo(f, z, F, N)
  <1> DEFINE G == [p \in Nat \X S |-> IF p[1] < N THEN F[<<p[1] + 1, p[2]>>] ELSE p[2]]
  <1>1. G \in [Nat \X S -> S]
    OBVIOUS
  <1>2. \A n \in Nat, x \in S : n < N => G[<<n, x>>] = F[<<n + 1, x>>]
    OBVIOUS
  <1> HIDE DEF G
  <1>3. PICK f \in [Nat -> S] : Goes(f, z, G)
    <2>1. PICK H : H = G
      OBVIOUS
    <2>2. H \in [Nat \X S -> S]
      BY <1>1, <2>1
    <2>3. \E f \in [Nat -> S] : Goes(f, z, H)
      BY <2>2, Recursion
    <2> QED
      BY <2>1, <2>3
  <1>4. PICK g : g = [n \in 0 .. N |-> f[n]]
    OBVIOUS
  <1>5. g \in [0 .. N -> S] /\ \A n \in 0 .. N : g[n] = f[n]
    BY <1>4
  <1>6. ASSUME NEW n \in 0 .. N, n # 0 PROVE f[n] = F[<<n, g[n - 1]>>]
    <2>1. n - 1 \in Nat /\ n - 1 < N /\ n - 1 + 1 = n /\ n - 1 \in 0 .. N
      BY <1>6
    <2>2. f[n] = G[<<n - 1, f[n - 1]>>]
      BY <1>3, <2>1 DEF Goes
    <2> QED
      BY <1>2, <1>5, <2>1, <2>2
  <1>7. g = [n \in 0 .. N |-> IF n = 0 THEN z ELSE F[<<n, g[n - 1]>>]]
    <2>1. \A n \in 0 .. N : f[n] = IF n = 0 THEN z ELSE F[<<n, g[n - 1]>>]
      BY <1>3, <1>6 DEF Goes
    <2> QED
      BY <1>4, <2>1
  <1> QED
    BY <1>5, <1>7 DEF RunsTo

(* A loop whose turns come nearer to its end. *)
Loops(f, Z, ends, out, next) == f = [d \in Z |-> IF ends[d] THEN out[d] ELSE f[next[d]]]

LEMMA LoopEnds ==
  ASSUME NEW Z, NEW far \in [Z -> Nat], NEW ends, NEW next, NEW out,
         \A d \in Z : ~ ends[d] => next[d] \in Z /\ far[next[d]] < far[d]
  PROVE  \E f : Loops(f, Z, ends, out, next)
  <1> DEFINE Near(N) == {d \in Z : far[d] < N}
             Ok(f, N) == \A d \in Near(N) : f[d] = IF ends[d] THEN out[d] ELSE f[next[d]]
             T == {N \in Nat : \E f : Ok(f, N)}
  <1>1. 0 \in T
    OBVIOUS
  <1>2. ASSUME NEW N \in Nat, N \in T PROVE N + 1 \in T
    <2>1. PICK f : Ok(f, N)
      BY <1>2
    <2>2. PICK g : g = [d \in Z |-> IF ends[d] THEN out[d] ELSE f[next[d]]]
      OBVIOUS
    <2>3. ASSUME NEW d \in Near(N + 1) PROVE g[d] = IF ends[d] THEN out[d] ELSE g[next[d]]
      <3>1. CASE ends[d]
        BY <2>2, <3>1
      <3>2. CASE ~ ends[d]
        <4>1. next[d] \in Z /\ far[next[d]] < far[d] /\ far[d] < N + 1
          BY <2>3, <3>2
        <4>2. next[d] \in Near(N)
          BY <4>1
        <4>3. f[next[d]] = g[next[d]]
          BY <2>1, <2>2, <4>1, <4>2
        <4> QED
          BY <2>2, <3>2, <4>3
      <3> QED
        BY <3>1, <3>2
    <2> QED
      BY <2>3
  <1>3. Nat \subseteq T
    <2> HIDE DEF T
    <2> QED
      BY <1>1, <1>2, Induction
  <1>4. \A N \in Nat : \E f : Ok(f, N)
    BY <1>3
  <1> DEFINE a(N) == CHOOSE f : Ok(f, N)
  <1>5. \A N \in Nat : Ok(a(N), N)
    BY <1>4
  <1> HIDE DEF a
  <1>6. ASSUME NEW M \in Nat PROVE \A N \in 0 .. M : \A d \in Near(N) : a(M)[d] = a(N)[d]
    <2> SUFFICES ASSUME NEW N \in 0 .. M PROVE \A d \in Near(N) : a(M)[d] = a(N)[d]
      OBVIOUS
    <2>1. PICK g, h : g = a(M) /\ h = a(N)
      OBVIOUS
    <2>2. Ok(g, N) /\ Ok(h, N)
      BY <1>5, <2>1
    <2> DEFINE U == {k \in 0 .. N : \A d \in Near(k) : g[d] = h[d]}
    <2>3. 0 \in U
      OBVIOUS
    <2>4. ASSUME NEW k \in 0 .. N - 1, k \in U PROVE k + 1 \in U
      <3>1. ASSUME NEW d \in Near(k + 1) PROVE g[d] = h[d]
        <4>1. d \in Near(N)
          BY <2>4
        <4>2. CASE ends[d]
          BY <2>2, <4>1, <4>2
        <4>3. CASE ~ ends[d]
          <5>1. next[d] \in Near(k)
            BY <4>1, <4>3
          <5> QED
            BY <2>2, <2>4, <4>1, <4>3, <5>1
        <4> QED
          BY <4>2, <4>3
      <3> QED
        BY <2>4, <3>1
    <2>5. 0 .. N \subseteq U
      <3> HIDE DEF U
      <3> QED
        BY <2>3, <2>4, InductionTo
    <2> QED
      BY <2>1, <2>5
  <1>7. PICK f : f = [d \in Z |-> a(far[d] + 1)[d]]
    OBVIOUS
  <1>8. ASSUME NEW d \in Z, ~ ends[d] PROVE a(far[d] + 1)[d] = f[next[d]]
    <2>1. next[d] \in Z /\ far[next[d]] < far[d] /\ far[d] \in Nat /\ far[next[d]] \in Nat
      BY <1>8
    <2>2. PICK M, N, e : M = far[d] + 1 /\ e = next[d] /\ N = far[e] + 1
      OBVIOUS
    <2>3. M \in Nat /\ N \in 0 .. M /\ d \in Near(M) /\ e \in Near(N)
      BY <2>1, <2>2
    <2>4. a(M)[e] = a(N)[e]
      BY <1>6, <2>3
    <2>5. a(M)[d] = a(M)[e]
      BY <1>5, <1>8, <2>2, <2>3
    <2>6. f[e] = a(N)[e]
      BY <1>7, <2>1, <2>2
    <2> QED
      BY <2>2, <2>4, <2>5, <2>6
  <1>9. ASSUME NEW d \in Z, ends[d] PROVE a(far[d] + 1)[d] = out[d]
    <2>1. far[d] + 1 \in Nat /\ d \in Near(far[d] + 1)
      OBVIOUS
    <2> QED
      BY <1>5, <1>9, <2>1
  <1>10. \A d \in Z : a(far[d] + 1)[d] = IF ends[d] THEN out[d] ELSE f[next[d]]
    BY <1>8, <1>9
  <1> QED
    BY <1>7, <1>10 DEF Loops

-----------------------------------------------------------------------------
(* Numbers *)

LEMMA PowerIs ==
  /\ Power[0] = 1
  /\ \A n \in Nat : Power[n] \in Nat \ {0} /\ Power[n + 1] = Base * Power[n]
  <1>1. \E f : f = [n \in Nat |-> IF n = 0 THEN 1 ELSE Base * f[n - 1]]
    <2> DEFINE G == [p \in Nat \X Nat |-> Base * p[2]]
    <2>1. G \in [Nat \X Nat -> Nat] /\ \A n, m \in Nat : G[<<n, m>>] = Base * m
      BY BytesAssumption
    <2>2. PICK H, z : H = G /\ z = 1
      OBVIOUS
    <2> HIDE DEF G
    <2>3. PICK f \in [Nat -> Nat] : Goes(f, z, H)
      <3>1. z \in Nat /\ H \in [Nat \X Nat -> Nat]
        BY <2>1, <2>2
      <3> QED
        BY <3>1, Recursion
    <2>4. \A n \in Nat : f[n] = IF n = 0 THEN 1 ELSE Base * f[n - 1]
      <3>1. ASSUME NEW n \in Nat, n # 0 PROVE f[n] = Base * f[n - 1]
        <4>1. n - 1 \in Nat /\ n - 1 + 1 = n
          BY <3>1
        <4>2. f[n - 1 + 1] = H[<<n - 1, f[n - 1]>>] /\ f[n - 1] \in Nat
          BY <2>3, <4>1 DEF Goes
        <4> QED
          BY <2>1, <2>2, <4>1, <4>2
      <3> QED
        BY <2>2, <2>3, <3>1 DEF Goes
    <2>5. f = [n \in Nat |-> IF n = 0 THEN 1 ELSE Base * f[n - 1]]
      BY <2>3, <2>4
    <2> QED
      BY <2>5
  <1>2. Power = [n \in Nat |-> IF n = 0 THEN 1 ELSE Base * Power[n - 1]]
    BY <1>1 DEF Power
  <1>3. Power[0] = 1
    BY <1>2
  <1>4. \A n \in Nat : Power[n + 1] = Base * Power[n]
    <2> SUFFICES ASSUME NEW n \in Nat PROVE Power[n + 1] = Base * Power[n]
      OBVIOUS
    <2>1. n + 1 \in Nat /\ n + 1 # 0 /\ n + 1 - 1 = n
      OBVIOUS
    <2> QED
      BY <1>2, <2>1
  <1> DEFINE T == {n \in Nat : Power[n] \in Nat \ {0}}
  <1>5. 0 \in T
    BY <1>3
  <1>6. \A n \in Nat : n \in T => n + 1 \in T
    BY <1>4, BytesAssumption
  <1>7. Nat \subseteq T
    <2> HIDE DEF T
    <2> QED
      BY <1>5, <1>6, Induction
  <1> QED
    BY <1>3, <1>4, <1>7

LEMMA PowerSum ==
  ASSUME NEW m \in Nat, NEW n \in Nat
  PROVE  Power[m + n] = Power[m] * Power[n]
  <1> DEFINE T == {k \in Nat : Power[m + k] = Power[m] * Power[k]}
  <1>1. 0 \in T
    BY PowerIs
  <1>2. ASSUME NEW k \in Nat, k \in T PROVE k + 1 \in T
    <2>1. Power[m + k + 1] = Base * (Power[m] * Power[k])
      BY <1>2, PowerIs
    <2>2. Power[k + 1] = Base * Power[k] /\ Power[m] \in Nat /\ Power[k] \in Nat /\ Base \in Nat
      BY PowerIs, BytesAssumption
    <2>3. \A x, y, z \in Nat : x * (y * z) = y * (x * z)
      OBVIOUS
    <2>4. m + (k + 1) = m + k + 1
      OBVIOUS
    <2> QED
      BY <2>1, <2>2, <2>3, <2>4
  <1>3. Nat \subseteq T
    <2> HIDE DEF T
    <2> QED
      BY <1>1, <1>2, Induction
  <1> QED
    BY <1>3

(* What number of Number runs through. *)
NumberUpTo(f, s) ==
  /\ f[0] = 0 /\ \A n \in 0 .. Len(s) - 1 : f[n + 1] = f[n] * Base + s[n + 1]
  /\ \A n \in 0 .. Len(s) : f[n] \in Nat /\ f[n] < Power[n]
  /\ Number(s) = f[Len(s)]

(* Number runs through the numbers that a string's first bytes make. *)
LEMMA NumberIs ==
  ASSUME NEW s \in Seq(Byte)
  PROVE  \E f : NumberUpTo(f, s)
  <1>0. Len(s) \in Nat /\ \A n \in 1 .. Len(s) : s[n] \in Byte
    OBVIOUS
  <1>1. \E f \in [0 .. Len(s) -> Nat] :
          f = [n \in 0 .. Len(s) |-> IF n = 0 THEN 0 ELSE f[n - 1] * Base + s[n]]
    <2> DEFINE G == [p \in (1 .. Len(s)) \X Nat |-> p[2] * Base + s[p[1]]]
    <2>1. /\ G \in [(1 .. Len(s)) \X Nat -> Nat]
          /\ \A n \in 1 .. Len(s), m \in Nat : G[<<n, m>>] = m * Base + s[n]
      <3>1. \A n \in 1 .. Len(s), m \in Nat : m * Base + s[n] \in Nat
        BY <1>0, BytesAssumption DEF Byte
      <3> QED
        BY <3>1
    <2>2. PICK H, z, N : H = G /\ z = 0 /\ N = Len(s)
      OBVIOUS
    <2> HIDE DEF G
    <2>3. PICK f \in [0 .. N -> Nat] : RunsTo(f, z, H, N)
      <3>1. N \in Nat /\ z \in Nat /\ H \in [(1 .. N) \X Nat -> Nat]
        BY <2>1, <2>2
      <3> QED
        BY <3>1, RecursionTo
    <2>4. \A n \in 0 .. Len(s) : f[n] = IF n = 0 THEN 0 ELSE f[n - 1] * Base + s[n]
      <3>1. ASSUME NEW n \in 0 .. Len(s), n # 0 PROVE f[n] = f[n - 1] * Base + s[n]
        <4>1. n \in 1 .. Len(s) /\ n - 1 \in 0 .. Len(s)
          BY <1>0, <3>1
        <4>2. f[n] = H[<<n, f[n - 1]>>] /\ f[n - 1] \in Nat
          BY <2>2, <2>3, <4>1, <3>1 DEF RunsTo
        <4> QED
          BY <2>1, <2>2, <4>1, <4>2
      <3> QED
        BY <2>2, <2>3, <3>1 DEF RunsTo
    <2>5. f = [n \in 0 .. Len(s) |-> IF n = 0 THEN 0 ELSE f[n - 1] * Base + s[n]]
      BY <2>2, <2>3, <2>4
    <2> QED
      BY <2>2, <2>3, <2>5
  <1>2. PICK f : /\ f = [n \in 0 .. Len(s) |-> IF n = 0 THEN 0 ELSE f[n - 1] * Base + s[n]]
                 /\ Number(s) = f[Len(s)]
    BY <1>1 DEF Number
  <1>3. f[0] = 0 /\ \A n \in 0 .. Len(s) - 1 : f[n + 1] = f[n] * Base + s[n + 1]
    <2>1. f[0] = 0
      BY <1>0, <1>2
    <2>2. ASSUME NEW n \in 0 .. Len(s) - 1 PROVE f[n + 1] = f[n] * Base + s[n + 1]
      <3>1. n + 1 \in 0 .. Len(s) /\ n + 1 # 0 /\ n + 1 - 1 = n
        BY <1>0
      <3> QED
        BY <1>2, <3>1
    <2> QED
      BY <2>1, <2>2
  <1> DEFINE T == {n \in 0 .. Len(s) : f[n] \in Nat /\ f[n] < Power[n]}
  <1>4. 0 \in T
    BY <1>0, <1>3, PowerIs, SMTT(30)
  <1>5. ASSUME NEW n \in 0 .. Len(s) - 1, n \in T PROVE n + 1 \in T
    <2>1. PICK x, y, z : x = f[n] /\ y = s[n + 1] /\ z = Power[n]
      OBVIOUS
    <2>2. n + 1 \in 1 .. Len(s) /\ n \in Nat /\ n + 1 \in 0 .. Len(s)
      BY <1>0
    <2>3. x \in Nat /\ y \in Nat /\ z \in Nat /\ x < z /\ y < Base
      <3>1. y \in Byte
        BY <1>0, <2>1, <2>2
      <3>2. x \in Nat /\ x < z /\ z \in Nat
        BY <1>5, <2>1, <2>2, PowerIs
      <3> QED
        BY <3>1, <3>2, BytesAssumption DEF Byte
    <2>4. x * Base + y \in Nat /\ x * Base + y < Base * z
      <3>1. x + 1 <= z /\ Base \in Nat
        BY <2>3, BytesAssumption
      <3>2. (x + 1) * Base <= z * Base
        BY <2>3, <3>1
      <3>3. (x + 1) * Base = x * Base + Base /\ z * Base = Base * z
        BY <2>3, <3>1
      <3> QED
        BY <2>3, <3>1, <3>2, <3>3
    <2>5. Power[n + 1] = Base * z /\ f[n + 1] = x * Base + y
      BY <1>3, <2>1, <2>2, PowerIs
    <2> QED
      BY <2>2, <2>4, <2>5
  <1>6. 0 .. Len(s) \subseteq T
    <2> HIDE DEF T
    <2> QED
      BY <1>0, <1>4, <1>5, InductionTo
  <1> QED
    BY <1>2, <1>3, <1>6 DEF NumberUpTo

LEMMA NumberRange ==
  ASSUME NEW s \in Seq(Byte)
  PROVE  Number(s) \in Nat /\ Number(s) < Power[Len(s)]
  <1>1. Len(s) \in 0 .. Len(s)
    OBVIOUS
  <1> QED
    BY <1>1, NumberIs DEF NumberUpTo

(* BigEndian writes as many bytes as it is told to. *)
LEMMA BigEndianBytes ==
  ASSUME NEW n \in Nat, NEW w \in Nat
  PROVE  BigEndian(n, w) \in Seq(Byte) /\ Len(BigEndian(n, w)) = w
  <1>1. \A i \in 1 .. w : (n \div Power[w - i]) % Base \in Byte
    <2> SUFFICES ASSUME NEW i \in 1 .. w PROVE (n \div Power[w - i]) % Base \in Byte
      OBVIOUS
    <2>1. PICK p : p = Power[w - i]
      OBVIOUS
    <2>2. p \in Nat \ {0}
      <3>1. w - i \in Nat
        OBVIOUS
      <3> QED
        BY <2>1, <3>1, PowerIs
    <2>3. n \div p \in Nat
      BY <2>2
    <2> QED
      BY <2>1, <2>3, BytesAssumption DEF Byte
  <1> QED
    BY <1>1 DEF BigEndian

(* buffer_putint, buffer_putlong: a number that is written is read as itself. *)
LEMMA NumberOfBigEndian ==
  ASSUME NEW n \in Nat, NEW w \in Nat, n < Power[w]
  PROVE  Number(BigEndian(n, w)) = n
  <1>1. PICK s : s = BigEndian(n, w)
    OBVIOUS
  <1>2. s \in Seq(Byte) /\ Len(s) = w
    BY <1>1, BigEndianBytes
  <1>3. PICK f : NumberUpTo(f, s)
    BY <1>2, NumberIs
  <1> DEFINE T == {k \in 0 .. w : f[k] = n \div Power[w - k]}
  <1>4. 0 \in T
    <2>1. n \div Power[w] = 0
      <3>1. PICK p : p = Power[w]
        OBVIOUS
      <3>2. p \in Nat \ {0} /\ n < p
        BY <3>1, PowerIs
      <3>3. n \div p = 0
        BY <3>2
      <3> QED
        BY <3>1, <3>3
    <2> QED
      BY <1>3, <2>1 DEF NumberUpTo
  <1>5. ASSUME NEW k \in 0 .. w - 1, k \in T PROVE k + 1 \in T
    <2>1. PICK j : j = w - (k + 1)
      OBVIOUS
    <2>2. j \in Nat /\ w - k = j + 1 /\ k + 1 \in 1 .. w /\ k + 1 \in 0 .. w
      BY <2>1
    <2>3. PICK p : p = Power[j]
      OBVIOUS
    <2>4. p \in Nat \ {0} /\ Power[w - k] = Base * p
      BY <2>2, <2>3, PowerIs
    <2>5. s[k + 1] = (n \div p) % Base
      BY <1>1, <2>1, <2>2, <2>3 DEF BigEndian
    <2>6. f[k] = n \div (Base * p)
      BY <1>5, <2>4
    <2>7. f[k + 1] = (n \div (Base * p)) * Base + ((n \div p) % Base)
      BY <1>2, <1>3, <2>5, <2>6 DEF NumberUpTo
    <2>8. (n \div (Base * p)) * Base + ((n \div p) % Base) = n \div p
      <3>1. n \div (Base * p) = (n \div p) \div Base
        BY <2>4, BytesAssumption
      <3>2. n \div p \in Nat /\ Base \in Nat \ {0}
        BY <2>4, BytesAssumption
      <3>3. \A x \in Nat : (x \div Base) * Base + (x % Base) = x
        BY <3>2
      <3> QED
        BY <3>1, <3>2, <3>3
    <2> QED
      BY <2>1, <2>2, <2>3, <2>7, <2>8
  <1>6. 0 .. w \subseteq T
    <2> HIDE DEF T
    <2> QED
      BY <1>4, <1>5, InductionTo
  <1>7. f[w] = n \div Power[w - w]
    <2>1. w \in 0 .. w
      OBVIOUS
    <2> QED
      BY <1>6, <2>1
  <1>8. Power[w - w] = 1
    <2>1. w - w = 0
      OBVIOUS
    <2> QED
      BY <2>1, PowerIs
  <1> QED
    BY <1>1, <1>2, <1>3, <1>7, <1>8 DEF NumberUpTo

-----------------------------------------------------------------------------
(* Pieces of sequences *)

(* t is the piece of s behind the first m, and u is s and then t. *)
IsPiece(t, s, m, n) == Len(t) = n /\ \A i \in 1 .. n : t[i] = s[m + i]
IsJoin(u, s, t) ==
  /\ Len(u) = Len(s) + Len(t)
  /\ \A i \in 1 .. Len(s) : u[i] = s[i]
  /\ \A i \in 1 .. Len(t) : u[Len(s) + i] = t[i]

LEMMA TakeIs ==
  ASSUME NEW S, NEW s \in Seq(S), NEW n \in 0 .. Len(s)
  PROVE  Take(s, n) \in Seq(S) /\ IsPiece(Take(s, n), s, 0, n)
  BY DEF Take, IsPiece

LEMMA DropIs ==
  ASSUME NEW S, NEW s \in Seq(S), NEW n \in 0 .. Len(s)
  PROVE  Drop(s, n) \in Seq(S) /\ IsPiece(Drop(s, n), s, n, Len(s) - n)
  BY DEF Drop, IsPiece

LEMMA SubSeqIs ==
  ASSUME NEW S, NEW s \in Seq(S), NEW m \in Nat \ {0}, NEW n \in Nat, n <= Len(s), m <= n + 1
  PROVE  /\ SubSeq(s, m, n) \in Seq(S) /\ Len(SubSeq(s, m, n)) = n - m + 1
         /\ \A i \in 1 .. n - m + 1 : SubSeq(s, m, n)[i] = s[m + i - 1]
  OBVIOUS

LEMMA ConcatIs ==
  ASSUME NEW S, NEW s \in Seq(S), NEW t \in Seq(S)
  PROVE  s \o t \in Seq(S) /\ IsJoin(s \o t, s, t)
  <1>1. \A i \in 1 .. Len(t) : Len(s) + i > Len(s) /\ Len(s) + i - Len(s) = i /\ Len(s) + i \in 1 .. Len(s) + Len(t)
    OBVIOUS
  <1>2. s \o t \in Seq(S) /\ Len(s \o t) = Len(s) + Len(t)
    OBVIOUS
  <1>3. \A i \in 1 .. Len(s) : (s \o t)[i] = s[i]
    OBVIOUS
  <1>4. \A i \in 1 .. Len(t) : (s \o t)[Len(s) + i] = t[i]
    BY <1>1
  <1> QED
    BY <1>2, <1>3, <1>4 DEF IsJoin

LEMMA SameSeq ==
  ASSUME NEW S, NEW s \in Seq(S), NEW t \in Seq(S), Len(s) = Len(t),
         \A i \in 1 .. Len(s) : s[i] = t[i]
  PROVE  s = t
  OBVIOUS

LEMMA ConcatAssociates ==
  ASSUME NEW S, NEW s \in Seq(S), NEW t \in Seq(S), NEW u \in Seq(S)
  PROVE  (s \o t) \o u = s \o (t \o u)
  <1>1. PICK v, w : v = s \o t /\ w = t \o u
    OBVIOUS
  <1>2. v \in Seq(S) /\ w \in Seq(S) /\ IsJoin(v, s, t) /\ IsJoin(w, t, u)
    BY <1>1, ConcatIs
  <1>3. PICK x, y : x = v \o u /\ y = s \o w
    OBVIOUS
  <1>4. x \in Seq(S) /\ IsJoin(x, v, u)
    BY <1>2, <1>3, ConcatIs
  <1>5. y \in Seq(S) /\ IsJoin(y, s, w)
    BY <1>2, <1>3, ConcatIs
  <1>6. Len(s) \in Nat /\ Len(t) \in Nat /\ Len(u) \in Nat
    OBVIOUS
  <1>7. ASSUME NEW i \in 1 .. Len(x) PROVE x[i] = y[i]
    <2>1. CASE i <= Len(s)
      BY <1>2, <1>4, <1>5, <1>6, <2>1 DEF IsJoin
    <2>2. CASE i > Len(s) /\ i <= Len(s) + Len(t)
      <3>1. PICK j : j = i - Len(s)
        OBVIOUS
      <3>2. j \in 1 .. Len(t) /\ i = Len(s) + j /\ i \in 1 .. Len(v) /\ j \in 1 .. Len(w)
        BY <1>2, <1>6, <2>2, <3>1 DEF IsJoin
      <3> QED
        BY <1>2, <1>4, <1>5, <3>2 DEF IsJoin
    <2>3. CASE i > Len(s) + Len(t)
      <3>1. PICK j, k : j = i - (Len(s) + Len(t)) /\ k = Len(t) + j
        OBVIOUS
      <3>2. j \in 1 .. Len(u) /\ i = Len(v) + j /\ k \in 1 .. Len(w) /\ i = Len(s) + k
        BY <1>2, <1>4, <1>6, <2>3, <3>1 DEF IsJoin
      <3>3. x[i] = u[j]
        BY <1>4, <3>2 DEF IsJoin
      <3>4. y[i] = w[k]
        BY <1>5, <3>2 DEF IsJoin
      <3>5. w[k] = u[j]
        BY <1>2, <3>1, <3>2 DEF IsJoin
      <3> QED
        BY <3>3, <3>4, <3>5
    <2> QED
      BY <1>2, <1>4, <1>6, <2>1, <2>2, <2>3 DEF IsJoin
  <1>8. Len(x) = Len(y)
    BY <1>2, <1>4, <1>5, <1>6 DEF IsJoin
  <1>9. x = y
    BY <1>4, <1>5, <1>7, <1>8, SameSeq
  <1> QED
    BY <1>1, <1>3, <1>9

LEMMA TakeConcat ==
  ASSUME NEW S, NEW s \in Seq(S), NEW t \in Seq(S)
  PROVE  Take(s \o t, Len(s)) = s /\ Drop(s \o t, Len(s)) = t
  <1>1. PICK u, n : u = s \o t /\ n = Len(s)
    OBVIOUS
  <1>2. u \in Seq(S) /\ IsJoin(u, s, t)
    BY <1>1, ConcatIs
  <1>3. n \in 0 .. Len(u) /\ Len(u) - n = Len(t)
    BY <1>1, <1>2 DEF IsJoin
  <1>4. Take(u, n) = s
    <2>1. PICK v : v = Take(u, n)
      OBVIOUS
    <2>2. v \in Seq(S) /\ IsPiece(v, u, 0, n)
      BY <1>2, <1>3, <2>1, TakeIs
    <2>3. Len(v) = Len(s) /\ \A i \in 1 .. Len(v) : v[i] = s[i]
      BY <1>1, <1>2, <1>3, <2>2 DEF IsJoin, IsPiece
    <2> QED
      BY <2>1, <2>2, <2>3, SameSeq
  <1>5. Drop(u, n) = t
    <2>1. PICK v : v = Drop(u, n)
      OBVIOUS
    <2>2. v \in Seq(S) /\ IsPiece(v, u, n, Len(t))
      BY <1>2, <1>3, <2>1, DropIs
    <2>3. Len(v) = Len(t) /\ \A i \in 1 .. Len(v) : v[i] = t[i]
      BY <1>1, <1>2, <2>2 DEF IsJoin, IsPiece
    <2> QED
      BY <2>1, <2>2, <2>3, SameSeq
  <1> QED
    BY <1>1, <1>4, <1>5

LEMMA TakeThenDrop ==
  ASSUME NEW S, NEW s \in Seq(S), NEW n \in 0 .. Len(s)
  PROVE  s = Take(s, n) \o Drop(s, n)
  <1>1. PICK t, u, v : t = Take(s, n) /\ u = Drop(s, n) /\ v = t \o u
    OBVIOUS
  <1>2. t \in Seq(S) /\ IsPiece(t, s, 0, n) /\ u \in Seq(S) /\ IsPiece(u, s, n, Len(s) - n)
    BY <1>1, TakeIs, DropIs
  <1>3. v \in Seq(S) /\ IsJoin(v, t, u)
    BY <1>1, <1>2, ConcatIs
  <1>4. Len(t) = n /\ Len(u) = Len(s) - n /\ Len(v) = Len(s)
    BY <1>2, <1>3 DEF IsPiece, IsJoin
  <1>5. ASSUME NEW i \in 1 .. Len(s) PROVE s[i] = v[i]
    <2>1. CASE i <= n
      BY <1>2, <1>3, <1>4, <2>1 DEF IsPiece, IsJoin
    <2>2. CASE i > n
      <3>1. PICK j : j = i - n
        OBVIOUS
      <3>2. j \in 1 .. Len(s) - n /\ i = n + j
        BY <2>2, <3>1
      <3> QED
        BY <1>2, <1>3, <1>4, <3>2 DEF IsPiece, IsJoin
    <2> QED
      BY <2>1, <2>2
  <1> QED
    BY <1>1, <1>3, <1>4, <1>5, SameSeq

-----------------------------------------------------------------------------
(* Integers in bytes *)

LEMMA Sizes ==
  /\ IntSize \in Nat \ {0} /\ LongSize \in Nat /\ LongSize = IntSize + IntSize /\ LongSize > IntSize
  /\ Base \in Nat /\ Base > 1 /\ 0 \in Byte
  BY BytesAssumption DEF IntSize, LongSize, Byte

(* u32_from_big. *)
LEMMA IntComesBack ==
  ASSUME NEW n \in Nat, n < Power[IntSize], NEW rest \in Seq(Byte)
  PROVE  IntFrom(PutInt(n) \o rest) = n
  <1>1. PutInt(n) \in Seq(Byte) /\ Len(PutInt(n)) = IntSize
    BY Sizes, BigEndianBytes DEF PutInt
  <1>2. Take(PutInt(n) \o rest, IntSize) = PutInt(n)
    BY <1>1, TakeConcat
  <1>3. Number(PutInt(n)) = n
    BY Sizes, NumberOfBigEndian DEF PutInt
  <1> QED
    BY <1>2, <1>3 DEF IntFrom

(* u64_from_big, of an offset that is not wide. *)
LEMMA LongComesBack ==
  ASSUME NEW n \in Nat, n < Power[LongSize], ~ IsWide(n)
  PROVE  LongFrom(PutLong(n)) = n
  <1>1. PICK s : s = PutLong(n)
    OBVIOUS
  <1>2. s \in Seq(Byte) /\ Len(s) = LongSize
    BY <1>1, Sizes, BigEndianBytes DEF PutLong
  <1>3. Take(s, LongSize) = s
    <2>1. LongSize \in 0 .. Len(s)
      BY <1>2, Sizes
    <2>2. Take(s, LongSize) \in Seq(Byte) /\ IsPiece(Take(s, LongSize), s, 0, LongSize)
      BY <1>2, <2>1, TakeIs
    <2>3. \A i \in 1 .. Len(s) : Take(s, LongSize)[i] = s[i]
      BY <1>2, <2>2 DEF IsPiece
    <2> QED
      BY <1>2, <2>2, <2>3, SameSeq DEF IsPiece
  <1>4. Number(s) = n
    BY <1>1, Sizes, NumberOfBigEndian DEF PutLong
  <1>5. s[IntSize + 1] < Base \div 2
    <2>1. IntSize + 1 \in 1 .. LongSize /\ LongSize - (IntSize + 1) = IntSize - 1 /\ IntSize - 1 \in Nat
      BY Sizes
    <2>2. s[IntSize + 1] = (n \div Power[IntSize - 1]) % Base
      BY <1>1, <2>1 DEF PutLong, BigEndian
    <2>3. s[IntSize + 1] \in Nat
      BY <1>2, <2>1, Sizes DEF Byte
    <2>4. Base \div 2 \in Nat
      BY Sizes
    <2>5. ~ (n \div Power[IntSize - 1]) % Base >= Base \div 2
      BY DEF IsWide
    <2> QED
      BY <2>2, <2>3, <2>4, <2>5
  <1> QED
    BY <1>1, <1>3, <1>4, <1>5 DEF LongFrom

Longs == 0 .. Power[LongSize] - 1

LEMMA LongRange ==
  ASSUME NEW s \in Seq(Byte), Len(s) = LongSize
  PROVE  LongFrom(s) \in Longs
  <1>1. CASE s[IntSize + 1] < Base \div 2
    <2>1. LongSize \in 0 .. Len(s)
      BY Sizes
    <2>2. Take(s, LongSize) \in Seq(Byte) /\ Len(Take(s, LongSize)) = LongSize
      BY <2>1, TakeIs DEF IsPiece
    <2>3. Number(Take(s, LongSize)) \in Nat /\ Number(Take(s, LongSize)) < Power[LongSize]
      BY <2>2, NumberRange
    <2>4. Power[LongSize] \in Nat
      BY Sizes, PowerIs
    <2> QED
      BY <1>1, <2>3, <2>4 DEF LongFrom, Longs
  <1>2. CASE ~ s[IntSize + 1] < Base \div 2
    <2>1. PICK t, p, low : /\ t = SubSeq(s, IntSize + 1, LongSize)
                           /\ p = Power[IntSize] /\ low = Number(t)
      OBVIOUS
    <2>2. t \in Seq(Byte) /\ Len(t) = IntSize
      <3>1. /\ IntSize + 1 \in Nat \ {0} /\ LongSize \in Nat /\ LongSize <= Len(s)
            /\ IntSize + 1 <= LongSize + 1 /\ LongSize - (IntSize + 1) + 1 = IntSize
        BY Sizes
      <3> QED
        BY <2>1, <3>1, SubSeqIs
    <2>3. low \in Nat /\ low < p /\ p \in Nat
      BY <2>1, <2>2, NumberRange, Sizes, PowerIs
    <2>4. Power[LongSize] = p * p
      BY <2>1, Sizes, PowerSum
    <2>5. (p - 1) * p + low \in 0 .. p * p - 1
      <3>1. (p - 1) * p = p * p - p /\ p * p \in Nat /\ p * p >= p
        BY <2>3
      <3> QED
        BY <2>3, <3>1
    <2>6. LongFrom(s) = (p - 1) * p + low
      BY <1>2, <2>1 DEF LongFrom, AllOnes
    <2> QED
      BY <2>4, <2>5, <2>6 DEF Longs
  <1> QED
    BY <1>1, <1>2

-----------------------------------------------------------------------------
(* Strings *)

LEMMA StringBytes == Strings \subseteq Seq(Byte) /\ NUL \in Byte
  BY Sizes DEF Strings, Byte, NUL

(* A string in bytes is one of Strings. *)
LEMMA StringAtIs ==
  ASSUME NEW s \in Seq(Byte), NEW n \in 0 .. Len(s)
  PROVE  StringAt(s, n) \in Strings
  <1> DEFINE ends == {i \in n + 1 .. Len(s) : s[i] = NUL}
  <1>1. CASE ends = {}
    <2>1. PICK t : t = Drop(s, n)
      OBVIOUS
    <2>2. t \in Seq(Byte) /\ IsPiece(t, s, n, Len(s) - n)
      BY <2>1, DropIs
    <2>3. ASSUME NEW i \in 1 .. Len(t) PROVE t[i] \in Byte \ {NUL}
      <3>1. n + i \in n + 1 .. Len(s) /\ t[i] = s[n + i]
        BY <2>2 DEF IsPiece
      <3> QED
        BY <1>1, <3>1
    <2>4. t \in Strings
      BY <2>2, <2>3 DEF Strings
    <2> QED
      BY <1>1, <2>1, <2>4 DEF StringAt
  <1>2. CASE ends # {}
    <2>1. PICK e : e = CHOOSE i \in ends : \A j \in ends : i <= j
      OBVIOUS
    <2>2. e \in ends /\ \A j \in ends : e <= j
      <3>1. ends \subseteq Nat
        OBVIOUS
      <3>2. \E i \in ends : \A j \in ends : i <= j
        <4> HIDE DEF ends
        <4> QED
          BY <1>2, <3>1, LeastElement
      <3> QED
        BY <2>1, <3>2
    <2>3. e \in n + 1 .. Len(s) /\ n + 1 \in Nat \ {0} /\ e - 1 \in Nat /\ e - 1 <= Len(s) /\ n + 1 <= e - 1 + 1
      BY <2>2
    <2>4. PICK t, m : t = SubSeq(s, n + 1, e - 1) /\ m = e - 1 - (n + 1) + 1
      OBVIOUS
    <2>5. /\ t \in Seq(Byte) /\ Len(t) = m
          /\ \A i \in 1 .. m : t[i] = s[n + 1 + i - 1]
      BY <2>3, <2>4, SubSeqIs
    <2>6. ASSUME NEW i \in 1 .. Len(t) PROVE t[i] \in Byte \ {NUL}
      <3>1. n + i \in n + 1 .. Len(s) /\ ~ e <= n + i /\ n + 1 + i - 1 = n + i
        BY <2>3, <2>4, <2>5
      <3>2. s[n + i] # NUL
        BY <2>2, <3>1
      <3>3. t[i] = s[n + i]
        BY <2>5, <3>1
      <3> QED
        BY <3>1, <3>2, <3>3
    <2>7. t \in Strings
      BY <2>5, <2>6 DEF Strings
    <2> QED
      BY <1>2, <2>1, <2>4, <2>7 DEF StringAt
  <1> QED
    BY <1>1, <1>2

(* A string that is written at n is what is found there. *)
LEMMA StringComesBack ==
  ASSUME NEW s \in Seq(Byte), NEW n \in 0 .. Len(s), NEW key \in Strings,
         n + Len(key) <= Len(s), \A i \in 1 .. Len(key) : s[n + i] = key[i],
         n + Len(key) = Len(s) \/ s[n + Len(key) + 1] = NUL
  PROVE  StringAt(s, n) = key
  <1> DEFINE ends == {i \in n + 1 .. Len(s) : s[i] = NUL}
  <1>0. Len(key) \in Nat /\ key \in Seq(Byte) /\ \A i \in 1 .. Len(key) : key[i] # NUL
    BY StringBytes DEF Strings
  <1>1. \A i \in ends : i > n + Len(key)
    <2> SUFFICES ASSUME NEW i \in ends, ~ i > n + Len(key) PROVE FALSE
      OBVIOUS
    <2>1. PICK j : j = i - n
      OBVIOUS
    <2>2. j \in 1 .. Len(key) /\ i = n + j
      BY <1>0, <2>1
    <2> QED
      BY <1>0, <2>2
  <1>2. CASE n + Len(key) = Len(s)
    <2>1. ends = {}
      BY <1>1, <1>2
    <2>2. PICK t : t = Drop(s, n)
      OBVIOUS
    <2>3. t \in Seq(Byte) /\ IsPiece(t, s, n, Len(s) - n)
      BY <2>2, DropIs
    <2>4. Len(t) = Len(key) /\ \A i \in 1 .. Len(t) : t[i] = key[i]
      BY <1>0, <1>2, <2>3 DEF IsPiece
    <2>5. t = key
      BY <1>0, <2>3, <2>4, SameSeq
    <2> QED
      BY <2>1, <2>2, <2>5 DEF StringAt
  <1>3. CASE n + Len(key) # Len(s)
    <2>1. PICK e : e = CHOOSE i \in ends : \A j \in ends : i <= j
      OBVIOUS
    <2>2. n + Len(key) + 1 \in ends /\ \A j \in ends : n + Len(key) + 1 <= j
      BY <1>0, <1>1, <1>3
    <2>3. e = n + Len(key) + 1
      <3>1. e \in ends /\ \A j \in ends : e <= j
        BY <2>1, <2>2
      <3>2. e <= n + Len(key) + 1 /\ n + Len(key) + 1 <= e
        BY <2>2, <3>1
      <3> QED
        BY <1>0, <3>1, <3>2
    <2>4. PICK t : t = SubSeq(s, n + 1, n + Len(key))
      OBVIOUS
    <2>5. /\ n + 1 \in Nat \ {0} /\ n + Len(key) \in Nat /\ n + Len(key) <= Len(s)
          /\ n + 1 <= n + Len(key) + 1 /\ n + Len(key) - (n + 1) + 1 = Len(key)
      BY <1>0
    <2>6. /\ t \in Seq(Byte) /\ Len(t) = Len(key)
          /\ \A i \in 1 .. Len(key) : t[i] = s[n + 1 + i - 1]
      BY <2>4, <2>5, SubSeqIs
    <2>7. \A i \in 1 .. Len(key) : n + 1 + i - 1 = n + i
      OBVIOUS
    <2>8. \A i \in 1 .. Len(t) : t[i] = key[i]
      BY <2>6, <2>7
    <2>9. t = key
      BY <1>0, <2>6, <2>8, SameSeq
    <2>10. e - 1 = n + Len(key)
      BY <1>0, <2>3
    <2> QED
      BY <2>1, <2>2, <2>4, <2>9, <2>10 DEF StringAt
  <1> QED
    BY <1>2, <1>3

(* strcmp: the first bytes that differ, a string's end among them, decide. *)
PadAt(s, i) == IF i <= Len(s) THEN s[i] ELSE 0
FirstLess(s, t, i) == PadAt(s, i) < PadAt(t, i) /\ \A j \in 1 .. i - 1 : PadAt(s, j) = PadAt(t, j)

LEMMA PadIs ==
  ASSUME NEW s \in Strings
  PROVE  /\ Len(s) \in Nat /\ s \in Seq(Byte)
         /\ \A i \in Nat \ {0} : /\ PadAt(s, i) \in Nat
                                 /\ i <= Len(s) <=> PadAt(s, i) # 0
                                 /\ i <= Len(s) => PadAt(s, i) = s[i]
  <1>1. Len(s) \in Nat /\ s \in Seq(Byte)
    BY StringBytes DEF Strings
  <1>2. ASSUME NEW i \in Nat \ {0}, i <= Len(s) PROVE s[i] \in Nat /\ s[i] # 0
    <2>1. i \in 1 .. Len(s)
      BY <1>1, <1>2
    <2>2. s[i] \in Byte \ {NUL}
      BY <2>1 DEF Strings
    <2> QED
      BY <2>2 DEF Byte, NUL
  <1> QED
    BY <1>1, <1>2 DEF PadAt

(* Before is strcmp: the first bytes that differ decide. *)
LEMMA BeforeIs ==
  ASSUME NEW s \in Strings, NEW t \in Strings
  PROVE  Before(s, t) <=> \E i \in Nat \ {0} : FirstLess(s, t, i)
  <1>1. PICK m, n : m = Len(s) /\ n = Len(t)
    OBVIOUS
  <1>2. m \in Nat /\ n \in Nat /\ s \in Seq(Byte) /\ t \in Seq(Byte)
    BY <1>1, PadIs
  <1>3. ASSUME IsStrictPrefix(s, t) PROVE FirstLess(s, t, m + 1)
    <2>1. m <= n /\ Take(s, m) = Take(t, m) /\ s # t
      BY <1>1, <1>3 DEF IsStrictPrefix, IsPrefix, Take
    <2>2. IsPiece(Take(s, m), s, 0, m) /\ IsPiece(Take(t, m), t, 0, m)
      <3>1. m \in 0 .. Len(s) /\ m \in 0 .. Len(t)
        BY <1>1, <1>2, <2>1
      <3> QED
        BY <1>2, <3>1, TakeIs
    <2>3. \A j \in 1 .. m : s[j] = t[j]
      BY <1>2, <2>1, <2>2 DEF IsPiece
    <2>4. m # n
      BY <1>1, <1>2, <2>1, <2>3, SameSeq
    <2>5. m + 1 <= n /\ ~ m + 1 <= m /\ m + 1 \in Nat \ {0} /\ m + 1 - 1 = m
      BY <1>2, <2>1, <2>4
    <2>6. PadAt(s, m + 1) = 0 /\ PadAt(t, m + 1) # 0 /\ PadAt(t, m + 1) \in Nat
      BY <1>1, <2>5, PadIs
    <2>7. \A j \in 1 .. m : PadAt(s, j) = s[j] /\ PadAt(t, j) = t[j]
      <3>1. \A j \in 1 .. m : j <= m /\ j <= n
        BY <1>2, <2>1
      <3> QED
        BY <1>1, <3>1 DEF PadAt
    <2>8. PadAt(s, m + 1) < PadAt(t, m + 1)
      BY <2>6
    <2>9. \A j \in 1 .. m + 1 - 1 : PadAt(s, j) = PadAt(t, j)
      BY <2>3, <2>5, <2>7
    <2> QED
      BY <1>2, <2>8, <2>9 DEF FirstLess
  <1>4. ASSUME NEW i \in DOMAIN s \cap DOMAIN t, s[i] < t[i], Take(s, i - 1) = Take(t, i - 1)
        PROVE  i \in Nat \ {0} /\ FirstLess(s, t, i)
    <2>1. i \in 1 .. m /\ i \in 1 .. n
      BY <1>1, <1>2
    <2>2. i - 1 \in 0 .. Len(s) /\ i - 1 \in 0 .. Len(t) /\ i \in Nat \ {0} /\ i <= m /\ i <= n
      BY <1>1, <1>2, <2>1
    <2>3. IsPiece(Take(s, i - 1), s, 0, i - 1) /\ IsPiece(Take(t, i - 1), t, 0, i - 1)
      BY <1>2, <2>2, TakeIs
    <2>4. \A j \in 1 .. i - 1 : s[j] = t[j]
      BY <1>2, <1>4, <2>3 DEF IsPiece
    <2>5. \A j \in 1 .. i : PadAt(s, j) = s[j] /\ PadAt(t, j) = t[j]
      <3>1. \A j \in 1 .. i : j <= m /\ j <= n
        BY <1>2, <2>2
      <3> QED
        BY <1>1, <3>1 DEF PadAt
    <2>6. i \in 1 .. i /\ \A j \in 1 .. i - 1 : j \in 1 .. i
      BY <2>2
    <2> QED
      BY <1>4, <2>2, <2>4, <2>5, <2>6 DEF FirstLess
  <1>5. ASSUME NEW i \in Nat \ {0}, FirstLess(s, t, i)
        PROVE  Before(s, t)
    <2>1. PadAt(t, i) # 0 /\ i <= n
      <3>1. PadAt(s, i) \in Nat /\ PadAt(t, i) \in Nat /\ PadAt(s, i) < PadAt(t, i)
        BY <1>5, PadIs DEF FirstLess
      <3>2. PadAt(t, i) # 0
        BY <3>1
      <3> QED
        BY <1>1, <3>2, PadIs
    <2>2. ASSUME NEW j \in 1 .. i - 1 PROVE j <= m /\ j <= n /\ s[j] = t[j]
      <3>1. j \in Nat \ {0} /\ j <= n
        BY <1>2, <2>1
      <3>2. PadAt(s, j) = PadAt(t, j)
        BY <1>5 DEF FirstLess
      <3> QED
        BY <1>1, <3>1, <3>2, PadIs
    <2>3. i - 1 <= m
      <3>1. CASE i = 1
        BY <1>2, <3>1
      <3>2. CASE i # 1
        <4>1. i - 1 \in 1 .. i - 1
          BY <3>2
        <4> QED
          BY <2>2, <4>1
      <3> QED
        BY <3>1, <3>2
    <2>4. Take(s, i - 1) = Take(t, i - 1)
      <3>1. i - 1 \in 0 .. Len(s) /\ i - 1 \in 0 .. Len(t)
        BY <1>1, <1>2, <2>1, <2>3
      <3>2. PICK u, v : u = Take(s, i - 1) /\ v = Take(t, i - 1)
        OBVIOUS
      <3>3. /\ u \in Seq(Byte) /\ IsPiece(u, s, 0, i - 1)
            /\ v \in Seq(Byte) /\ IsPiece(v, t, 0, i - 1)
        BY <1>2, <3>1, <3>2, TakeIs
      <3>4. Len(u) = Len(v) /\ \A j \in 1 .. Len(u) : u[j] = v[j]
        BY <1>2, <2>2, <3>3 DEF IsPiece
      <3> QED
        BY <3>2, <3>3, <3>4, SameSeq
    <2>5. CASE i - 1 = m
      <3>1. m < n /\ m <= n
        BY <1>2, <2>1, <2>5
      <3>2. s # t
        BY <1>1, <1>2, <3>1
      <3> QED
        BY <1>1, <2>4, <2>5, <3>1, <3>2 DEF Before, IsStrictPrefix, IsPrefix, Take
    <2>6. CASE i - 1 # m
      <3>1. i <= m /\ i \in 1 .. m /\ i \in 1 .. n
        BY <1>2, <2>1, <2>3, <2>6
      <3>2. i \in DOMAIN s \cap DOMAIN t
        BY <1>1, <1>2, <3>1
      <3>3. s[i] < t[i]
        BY <1>1, <1>5, <2>1, <3>1 DEF FirstLess, PadAt
      <3> QED
        BY <2>4, <3>2, <3>3 DEF Before
    <2> QED
      BY <2>5, <2>6
  <1>6. m + 1 \in Nat \ {0}
    BY <1>2
  <1> QED
    BY <1>3, <1>4, <1>5, <1>6 DEF Before

LEMMA BeforeIrreflexive ==
  ASSUME NEW s \in Strings
  PROVE  ~ Before(s, s)
  <1>1. \A i \in Nat \ {0} : PadAt(s, i) \in Nat
    BY PadIs
  <1>2. \A i \in Nat \ {0} : ~ FirstLess(s, s, i)
    BY <1>1 DEF FirstLess
  <1> QED
    BY <1>2, BeforeIs

LEMMA BeforeTransitive ==
  ASSUME NEW s \in Strings, NEW t \in Strings, NEW u \in Strings, Before(s, t), Before(t, u)
  PROVE  Before(s, u)
  <1>1. PICK i \in Nat \ {0} : FirstLess(s, t, i)
    BY BeforeIs
  <1>2. PICK j \in Nat \ {0} : FirstLess(t, u, j)
    BY BeforeIs
  <1>3. \A k \in Nat \ {0} : PadAt(s, k) \in Nat /\ PadAt(t, k) \in Nat /\ PadAt(u, k) \in Nat
    BY PadIs
  <1>4. CASE i <= j
    <2>1. FirstLess(s, u, i)
      <3>1. \A k \in 1 .. i - 1 : k \in 1 .. j - 1
        BY <1>4
      <3>2. i = j \/ i \in 1 .. j - 1
        BY <1>4
      <3> QED
        BY <1>1, <1>2, <1>3, <3>1, <3>2 DEF FirstLess
    <2> QED
      BY <2>1, BeforeIs
  <1>5. CASE j < i
    <2>1. FirstLess(s, u, j)
      <3>1. \A k \in 1 .. j - 1 : k \in 1 .. i - 1
        BY <1>5
      <3>2. j \in 1 .. i - 1
        BY <1>5
      <3> QED
        BY <1>1, <1>2, <1>3, <3>1, <3>2 DEF FirstLess
    <2> QED
      BY <2>1, BeforeIs
  <1> QED
    BY <1>4, <1>5

LEMMA BeforeTotal ==
  ASSUME NEW s \in Strings, NEW t \in Strings, s # t
  PROVE  Before(s, t) \/ Before(t, s)
  <1> DEFINE T == {i \in Nat \ {0} : PadAt(s, i) # PadAt(t, i)}
  <1>1. T # {}
    <2> SUFFICES ASSUME \A i \in Nat \ {0} : PadAt(s, i) = PadAt(t, i) PROVE FALSE
      OBVIOUS
    <2>1. Len(s) \in Nat /\ Len(t) \in Nat /\ s \in Seq(Byte) /\ t \in Seq(Byte)
      BY PadIs
    <2>2. \A i \in Nat \ {0} : i <= Len(s) <=> i <= Len(t)
      BY PadIs
    <2>3. Len(s) = Len(t)
      <3>1. CASE Len(s) < Len(t)
        <4>1. Len(t) \in Nat \ {0} /\ Len(t) <= Len(t) /\ ~ Len(t) <= Len(s)
          BY <2>1, <3>1
        <4> QED
          BY <2>2, <4>1
      <3>2. CASE Len(t) < Len(s)
        <4>1. Len(s) \in Nat \ {0} /\ Len(s) <= Len(s) /\ ~ Len(s) <= Len(t)
          BY <2>1, <3>2
        <4> QED
          BY <2>2, <4>1
      <3> QED
        BY <2>1, <3>1, <3>2
    <2>4. \A i \in 1 .. Len(s) : s[i] = t[i]
      <3>1. \A i \in 1 .. Len(s) : i \in Nat \ {0} /\ i <= Len(s) /\ i <= Len(t)
        BY <2>1, <2>3
      <3> QED
        BY <3>1 DEF PadAt
    <2> QED
      BY <2>1, <2>3, <2>4, SameSeq
  <1>2. PICK i \in T : \A j \in T : i <= j
    <2>1. T \subseteq Nat
      OBVIOUS
    <2> HIDE DEF T
    <2> QED
      BY <1>1, <2>1, LeastElement
  <1>3. \A j \in 1 .. i - 1 : PadAt(s, j) = PadAt(t, j)
    <2>1. \A j \in 1 .. i - 1 : j \in Nat \ {0} /\ ~ i <= j
      OBVIOUS
    <2> QED
      BY <1>2, <2>1
  <1>4. i \in Nat \ {0} /\ PadAt(s, i) # PadAt(t, i) /\ PadAt(s, i) \in Nat /\ PadAt(t, i) \in Nat
    BY PadIs
  <1>5. PadAt(s, i) < PadAt(t, i) \/ PadAt(t, i) < PadAt(s, i)
    BY <1>4
  <1>6. FirstLess(s, t, i) \/ FirstLess(t, s, i)
    BY <1>3, <1>5 DEF FirstLess
  <1> QED
    BY <1>4, <1>6, BeforeIs

-----------------------------------------------------------------------------
(* Lists, and their order *)

IsList(entries) ==
  /\ entries \subseteq Entries /\ IsFiniteSet(entries)
  /\ \A x, y \in entries : x.key = y.key => x = y

LEMMA EntriesAre ==
  ASSUME NEW e \in Entries
  PROVE  /\ e.key \in Strings /\ e.off \in Longs /\ e.opt \in {"ADD", "DEL"}
         /\ e = Entry(e.key, e.off, e.opt)
  BY DEF Entries, Longs, Entry

LEMMA SublistsAre ==
  ASSUME NEW entries, IsList(entries), NEW some \in SUBSET entries
  PROVE  IsList(some)
  <1>1. IsFiniteSet(some)
    BY FS_Subset DEF IsList
  <1> QED
    BY <1>1 DEF IsList

LEMMA AddsAre ==
  ASSUME NEW entries, IsList(entries)
  PROVE  IsList(Adds(entries)) /\ Adds(entries) \subseteq entries
  BY SublistsAre DEF Adds

(* jikukan_insert: a list stays one. *)
LEMMA InsertIs ==
  ASSUME NEW entries, IsList(entries), NEW e \in Entries
  PROVE  IsList(Insert(entries, e))
  <1>1. PICK rest : rest = {x \in entries : x.key # e.key}
    OBVIOUS
  <1>2. rest \in SUBSET entries
    BY <1>1
  <1>3. IsFiniteSet(rest)
    BY <1>2, FS_Subset DEF IsList
  <1>4. IsFiniteSet(rest \cup {e})
    BY <1>3, FS_AddElement
  <1>5. \A x, y \in rest \cup {e} : x.key = y.key => x = y
    BY <1>1, <1>2 DEF IsList
  <1>6. Insert(entries, e) = rest \cup {e}
    BY <1>1 DEF Insert
  <1> QED
    BY <1>2, <1>4, <1>5, <1>6 DEF IsList

(* How many entries of a list have smaller keys. *)
Below(entries, e) == {x \in entries : Before(x.key, e.key)}

(* The more entries are before an entry, the later it is. *)
LEMMA RanksGrow ==
  ASSUME NEW entries, IsList(entries), NEW e \in entries
  PROVE  /\ IsFiniteSet(Below(entries, e))
         /\ Cardinality(Below(entries, e)) \in 0 .. Cardinality(entries) - 1
         /\ \A g \in entries : Before(e.key, g.key) =>
              Cardinality(Below(entries, e)) < Cardinality(Below(entries, g))
  <1>1. \A g \in entries : /\ g.key \in Strings /\ Below(entries, g) \in SUBSET entries
                           /\ IsFiniteSet(Below(entries, g)) /\ Cardinality(Below(entries, g)) \in Nat
    <2>1. \A g \in entries : g.key \in Strings /\ Below(entries, g) \in SUBSET entries
      BY EntriesAre DEF IsList, Below
    <2>2. \A g \in entries : IsFiniteSet(Below(entries, g))
      BY <2>1, FS_Subset DEF IsList
    <2> QED
      BY <2>1, <2>2, FS_CardinalityType
  <1>2. Cardinality(Below(entries, e)) < Cardinality(entries)
    <2>1. e \notin Below(entries, e)
      BY <1>1, BeforeIrreflexive DEF Below
    <2>2. PICK S : S = Below(entries, e)
      OBVIOUS
    <2>3. S \in SUBSET entries /\ S # entries /\ IsFiniteSet(entries)
      BY <1>1, <2>1, <2>2 DEF IsList
    <2>4. Cardinality(S) <= Cardinality(entries) /\ Cardinality(entries) # Cardinality(S)
      BY <2>3, FS_Subset
    <2>5. Cardinality(entries) \in Nat /\ Cardinality(S) \in Nat
      BY <1>1, <2>2, <2>3, FS_CardinalityType
    <2> QED
      BY <2>2, <2>4, <2>5
  <1>3. ASSUME NEW g \in entries, Before(e.key, g.key)
        PROVE  Cardinality(Below(entries, e)) < Cardinality(Below(entries, g))
    <2>1. PICK S, T : S = Below(entries, e) /\ T = Below(entries, g)
      OBVIOUS
    <2>2. S \subseteq T
      <3>1. ASSUME NEW x \in entries, Before(x.key, e.key) PROVE Before(x.key, g.key)
        <4>1. x.key \in Strings /\ e.key \in Strings /\ g.key \in Strings
          BY <1>1
        <4> QED
          BY <1>3, <3>1, <4>1, BeforeTransitive
      <3> QED
        BY <2>1, <3>1 DEF Below
    <2>3. e \in T /\ e \notin S
      BY <1>1, <1>3, <2>1, BeforeIrreflexive DEF Below
    <2>4. IsFiniteSet(T) /\ S \in SUBSET T /\ S # T /\ Cardinality(S) \in Nat /\ Cardinality(T) \in Nat
      BY <1>1, <2>1, <2>2, <2>3
    <2>5. Cardinality(S) <= Cardinality(T) /\ Cardinality(T) # Cardinality(S)
      BY <2>4, FS_Subset
    <2> QED
      BY <2>1, <2>4, <2>5
  <1>4. Cardinality(entries) \in Nat
    BY FS_CardinalityType DEF IsList
  <1> QED
    BY <1>1, <1>2, <1>3, <1>4

(* s lists the entries in the order of their keys. *)
Sorts(s, entries) ==
  /\ s \in Seq(entries) /\ Len(s) = Cardinality(entries) /\ Len(s) \in Nat
  /\ \A i \in 1 .. Len(s) : s[i] \in entries
  /\ \A i, j \in 1 .. Len(s) : i < j => Before(s[i].key, s[j].key)
  /\ \A e \in entries : \E i \in 1 .. Len(s) : s[i] = e

(* Sorted gives each entry once, in the order of keys. *)
LEMMA SortedIs ==
  ASSUME NEW entries, IsList(entries)
  PROVE  Sorts(Sorted(entries), entries)
  <1>1. PICK n : n = Cardinality(entries)
    OBVIOUS
  <1>2. n \in Nat /\ IsFiniteSet(entries)
    BY <1>1, FS_CardinalityType DEF IsList
  <1>3. PICK f : f = [e \in entries |-> Cardinality(Below(entries, e))]
    OBVIOUS
  <1>4. f \in [entries -> 0 .. n - 1]
    BY <1>1, <1>3, RanksGrow
  <1>5. \A e, g \in entries : Before(e.key, g.key) => f[e] < f[g]
    BY <1>3, RanksGrow
  <1>6. ASSUME NEW e \in entries, NEW g \in entries, e # g PROVE f[e] # f[g]
    <2>1. e.key # g.key /\ e.key \in Strings /\ g.key \in Strings
      BY <1>6, EntriesAre DEF IsList
    <2>2. Before(e.key, g.key) \/ Before(g.key, e.key)
      BY <2>1, BeforeTotal
    <2>3. f[e] < f[g] \/ f[g] < f[e]
      BY <1>5, <2>2
    <2>4. f[e] \in Nat /\ f[g] \in Nat
      BY <1>2, <1>4
    <2> QED
      BY <2>3, <2>4
  <1>7. f \in Surjection(entries, 0 .. n - 1)
    <2>1. f \in Injection(entries, 0 .. n - 1)
      BY <1>4, <1>6 DEF Injection, IsInjective
    <2>2. IsFiniteSet(0 .. n - 1) /\ Cardinality(0 .. n - 1) = n
      <3>1. 0 \in Int /\ n - 1 \in Int
        BY <1>2
      <3>2. IsFiniteSet(0 .. n - 1) /\ Cardinality(0 .. n - 1) = IF 0 > n - 1 THEN 0 ELSE n - 1 - 0 + 1
        BY <3>1, FS_Interval
      <3> QED
        BY <1>2, <3>2
    <2>3. PICK T : T = 0 .. n - 1
      OBVIOUS
    <2>4. f \in Injection(entries, T) /\ IsFiniteSet(T) /\ Cardinality(entries) = Cardinality(T)
      BY <1>1, <2>1, <2>2, <2>3
    <2>5. f \in Surjection(entries, T)
      BY <2>4, FS_Injection
    <2> QED
      BY <2>3, <2>5
  <1>8. \A r \in 0 .. n - 1 : \E e \in entries : f[e] = r
    BY <1>7 DEF Surjection
  <1>9. PICK s : s = Sorted(entries)
    OBVIOUS
  <1>10. s = [i \in 1 .. n |-> CHOOSE e \in entries : f[e] = i - 1]
    <2>1. \A i \in 1 .. n : (CHOOSE e \in entries : Cardinality({x \in entries : Before(x.key, e.key)}) = i - 1)
                            = (CHOOSE e \in entries : f[e] = i - 1)
      <3> SUFFICES ASSUME NEW i \in 1 .. n
                   PROVE (CHOOSE e \in entries : Cardinality({x \in entries : Before(x.key, e.key)}) = i - 1)
                            = (CHOOSE e \in entries : f[e] = i - 1)
        OBVIOUS
      <3>1. \A e \in entries : f[e] = Cardinality({x \in entries : Before(x.key, e.key)})
        BY <1>3 DEF Below
      <3> QED
        BY <3>1
    <2> QED
      BY <1>1, <1>9, <2>1 DEF Sorted
  <1>11. \A i \in 1 .. n : s[i] \in entries /\ f[s[i]] = i - 1
    <2> SUFFICES ASSUME NEW i \in 1 .. n PROVE s[i] \in entries /\ f[s[i]] = i - 1
      OBVIOUS
    <2>1. i - 1 \in 0 .. n - 1
      BY <1>2
    <2>2. \E e \in entries : f[e] = i - 1
      BY <1>8, <2>1
    <2>3. s[i] = CHOOSE e \in entries : f[e] = i - 1
      BY <1>10
    <2> QED
      BY <2>2, <2>3
  <1>12. s \in Seq(entries) /\ Len(s) = n
    BY <1>2, <1>10, <1>11
  <1>13. ASSUME NEW i \in 1 .. n, NEW j \in 1 .. n, i < j PROVE Before(s[i].key, s[j].key)
    <2>1. PICK e, g : e = s[i] /\ g = s[j]
      OBVIOUS
    <2>2. e \in entries /\ g \in entries /\ f[e] < f[g]
      BY <1>2, <1>11, <1>13, <2>1
    <2>3. f[e] \in Nat /\ f[g] \in Nat
      BY <1>2, <1>4, <2>2
    <2>4. e # g /\ ~ f[g] < f[e]
      BY <2>2, <2>3
    <2>5. e.key # g.key /\ e.key \in Strings /\ g.key \in Strings
      BY <2>2, <2>4, EntriesAre DEF IsList
    <2>6. Before(e.key, g.key) \/ Before(g.key, e.key)
      BY <2>5, BeforeTotal
    <2> QED
      BY <1>5, <2>1, <2>2, <2>4, <2>6
  <1>14. ASSUME NEW e \in entries PROVE \E i \in 1 .. n : s[i] = e
    <2>1. PICK i : i = f[e] + 1
      OBVIOUS
    <2>2. i \in 1 .. n /\ i - 1 = f[e]
      BY <1>2, <1>4, <2>1
    <2>3. s[i] \in entries /\ f[s[i]] = f[e]
      BY <1>11, <2>2
    <2> QED
      BY <1>6, <2>2, <2>3
  <1> QED
    BY <1>1, <1>2, <1>9, <1>11, <1>12, <1>13, <1>14 DEF Sorts

-----------------------------------------------------------------------------
(* The bytes of a file *)

(* A finite set of numbers has a greatest element. *)
LEMMA LongestIs ==
  ASSUME NEW S, S \subseteq Nat, IsFiniteSet(S), S # {}
  PROVE  Longest(S) \in S /\ \A m \in S : Longest(S) >= m
  <1> DEFINE Bad == {T \in SUBSET S : T # {} /\ ~ \E n \in T : \A m \in T : n >= m}
             Sizes_ == {Cardinality(T) : T \in Bad}
  <1>1. \A T \in SUBSET S : IsFiniteSet(T) /\ Cardinality(T) \in Nat
    BY FS_Subset, FS_CardinalityType
  <1>2. ASSUME NEW T \in Bad PROVE \E U \in Bad : Cardinality(U) < Cardinality(T)
    <2>1. PICK x \in T : TRUE
      OBVIOUS
    <2>2. PICK U : U = T \ {x}
      OBVIOUS
    <2>3. U # {}
      <3>1. CASE U = {}
        <4>1. T = {x} /\ x \in Nat
          BY <2>1, <2>2, <3>1
        <4> QED
          BY <1>2, <4>1
      <3> QED
        BY <3>1
    <2>4. ~ \E n \in U : \A m \in U : n >= m
      <3> SUFFICES ASSUME NEW n \in U, \A m \in U : n >= m PROVE FALSE
        OBVIOUS
      <3>1. n \in Nat /\ x \in Nat /\ n \in T
        BY <2>1, <2>2
      <3>2. CASE n >= x
        <4>1. \A m \in T : n >= m
          BY <2>2, <3>2
        <4> QED
          BY <1>2, <3>1, <4>1
      <3>3. CASE x > n
        <4>1. \A m \in T : m \in Nat
          OBVIOUS
        <4>2. \A m \in T : x >= m
          BY <2>2, <3>1, <3>3, <4>1
        <4> QED
          BY <1>2, <2>1, <4>2
      <3> QED
        BY <3>1, <3>2, <3>3
    <2>5. Cardinality(U) = Cardinality(T) - 1
      <3>1. IsFiniteSet(T)
        BY <1>1
      <3>2. Cardinality(T \ {x}) = IF x \in T THEN Cardinality(T) - 1 ELSE Cardinality(T)
        BY <3>1, FS_RemoveElement
      <3> QED
        BY <2>1, <2>2, <3>2
    <2>6. U \in Bad
      BY <2>2, <2>3, <2>4
    <2>7. Cardinality(T) \in Nat
      BY <1>1
    <2> QED
      BY <2>5, <2>6, <2>7
  <1>3. CASE Bad = {}
    <2>1. S \notin Bad
      BY <1>3
    <2>2. \E n \in S : \A m \in S : n >= m
      BY <2>1
    <2> QED
      BY <2>2 DEF Longest
  <1>4. CASE Bad # {}
    <2>1. Sizes_ \subseteq Nat /\ Sizes_ # {}
      BY <1>1, <1>4
    <2>2. PICK c \in Sizes_ : \A d \in Sizes_ : c <= d
      <3> HIDE DEF Sizes_
      <3> QED
        BY <2>1, LeastElement
    <2>3. PICK T \in Bad : c = Cardinality(T)
      OBVIOUS
    <2>4. PICK U \in Bad : Cardinality(U) < Cardinality(T)
      BY <1>2
    <2>5. Cardinality(U) \in Sizes_ /\ Cardinality(U) \in Nat /\ Cardinality(T) \in Nat
      BY <1>1
    <2> QED
      BY <2>2, <2>3, <2>4, <2>5
  <1> QED
    BY <1>3, <1>4

LEMMA MaxLenIs ==
  ASSUME NEW entries, IsList(entries), Adds(entries) # {}
  PROVE  /\ MaxLen(entries) \in Nat \ {0}
         /\ \E e \in Adds(entries) : MaxLen(entries) = Len(e.key) + 1
  <1>1. PICK a, S : a = Adds(entries) /\ S = {Len(e.key) : e \in a}
    OBVIOUS
  <1>2. IsFiniteSet(a) /\ a # {} /\ \A e \in a : e.key \in Strings
    BY <1>1, AddsAre, EntriesAre DEF IsList
  <1>3. S \subseteq Nat /\ S # {}
    BY <1>1, <1>2, PadIs
  <1>4. IsFiniteSet(S)
    <2>1. PICK f : f = [e \in a |-> Len(e.key)]
      OBVIOUS
    <2>2. f \in Surjection(a, S)
      BY <1>1, <2>1 DEF Surjection
    <2> QED
      BY <1>2, <2>2, FS_Surjection
  <1>5. Longest(S) \in S
    BY <1>3, <1>4, LongestIs
  <1>6. MaxLen(entries) = Longest(S) + 1
    BY <1>1 DEF MaxLen
  <1> QED
    BY <1>1, <1>3, <1>5, <1>6

(* What _write_mmap writes of an entry. *)
Written(e) == e.key \o <<NUL>> \o PutLong(e.off)

LEMMA WrittenIs ==
  ASSUME NEW e \in Entries
  PROVE  /\ Written(e) \in Seq(Byte) /\ Len(Written(e)) = Len(e.key) + 1 + LongSize
         /\ \A i \in 1 .. Len(e.key) : Written(e)[i] = e.key[i]
         /\ Written(e)[Len(e.key) + 1] = NUL
         /\ \A i \in 1 .. LongSize : Written(e)[Len(e.key) + 1 + i] = PutLong(e.off)[i]
  <1>1. PICK k, p, z, u, w : /\ k = e.key /\ p = PutLong(e.off) /\ z = <<NUL>>
                             /\ u = k \o z /\ w = u \o p
    OBVIOUS
  <1>2. k \in Seq(Byte) /\ p \in Seq(Byte) /\ Len(p) = LongSize /\ z \in Seq(Byte) /\ Len(z) = 1 /\ z[1] = NUL
    <2>1. k \in Seq(Byte) /\ z \in Seq(Byte)
      BY <1>1, EntriesAre, StringBytes
    <2>2. e.off \in Nat
      BY EntriesAre, PowerIs, Sizes DEF Longs
    <2>3. p \in Seq(Byte) /\ Len(p) = LongSize
      BY <1>1, <2>2, Sizes, BigEndianBytes DEF PutLong
    <2> QED
      BY <1>1, <2>1, <2>3
  <1>3. u \in Seq(Byte) /\ IsJoin(u, k, z)
    BY <1>1, <1>2, ConcatIs
  <1>4. w \in Seq(Byte) /\ IsJoin(w, u, p)
    BY <1>1, <1>2, <1>3, ConcatIs
  <1>5. Len(k) \in Nat /\ Len(u) = Len(k) + 1 /\ Len(w) = Len(k) + 1 + LongSize
    BY <1>2, <1>3, <1>4 DEF IsJoin
  <1>6. \A i \in 1 .. Len(k) : w[i] = k[i]
    BY <1>3, <1>4, <1>5 DEF IsJoin
  <1>7. w[Len(k) + 1] = NUL
    BY <1>2, <1>3, <1>4, <1>5 DEF IsJoin
  <1>8. \A i \in 1 .. LongSize : w[Len(k) + 1 + i] = p[i]
    BY <1>2, <1>4, <1>5 DEF IsJoin
  <1>9. w = Written(e)
    BY <1>1 DEF Written
  <1> QED
    BY <1>1, <1>4, <1>5, <1>6, <1>7, <1>8, <1>9

LEMMA WrittenParts ==
  ASSUME NEW w \in Seq(Byte), NEW e \in Entries
  PROVE  w \o Written(e) = w \o e.key \o <<NUL>> \o PutLong(e.off)
  <1>1. PICK k, p, o, u, v : /\ k = e.key /\ p = PutLong(e.off) /\ o = <<NUL>>
                             /\ u = k \o o /\ v = w \o k
    OBVIOUS
  <1>2. k \in Seq(Byte) /\ o \in Seq(Byte) /\ p \in Seq(Byte)
    <2>1. k \in Seq(Byte) /\ o \in Seq(Byte)
      BY <1>1, EntriesAre, StringBytes
    <2>2. e.off \in Nat
      BY EntriesAre, PowerIs, Sizes DEF Longs
    <2>3. p \in Seq(Byte)
      BY <1>1, <2>2, Sizes, BigEndianBytes DEF PutLong
    <2> QED
      BY <2>1, <2>3
  <1>3. u \in Seq(Byte)
    BY <1>1, <1>2
  <1>4. (w \o u) \o p = w \o (u \o p)
    BY <1>2, <1>3, ConcatAssociates
  <1>5. v \o o = w \o u
    <2>1. (w \o k) \o o = w \o (k \o o)
      BY <1>2, ConcatAssociates
    <2> QED
      BY <1>1, <2>1
  <1>6. Written(e) = u \o p
    BY <1>1 DEF Written
  <1> QED
    BY <1>1, <1>4, <1>5, <1>6

(* What written of Records runs through. *)
WritesUpTo(f, s, entries) ==
  /\ f[0] = <<>> /\ \A n \in 0 .. Len(s) - 1 : f[n + 1] = f[n] \o Written(s[n + 1])
  /\ \A n \in 0 .. Len(s) : f[n] \in Seq(Byte)
  /\ Records(entries) = f[Len(s)]

(* The bytes of a file are one record behind the other. *)
LEMMA RecordsAre ==
  ASSUME NEW entries, IsList(entries), NEW s, s = Sorted(Adds(entries))
  PROVE  \E f : WritesUpTo(f, s, entries)
  <1>0. /\ Len(s) \in Nat /\ \A n \in 1 .. Len(s) : s[n] \in Entries
    <2>1. IsList(Adds(entries))
      BY AddsAre
    <2>2. Sorts(s, Adds(entries))
      BY <2>1, SortedIs
    <2> QED
      BY <2>1, <2>2 DEF Sorts, IsList
  <1>1. \E f \in [0 .. Len(s) -> Seq(Byte)] :
          f = [n \in 0 .. Len(s) |-> IF n = 0 THEN <<>> ELSE f[n - 1] \o s[n].key \o <<NUL>> \o PutLong(s[n].off)]
    <2> DEFINE G == [p \in (1 .. Len(s)) \X Seq(Byte) |-> p[2] \o Written(s[p[1]])]
    <2>1. /\ G \in [(1 .. Len(s)) \X Seq(Byte) -> Seq(Byte)]
          /\ \A n \in 1 .. Len(s), w \in Seq(Byte) : G[<<n, w>>] = w \o Written(s[n])
      <3>1. \A n \in 1 .. Len(s), w \in Seq(Byte) : w \o Written(s[n]) \in Seq(Byte)
        <4> SUFFICES ASSUME NEW n \in 1 .. Len(s), NEW w \in Seq(Byte)
                     PROVE  w \o Written(s[n]) \in Seq(Byte)
          OBVIOUS
        <4>1. Written(s[n]) \in Seq(Byte)
          BY <1>0, WrittenIs
        <4> QED
          BY <4>1
      <3> QED
        BY <3>1
    <2>2. PICK H, z, N : H = G /\ z = <<>> /\ N = Len(s)
      OBVIOUS
    <2> HIDE DEF G
    <2>3. PICK f \in [0 .. N -> Seq(Byte)] : RunsTo(f, z, H, N)
      <3>1. N \in Nat /\ z \in Seq(Byte) /\ H \in [(1 .. N) \X Seq(Byte) -> Seq(Byte)]
        BY <1>0, <2>1, <2>2
      <3> QED
        BY <3>1, RecursionTo
    <2>4. \A n \in 0 .. Len(s) : f[n] = IF n = 0 THEN <<>> ELSE f[n - 1] \o s[n].key \o <<NUL>> \o PutLong(s[n].off)
      <3>1. ASSUME NEW n \in 0 .. Len(s), n # 0
            PROVE  f[n] = f[n - 1] \o s[n].key \o <<NUL>> \o PutLong(s[n].off)
        <4>1. n \in 1 .. Len(s) /\ n - 1 \in 0 .. Len(s)
          BY <1>0, <3>1
        <4>2. PICK w, e : w = f[n - 1] /\ e = s[n]
          OBVIOUS
        <4>3. w \in Seq(Byte) /\ e \in Entries
          BY <1>0, <2>2, <4>1, <4>2
        <4>4. f[n] = w \o Written(e)
          BY <2>1, <2>2, <2>3, <3>1, <4>1, <4>2, <4>3 DEF RunsTo
        <4>5. w \o Written(e) = w \o e.key \o <<NUL>> \o PutLong(e.off)
          BY <4>3, WrittenParts
        <4> QED
          BY <4>2, <4>4, <4>5
      <3> QED
        BY <2>2, <2>3, <3>1 DEF RunsTo
    <2>5. f = [n \in 0 .. Len(s) |-> IF n = 0 THEN <<>> ELSE f[n - 1] \o s[n].key \o <<NUL>> \o PutLong(s[n].off)]
      BY <2>2, <2>3, <2>4
    <2>6. f \in [0 .. Len(s) -> Seq(Byte)]
      BY <2>2, <2>3
    <2> QED
      BY <2>5, <2>6
  <1>2. PICK f : /\ f = [n \in 0 .. Len(s) |-> IF n = 0 THEN <<>> ELSE f[n - 1] \o s[n].key \o <<NUL>> \o PutLong(s[n].off)]
                 /\ Records(entries) = f[Len(s)]
    <2>1. (CHOOSE written : written = [n \in 0 .. Len(s) |-> IF n = 0 THEN <<>> ELSE written[n - 1] \o s[n].key \o <<NUL>> \o PutLong(s[n].off)])
          = CHOOSE g : g = [n \in 0 .. Len(s) |-> IF n = 0 THEN <<>> ELSE g[n - 1] \o s[n].key \o <<NUL>> \o PutLong(s[n].off)]
      OBVIOUS
    <2> QED
      BY <1>1, <2>1 DEF Records
  <1>3. f[0] = <<>> /\ <<>> \in Seq(Byte)
    BY <1>0, <1>2
  <1>4. ASSUME NEW n \in 0 .. Len(s) - 1, f[n] \in Seq(Byte)
        PROVE  f[n + 1] = f[n] \o Written(s[n + 1]) /\ f[n + 1] \in Seq(Byte)
    <2>1. n + 1 \in 1 .. Len(s) /\ n + 1 \in 0 .. Len(s) /\ n + 1 # 0 /\ n + 1 - 1 = n
      BY <1>0
    <2>2. PICK w, e : w = f[n] /\ e = s[n + 1]
      OBVIOUS
    <2>3. w \in Seq(Byte) /\ e \in Entries
      BY <1>0, <1>4, <2>1, <2>2
    <2>4. f[n + 1] = w \o e.key \o <<NUL>> \o PutLong(e.off)
      <3>1. PICK k : k = n + 1
        OBVIOUS
      <3>2. k \in 0 .. Len(s) /\ k # 0 /\ k - 1 = n
        BY <2>1, <3>1
      <3>3. f[k] = IF k = 0 THEN <<>> ELSE f[k - 1] \o s[k].key \o <<NUL>> \o PutLong(s[k].off)
        BY <1>2, <3>2, Zenon
      <3>4. f[k] = f[n] \o s[k].key \o <<NUL>> \o PutLong(s[k].off)
        BY <3>2, <3>3, Zenon
      <3> QED
        BY <2>2, <3>1, <3>4, Zenon
    <2>5. w \o Written(e) = w \o e.key \o <<NUL>> \o PutLong(e.off)
      BY <2>3, WrittenParts
    <2>6. w \o Written(e) \in Seq(Byte)
      BY <2>3, WrittenIs
    <2> QED
      BY <2>2, <2>4, <2>5, <2>6
  <1> DEFINE T == {n \in 0 .. Len(s) : f[n] \in Seq(Byte)}
  <1>5. 0 .. Len(s) \subseteq T
    <2>0. Len(s) \in Nat
      BY <1>0
    <2>1. 0 \in T
      <3>1. 0 \in 0 .. Len(s)
        BY <2>0
      <3>2. f[0] \in Seq(Byte)
        BY <1>3
      <3> QED
        BY <3>1, <3>2
    <2>2. ASSUME NEW n \in 0 .. Len(s) - 1, n \in T PROVE n + 1 \in T
      <3>1. n + 1 \in 0 .. Len(s)
        BY <2>0
      <3>2. f[n] \in Seq(Byte)
        BY <2>2
      <3>3. f[n + 1] \in Seq(Byte)
        BY <1>4, <3>2
      <3> QED
        BY <3>1, <3>3
    <2> HIDE DEF T
    <2> QED
      BY <1>0, <2>1, <2>2, InductionTo
  <1>6. \A n \in 0 .. Len(s) : f[n] \in Seq(Byte)
    BY <1>5
  <1>7. \A n \in 0 .. Len(s) - 1 : f[n + 1] = f[n] \o Written(s[n + 1])
    <2> SUFFICES ASSUME NEW n \in 0 .. Len(s) - 1 PROVE f[n + 1] = f[n] \o Written(s[n + 1])
      OBVIOUS
    <2>1. Len(s) \in Nat
      BY <1>0
    <2>2. n \in 0 .. Len(s)
      BY <2>1
    <2>3. f[n] \in Seq(Byte)
      BY <1>6, <2>2
    <2> QED
      BY <1>4, <2>3
  <1> QED
    BY <1>2, <1>3, <1>6, <1>7 DEF WritesUpTo

(* A file is made of bytes, and has a record. *)
LEMMA MmapBytes ==
  ASSUME NEW entries, IsList(entries), Adds(entries) # {}
  PROVE  /\ WriteMmap(entries).blks \in Seq(Byte)
         /\ WriteMmap(entries).count \in Nat \ {0}
  <1>1. PICK s, f : s = Sorted(Adds(entries)) /\ WritesUpTo(f, s, entries)
    BY RecordsAre
  <1>2. PICK r, n : r = Records(entries) /\ n = MmapSize(entries)
    OBVIOUS
  <1>3. IsList(Adds(entries)) /\ Sorts(s, Adds(entries))
    BY <1>1, AddsAre, SortedIs
  <1>4. r \in Seq(Byte)
    <2>1. Len(s) \in 0 .. Len(s)
      BY <1>3 DEF Sorts
    <2> QED
      BY <1>1, <1>2, <2>1 DEF WritesUpTo
  <1>5. Cardinality(Adds(entries)) \in Nat \ {0}
    <2>1. IsFiniteSet(Adds(entries))
      BY <1>3 DEF IsList
    <2> QED
      BY <2>1, FS_CardinalityType, FS_EmptySet
  <1>6. n \in Nat
    <2>1. MaxLen(entries) + LongSize \in Nat
      BY MaxLenIs, Sizes
    <2> QED
      BY <1>2, <1>5, <2>1 DEF MmapSize, Stride
  <1>7. FirstBytes(r, n) \in Seq(Byte)
    <2>1. \A i \in 1 .. n : (IF i <= Len(r) THEN r[i] ELSE NUL) \in Byte
      <3>1. Len(r) \in Nat /\ \A i \in 1 .. Len(r) : r[i] \in Byte
        BY <1>4
      <3> QED
        BY <3>1, StringBytes
    <2> QED
      BY <1>6, <2>1 DEF FirstBytes
  <1> QED
    BY <1>2, <1>5, <1>7 DEF WriteMmap

-----------------------------------------------------------------------------
(* A file of records of one length gives its entries back *)

(* t is in w behind the first m. *)
IsIn(t, w, m) == m + Len(t) <= Len(w) /\ \A i \in 1 .. Len(t) : w[m + i] = t[i]

(* The multiples of a number. *)
AreMultiples(mult, size) ==
  /\ mult = [k \in Nat |-> k * size] /\ mult[0] = 0
  /\ \A k \in Nat : mult[k] \in Nat /\ mult[k + 1] = mult[k] + size
  /\ \A j, k \in Nat : j < k => mult[j] + size <= mult[k]

LEMMA MultiplesAre ==
  ASSUME NEW size \in Nat
  PROVE  AreMultiples([k \in Nat |-> k * size], size)
  <1>1. PICK mult : mult = [k \in Nat |-> k * size]
    OBVIOUS
  <1>2. \A k \in Nat : k * size \in Nat /\ (k + 1) * size = k * size + size
    OBVIOUS
  <1>3. \A j, k \in Nat : j < k => j * size + size <= k * size
    <2> SUFFICES ASSUME NEW j \in Nat, NEW k \in Nat, j < k PROVE j * size + size <= k * size
      OBVIOUS
    <2>1. j + 1 <= k /\ (j + 1) * size = j * size + size
      OBVIOUS
    <2>2. \A x, y \in Nat : x <= y => x * size <= y * size
      OBVIOUS
    <2> QED
      BY <2>1, <2>2
  <1>4. 0 * size = 0
    OBVIOUS
  <1> QED
    BY <1>1, <1>2, <1>3, <1>4 DEF AreMultiples

(* What a sorted file of the entries of s looks like. *)
Shows(file, s) ==
  /\ file.count = Len(s)
  /\ \A i \in 0 .. Len(s) - 1 : KeyAt(file, i) = s[i + 1].key /\ OffAt(file, i) = s[i + 1].off

IsEven(entries) == IsList(entries) /\ Adds(entries) # {} /\ ~ IsUneven(entries)

(* In a file of records of one length no key is shorter than the longest. *)
LEMMA EvenLengths ==
  ASSUME NEW entries, IsEven(entries)
  PROVE  /\ MaxLen(entries) \in Nat \ {0}
         /\ \A e \in Adds(entries) : e \in Entries /\ Len(e.key) + 1 = MaxLen(entries)
  <1>1. IsList(entries) /\ Adds(entries) # {}
    BY DEF IsEven
  <1>2. \A x, y \in Adds(entries) : Len(x.key) = Len(y.key)
    BY DEF IsEven, IsUneven
  <1>3. MaxLen(entries) \in Nat \ {0} /\ \E e \in Adds(entries) : MaxLen(entries) = Len(e.key) + 1
    BY <1>1, MaxLenIs
  <1>4. \A e \in Adds(entries) : e \in Entries
    BY <1>1, AddsAre DEF IsList
  <1>5. PICK e \in Adds(entries) : MaxLen(entries) = Len(e.key) + 1
    BY <1>3
  <1>6. \A x \in Adds(entries) : Len(x.key) = Len(e.key)
    BY <1>2
  <1> QED
    BY <1>3, <1>4, <1>5, <1>6

(* Record n of such a file begins n - 1 strides from its front. *)
LEMMA EvenRecords ==
  ASSUME NEW entries, IsEven(entries), NEW s, s = Sorted(Adds(entries)),
         NEW size, size = Stride(MaxLen(entries)), NEW mult, AreMultiples(mult, size)
  PROVE  /\ size \in Nat /\ Records(entries) \in Seq(Byte) /\ Len(Records(entries)) = mult[Len(s)]
         /\ \A j \in 0 .. Len(s) - 1 : IsIn(Written(s[j + 1]), Records(entries), mult[j])
  <1>1. IsList(entries) /\ Adds(entries) # {} /\ IsList(Adds(entries)) /\ Sorts(s, Adds(entries))
    BY AddsAre, SortedIs DEF IsEven
  <1>2. PICK f : WritesUpTo(f, s, entries)
    BY <1>1, RecordsAre
  <1>3. Len(s) \in Nat /\ size \in Nat
    BY <1>1, EvenLengths, Sizes DEF Sorts, Stride
  <1>4. \A j \in 1 .. Len(s) : /\ Written(s[j]) \in Seq(Byte) /\ Len(Written(s[j])) = size
    <2> SUFFICES ASSUME NEW j \in 1 .. Len(s)
                 PROVE  Written(s[j]) \in Seq(Byte) /\ Len(Written(s[j])) = size
      OBVIOUS
    <2>1. PICK e : e = s[j]
      OBVIOUS
    <2>2. e \in Adds(entries)
      BY <1>1, <2>1 DEF Sorts
    <2>3. e \in Entries /\ Len(e.key) + 1 = MaxLen(entries)
      BY <2>2, EvenLengths
    <2>4. Written(e) \in Seq(Byte) /\ Len(Written(e)) = Len(e.key) + 1 + LongSize
      BY <2>3, WrittenIs
    <2> QED
      BY <2>1, <2>3, <2>4 DEF Stride
  <1> DEFINE T == {k \in 0 .. Len(s) : /\ Len(f[k]) = mult[k]
                                       /\ \A j \in 0 .. k - 1 : IsIn(Written(s[j + 1]), f[k], mult[j])}
  <1>5. 0 \in T
    <2>1. f[0] = <<>> /\ mult[0] = 0 /\ Len(<<>>) = 0
      BY <1>2 DEF WritesUpTo, AreMultiples
    <2>2. \A j \in 0 .. 0 - 1 : FALSE
      OBVIOUS
    <2>3. 0 \in 0 .. Len(s)
      BY <1>3
    <2> QED
      BY <2>1, <2>2, <2>3
  <1>6. ASSUME NEW k \in 0 .. Len(s) - 1, k \in T PROVE k + 1 \in T
    <2>1. PICK w, t, u : w = f[k] /\ t = Written(s[k + 1]) /\ u = f[k + 1]
      OBVIOUS
    <2>2. k + 1 \in 1 .. Len(s) /\ k + 1 \in 0 .. Len(s) /\ k \in 0 .. Len(s) /\ k \in Nat
      BY <1>3
    <2>3. w \in Seq(Byte) /\ t \in Seq(Byte) /\ Len(t) = size
      BY <1>2, <1>4, <2>1, <2>2 DEF WritesUpTo
    <2>4. u \in Seq(Byte) /\ IsJoin(u, w, t)
      <3>1. u = w \o t
        BY <1>2, <2>1 DEF WritesUpTo
      <3> QED
        BY <2>3, <3>1, ConcatIs
    <2>5. Len(w) = mult[k] /\ mult[k] \in Nat /\ mult[k + 1] = mult[k] + size
      BY <1>6, <2>1, <2>2 DEF AreMultiples
    <2>6. Len(u) = mult[k + 1]
      BY <2>3, <2>4, <2>5 DEF IsJoin
    <2>7. IsIn(t, u, mult[k])
      BY <1>3, <2>3, <2>4, <2>5 DEF IsIn, IsJoin
    <2>8. ASSUME NEW j \in 0 .. k - 1 PROVE IsIn(Written(s[j + 1]), u, mult[j])
      <3>1. PICK x, m : x = Written(s[j + 1]) /\ m = mult[j]
        OBVIOUS
      <3>2. IsIn(x, w, m)
        BY <1>6, <2>1, <3>1
      <3>3. m \in Nat /\ x \in Seq(Byte)
        <4>1. j \in Nat /\ j + 1 \in 1 .. Len(s)
          BY <1>3, <2>2
        <4> QED
          BY <1>4, <3>1, <4>1 DEF AreMultiples
      <3>4. Len(x) \in Nat /\ Len(w) \in Nat /\ Len(t) \in Nat
        BY <2>3, <3>3
      <3>5. m + Len(x) <= Len(u)
        BY <2>4, <3>2, <3>3, <3>4 DEF IsIn, IsJoin
      <3>6. ASSUME NEW i \in 1 .. Len(x) PROVE u[m + i] = x[i]
        <4>1. m + i \in 1 .. Len(w)
          BY <3>2, <3>3, <3>4 DEF IsIn
        <4> QED
          BY <2>4, <3>2, <4>1 DEF IsIn, IsJoin
      <3> QED
        BY <3>1, <3>5, <3>6 DEF IsIn
    <2>9. \A j \in 0 .. k + 1 - 1 : IsIn(Written(s[j + 1]), u, mult[j])
      <3>1. \A j \in 0 .. k + 1 - 1 : j = k \/ j \in 0 .. k - 1
        BY <2>2
      <3> QED
        BY <2>1, <2>7, <2>8, <3>1
    <2> QED
      BY <2>1, <2>2, <2>6, <2>9
  <1>7. Len(s) \in T
    <2>1. 0 .. Len(s) \subseteq T
      <3> HIDE DEF T
      <3> QED
        BY <1>3, <1>5, <1>6, InductionTo
    <2>2. Len(s) \in 0 .. Len(s)
      BY <1>3
    <2> QED
      BY <2>1, <2>2
  <1>8. Records(entries) = f[Len(s)] /\ f[Len(s)] \in Seq(Byte)
    <2>1. Len(s) \in 0 .. Len(s)
      BY <1>3
    <2> QED
      BY <1>2, <2>1 DEF WritesUpTo
  <1> QED
    BY <1>3, <1>7, <1>8

(* At each stride there are the key and the offset that were written. *)
LEMMA EvenFile ==
  ASSUME NEW entries, IsEven(entries), \A e \in Adds(entries) : ~ IsWide(e.off)
  PROVE  Shows(WriteMmap(entries), Sorted(Adds(entries))) /\ WriteMmap(entries).key \in Strings
  <1>1. PICK s, size, mult, r, file, top :
           /\ s = Sorted(Adds(entries)) /\ size = Stride(MaxLen(entries))
           /\ mult = [k \in Nat |-> k * size] /\ r = Records(entries)
           /\ file = WriteMmap(entries) /\ top = Last(Sorted(entries)).key
    OBVIOUS
  <1>2. IsList(entries) /\ Adds(entries) # {} /\ IsList(Adds(entries)) /\ Sorts(s, Adds(entries))
    BY <1>1, AddsAre, SortedIs DEF IsEven
  <1>3. size \in Nat /\ MaxLen(entries) \in Nat \ {0} /\ size = MaxLen(entries) + LongSize
    <2>1. MaxLen(entries) \in Nat \ {0}
      BY EvenLengths
    <2>2. size = MaxLen(entries) + LongSize
      BY <1>1 DEF Stride
    <2> QED
      BY <2>1, <2>2, Sizes
  <1>4. AreMultiples(mult, size)
    BY <1>1, <1>3, MultiplesAre
  <1>5. /\ r \in Seq(Byte) /\ Len(r) = mult[Len(s)]
        /\ \A j \in 0 .. Len(s) - 1 : IsIn(Written(s[j + 1]), r, mult[j])
    BY <1>1, <1>4, EvenRecords
  <1>6. Len(s) \in Nat /\ Len(s) = Cardinality(Adds(entries))
    BY <1>2 DEF Sorts
  <1>7. FirstBytes(r, MmapSize(entries)) = r
    <2>1. MmapSize(entries) = Len(r)
      <3>1. MmapSize(entries) = size * Len(s)
        BY <1>1, <1>6 DEF MmapSize
      <3>2. size * Len(s) = Len(s) * size
        BY <1>3, <1>6
      <3> QED
        BY <1>1, <1>5, <1>6, <3>1, <3>2
    <2>2. PICK b : b = FirstBytes(r, Len(r))
      OBVIOUS
    <2>3. b = [i \in 1 .. Len(r) |-> r[i]]
      BY <1>5, <2>2 DEF FirstBytes
    <2>4. b = r
      BY <1>5, <2>3
    <2> QED
      BY <2>1, <2>2, <2>4
  <1>8. file = [blks |-> r, count |-> Len(s), len |-> MaxLen(entries), key |-> top]
    BY <1>1, <1>6, <1>7 DEF WriteMmap
  <1>9. file.blks = r /\ file.count = Len(s) /\ file.len = MaxLen(entries) /\ file.key = top /\ Stride(file.len) = size
    BY <1>1, <1>8
  <1>10. top \in Strings
    <2>1. PICK t : t = Sorted(entries)
      OBVIOUS
    <2>2. Sorts(t, entries)
      BY <1>2, <2>1, SortedIs
    <2>3. PICK e \in entries : TRUE
      BY <1>2 DEF Adds
    <2>4. Len(t) \in 1 .. Len(t)
      <3>1. PICK i \in 1 .. Len(t) : t[i] = e
        BY <2>2 DEF Sorts
      <3> QED
        BY <2>2, <3>1 DEF Sorts
    <2>5. t[Len(t)] \in Entries
      BY <1>2, <2>2, <2>4 DEF Sorts, IsList
    <2>6. Last(t) = t[Len(t)]
      BY DEF Last
    <2>7. t[Len(t)].key \in Strings
      BY <2>5, EntriesAre
    <2> QED
      BY <1>1, <2>1, <2>6, <2>7
  <1>11. ASSUME NEW i \in 0 .. Len(s) - 1
         PROVE  KeyAt(file, i) = s[i + 1].key /\ OffAt(file, i) = s[i + 1].off
    <2>1. PICK e, m, w : e = s[i + 1] /\ m = mult[i] /\ w = Written(e)
      OBVIOUS
    <2>2. i \in Nat /\ i + 1 \in 1 .. Len(s) /\ m \in Nat /\ i * size = m /\ (i + 1) * size = m + size
      <3>1. i \in Nat /\ i + 1 \in 1 .. Len(s) /\ i + 1 \in Nat
        BY <1>6
      <3>2. mult[i + 1] = mult[i] + size /\ mult[i] \in Nat
        BY <1>4, <3>1 DEF AreMultiples
      <3>3. mult[i + 1] = (i + 1) * size /\ mult[i] = i * size
        BY <1>1, <3>1
      <3> QED
        BY <2>1, <3>1, <3>2, <3>3
    <2>3. e \in Adds(entries) /\ e \in Entries /\ Len(e.key) + 1 = MaxLen(entries)
      BY <1>2, <2>1, <2>2, EvenLengths DEF Sorts
    <2>4. e.key \in Strings /\ Len(e.key) \in Nat /\ e.off \in Nat /\ e.off < Power[LongSize]
      <3>1. e.key \in Strings /\ e.off \in Longs
        BY <2>3, EntriesAre
      <3>2. Power[LongSize] \in Nat
        BY PowerIs, Sizes
      <3>3. e.off \in Nat /\ e.off < Power[LongSize]
        BY <3>1, <3>2 DEF Longs
      <3> QED
        BY <3>1, <3>3, PadIs
    <2>5. IsIn(w, r, m)
      BY <1>5, <2>1
    <2>6. /\ Len(w) = size
          /\ \A q \in 1 .. Len(e.key) : w[q] = e.key[q]
          /\ w[Len(e.key) + 1] = NUL
          /\ \A q \in 1 .. LongSize : w[Len(e.key) + 1 + q] = PutLong(e.off)[q]
      BY <1>3, <2>1, <2>3, WrittenIs
    <2>7. LongSize \in Nat /\ LongSize > 0
      BY Sizes
    <2>8. size = Len(e.key) + 1 + LongSize /\ m + size <= Len(r) /\ Len(r) \in Nat
      BY <1>3, <1>5, <2>3, <2>5, <2>6 DEF IsIn
    <2>9. \A q \in 1 .. size : r[m + q] = w[q]
      BY <2>5, <2>6 DEF IsIn
    <2>10. StringAt(r \o top, m) = e.key
      <3>1. PICK x : x = r \o top
        OBVIOUS
      <3>2. x \in Seq(Byte) /\ IsJoin(x, r, top) /\ Len(top) \in Nat
        BY <1>5, <1>10, <3>1, ConcatIs, PadIs
      <3>3. m \in 0 .. Len(x) /\ m + Len(e.key) <= Len(x)
        BY <2>2, <2>4, <2>7, <2>8, <3>2, SMTT(30) DEF IsJoin
      <3>4. \A q \in 1 .. size : x[m + q] = w[q]
        <4>1. \A q \in 1 .. size : m + q \in 1 .. Len(r)
          BY <1>3, <2>2, <2>8
        <4> QED
          BY <2>9, <3>2, <4>1 DEF IsJoin
      <3>5. \A q \in 1 .. Len(e.key) : x[m + q] = e.key[q]
        <4>1. \A q \in 1 .. Len(e.key) : q \in 1 .. size
          BY <2>4, <2>7, <2>8
        <4> QED
          BY <2>6, <3>4, <4>1
      <3>6. x[m + Len(e.key) + 1] = NUL
        <4>1. Len(e.key) + 1 \in 1 .. size /\ m + Len(e.key) + 1 = m + (Len(e.key) + 1)
          BY <2>2, <2>4, <2>7, <2>8
        <4> QED
          BY <2>6, <3>4, <4>1
      <3>7. StringAt(x, m) = e.key
        BY <2>4, <3>2, <3>3, <3>5, <3>6, StringComesBack
      <3> QED
        BY <3>1, <3>7
    <2>11. LongFrom(SubSeq(r, m + file.len + 1, m + size)) = e.off
      <3>1. PICK a, b, x, p : /\ a = m + file.len + 1 /\ b = m + size
                              /\ x = SubSeq(r, a, b) /\ p = PutLong(e.off)
        OBVIOUS
      <3>2. a \in Nat \ {0} /\ b \in Nat /\ b <= Len(r) /\ a <= b + 1 /\ b - a + 1 = LongSize
        <4>1. PICK l, n : l = Len(e.key) /\ n = Len(r)
          OBVIOUS
        <4>2. l \in Nat /\ n \in Nat /\ m \in Nat /\ m + (l + 1 + LongSize) <= n /\ a = m + (l + 1) + 1 /\ b = m + (l + 1 + LongSize)
          BY <1>9, <2>2, <2>3, <2>4, <2>8, <3>1, <4>1
        <4> QED
          BY <2>7, <4>1, <4>2
      <3>3. x \in Seq(Byte) /\ Len(x) = LongSize /\ \A q \in 1 .. LongSize : x[q] = r[a + q - 1]
        <4>1. r \in Seq(Byte)
          BY <1>5
        <4>2. /\ x \in Seq(Byte) /\ Len(x) = b - a + 1
              /\ \A q \in 1 .. b - a + 1 : x[q] = r[a + q - 1]
          BY <3>1, <3>2, <4>1, SubSeqIs
        <4> QED
          BY <3>2, <4>2
      <3>4. p \in Seq(Byte) /\ Len(p) = LongSize
        BY <2>4, <2>7, <3>1, BigEndianBytes DEF PutLong
      <3>5. ASSUME NEW q \in 1 .. LongSize PROVE x[q] = p[q]
        <4>1. PICK z : z = Len(e.key) + 1 + q
          OBVIOUS
        <4>2. z \in 1 .. size /\ a + q - 1 = m + z
          <5>1. PICK l : l = Len(e.key)
            OBVIOUS
          <5>2. l \in Nat /\ m \in Nat /\ size = l + 1 + LongSize /\ z = l + 1 + q /\ a = m + (l + 1) + 1
            BY <1>9, <2>2, <2>3, <2>4, <2>8, <3>1, <4>1, <5>1
          <5> QED
            BY <2>7, <5>2
        <4>3. r[m + z] = w[z] /\ w[z] = p[q]
          BY <2>6, <2>9, <3>1, <4>1, <4>2
        <4> QED
          BY <3>3, <4>2, <4>3
      <3>6. x = p
        BY <3>3, <3>4, <3>5, SameSeq
      <3>7. LongFrom(p) = e.off
        BY <2>3, <2>4, <3>1, LongComesBack
      <3> QED
        BY <3>1, <3>6, <3>7
    <2>12. KeyAt(file, i) = e.key
      BY <1>9, <2>2, <2>10 DEF KeyAt
    <2>13. OffAt(file, i) = e.off
      BY <1>9, <2>2, <2>11 DEF OffAt
    <2> QED
      BY <2>1, <2>12, <2>13
  <1> QED
    BY <1>1, <1>9, <1>10, <1>11 DEF Shows

-----------------------------------------------------------------------------
(* Reading a file *)

AllAdds(entries) == \A e \in entries : e.opt = "ADD"

(* _read_mmap gives the entries back. *)
LEMMA ReadMmapIs ==
  ASSUME NEW entries, IsList(entries), AllAdds(entries), NEW s, Sorts(s, entries),
         NEW file, Shows(file, s)
  PROVE  ReadMmap(file) = entries
  <1> DEFINE First(n) == {s[i] : i \in 1 .. n}
             N == Len(s)
  <1>1. N \in Nat /\ file.count = N /\ \A i \in 1 .. N : s[i] \in entries
    BY DEF Sorts, Shows
  <1>2. \A i, j \in 1 .. N : i < j => s[i].key # s[j].key
    <2> SUFFICES ASSUME NEW i \in 1 .. N, NEW j \in 1 .. N, i < j, s[i].key = s[j].key PROVE FALSE
      OBVIOUS
    <2>1. Before(s[i].key, s[j].key)
      BY DEF Sorts
    <2>2. s[i].key \in Strings
      BY <1>1, EntriesAre DEF IsList
    <2> QED
      BY <2>1, <2>2, BeforeIrreflexive
  <1>3. ASSUME NEW n \in 1 .. N
        PROVE  Insert(First(n - 1), Entry(KeyAt(file, n - 1), OffAt(file, n - 1), "ADD")) = First(n)
    <2>1. PICK e : e = s[n]
      OBVIOUS
    <2>2. e \in entries /\ e \in Entries /\ e.opt = "ADD"
      BY <1>1, <2>1 DEF IsList, AllAdds
    <2>3. n - 1 \in 0 .. N - 1 /\ n - 1 + 1 = n
      BY <1>1
    <2>4. KeyAt(file, n - 1) = e.key /\ OffAt(file, n - 1) = e.off
      BY <2>1, <2>3 DEF Shows
    <2>5. Entry(KeyAt(file, n - 1), OffAt(file, n - 1), "ADD") = e
      BY <2>2, <2>4, EntriesAre
    <2>6. \A i \in 1 .. n - 1 : s[i].key # e.key
      <3>1. \A i \in 1 .. n - 1 : i \in 1 .. N /\ i < n
        BY <1>1
      <3> QED
        BY <1>2, <2>1, <3>1
    <2>7. First(n) = First(n - 1) \cup {e}
      <3>1. 1 .. n = (1 .. n - 1) \cup {n}
        BY <1>1
      <3> QED
        BY <2>1, <3>1
    <2>8. {x \in First(n - 1) : x.key # e.key} = First(n - 1)
      BY <2>6
    <2> QED
      BY <2>5, <2>7, <2>8 DEF Insert
  <1> HIDE DEF First
  <1>4. First(0) = {} /\ First(N) = entries
    <2>1. First(0) = {}
      BY DEF First
    <2>2. First(N) \subseteq entries
      BY <1>1 DEF First
    <2>3. entries \subseteq First(N)
      BY DEF First, Sorts
    <2> QED
      BY <2>1, <2>2, <2>3
  <1>5. PICK f : f = [n \in 0 .. N |-> First(n)]
    OBVIOUS
  <1>6. \A n \in 0 .. N : First(n) = IF n = 0 THEN {}
               ELSE Insert(f[n - 1], Entry(KeyAt(file, n - 1), OffAt(file, n - 1), "ADD"))
    <2>1. ASSUME NEW n \in 0 .. N, n # 0
          PROVE  First(n) = Insert(f[n - 1], Entry(KeyAt(file, n - 1), OffAt(file, n - 1), "ADD"))
      <3>1. n \in 1 .. N /\ n - 1 \in 0 .. N
        BY <1>1, <2>1
      <3>2. f[n - 1] = First(n - 1)
        BY <1>5, <3>1
      <3> QED
        BY <1>3, <3>1, <3>2
    <2> QED
      BY <1>4, <2>1
  <1>7. f = [n \in 0 .. file.count |-> IF n = 0 THEN {}
               ELSE Insert(f[n - 1], Entry(KeyAt(file, n - 1), OffAt(file, n - 1), "ADD"))]
    BY <1>1, <1>5, <1>6
  <1>8. PICK g : /\ g = [n \in 0 .. file.count |-> IF n = 0 THEN {}
                           ELSE Insert(g[n - 1], Entry(KeyAt(file, n - 1), OffAt(file, n - 1), "ADD"))]
                 /\ ReadMmap(file) = g[file.count]
    BY <1>7 DEF ReadMmap
  <1> DEFINE T == {n \in 0 .. N : g[n] = First(n)}
  <1>9. 0 \in T
    <2>1. 0 \in 0 .. N
      BY <1>1
    <2> QED
      BY <1>1, <1>4, <1>8, <2>1
  <1>10. ASSUME NEW n \in 0 .. N - 1, n \in T PROVE n + 1 \in T
    <2>1. PICK m : m = n + 1
      OBVIOUS
    <2>2. m \in 1 .. N /\ m \in 0 .. N /\ m # 0 /\ m - 1 = n
      BY <1>1, <2>1
    <2>3. g[m] = Insert(g[m - 1], Entry(KeyAt(file, m - 1), OffAt(file, m - 1), "ADD"))
      BY <1>1, <1>8, <2>2
    <2>4. g[m - 1] = First(m - 1)
      BY <1>10, <2>2
    <2>5. g[m] = First(m)
      BY <1>3, <2>2, <2>3, <2>4
    <2> QED
      BY <2>1, <2>2, <2>5
  <1>11. 0 .. N \subseteq T
    <2> HIDE DEF T, N
    <2> QED
      BY <1>1, <1>9, <1>10, InductionTo
  <1>12. N \in T
    <2>1. N \in 0 .. N
      BY <1>1
    <2> QED
      BY <1>11, <2>1
  <1> QED
    BY <1>1, <1>4, <1>8, <1>12

OffOf(entries, key) ==
  IF \E e \in entries : e.key = key THEN (CHOOSE e \in entries : e.key = key).off ELSE 0

LEMMA OffOfIs ==
  ASSUME NEW entries, IsList(entries), NEW e \in entries
  PROVE  OffOf(entries, e.key) = e.off
  <1>1. PICK x : x = CHOOSE g \in entries : g.key = e.key
    OBVIOUS
  <1>2. x \in entries /\ x.key = e.key
    BY <1>1
  <1>3. x = e
    BY <1>2 DEF IsList
  <1> QED
    BY <1>1, <1>3 DEF OffOf

(* One turn of _read_offset's loop. *)
Ranges(N) == [left : 0 .. N, right : 0 .. N]
Middle(r) == (r.right - r.left) \div 2 + r.left
FindTurn(f, file, key, r) ==
  IF r.left >= r.right THEN 0
  ELSE IF key = KeyAt(file, Middle(r)) THEN OffAt(file, Middle(r))
  ELSE IF Before(key, KeyAt(file, Middle(r))) THEN f[[r EXCEPT !.right = Middle(r)]]
  ELSE f[[r EXCEPT !.left = Middle(r) + 1]]

(* Both ways to go on: nearer to the end. *)
LEMMA RangesShrink ==
  ASSUME NEW N \in Nat, NEW r \in Ranges(N), r.left < r.right
  PROVE  /\ Middle(r) \in r.left .. r.right - 1 /\ Middle(r) \in 0 .. N - 1
         /\ [r EXCEPT !.right = Middle(r)] = [left |-> r.left, right |-> Middle(r)]
         /\ [r EXCEPT !.left = Middle(r) + 1] = [left |-> Middle(r) + 1, right |-> r.right]
         /\ [left |-> r.left, right |-> Middle(r)] \in Ranges(N)
         /\ [left |-> Middle(r) + 1, right |-> r.right] \in Ranges(N)
  <1>1. PICK x, y, i : x = r.left /\ y = r.right /\ i = Middle(r)
    OBVIOUS
  <1>2. x \in 0 .. N /\ y \in 0 .. N /\ x < y /\ r = [left |-> x, right |-> y]
    BY <1>1 DEF Ranges
  <1>3. i = (y - x) \div 2 + x
    BY <1>1 DEF Middle
  <1>4. i \in x .. y - 1 /\ i \in 0 .. N - 1 /\ i \in 0 .. N /\ i + 1 \in 0 .. N
    BY <1>2, <1>3
  <1> QED
    BY <1>1, <1>2, <1>4 DEF Ranges

(* _read_offset's loop comes to its end: ReadOffset is where it gets. *)
LEMMA FindEnds ==
  ASSUME NEW file, NEW key, file.count \in Nat
  PROVE  \E f : /\ f = [r \in Ranges(file.count) |-> FindTurn(f, file, key, r)]
                /\ ReadOffset(file, key) = f[[left |-> 0, right |-> file.count]]
  <1> DEFINE N == file.count
             Z == Ranges(N)
             far == [r \in Z |-> IF r.left < r.right THEN r.right - r.left ELSE 0]
             ends == [r \in Z |-> r.left >= r.right \/ key = KeyAt(file, Middle(r))]
             next == [r \in Z |-> IF Before(key, KeyAt(file, Middle(r)))
                                  THEN [r EXCEPT !.right = Middle(r)] ELSE [r EXCEPT !.left = Middle(r) + 1]]
             out == [r \in Z |-> IF r.left >= r.right THEN 0 ELSE OffAt(file, Middle(r))]
  <1>1. far \in [Z -> Nat]
    BY DEF Ranges
  <1>2. ASSUME NEW r \in Z, ~ ends[r] PROVE next[r] \in Z /\ far[next[r]] < far[r]
    <2>1. PICK x, y, i : x = r.left /\ y = r.right /\ i = Middle(r)
      OBVIOUS
    <2>2. x \in 0 .. N /\ y \in 0 .. N /\ x < y
      <3>1. r.left \in 0 .. N /\ r.right \in 0 .. N
        BY DEF Ranges
      <3>2. ~ r.left >= r.right
        BY <1>2
      <3> QED
        BY <2>1, <3>1, <3>2
    <2>3. PICK a, b : a = [left |-> x, right |-> i] /\ b = [left |-> i + 1, right |-> y]
      OBVIOUS
    <2>4. i \in x .. y - 1 /\ a \in Z /\ b \in Z /\ next[r] \in {a, b}
      BY <2>1, <2>2, <2>3, RangesShrink
    <2>5. far[r] = y - x
      BY <2>1, <2>2
    <2>6. far[a] < y - x
      <3>1. far[a] = IF x < i THEN i - x ELSE 0
        BY <2>3, <2>4
      <3> QED
        BY <2>2, <2>4, <3>1
    <2>7. far[b] < y - x
      <3>1. far[b] = IF i + 1 < y THEN y - (i + 1) ELSE 0
        BY <2>3, <2>4
      <3> QED
        BY <2>2, <2>4, <3>1
    <2> QED
      BY <2>4, <2>5, <2>6, <2>7
  <1>3. PICK f : f = [r \in Z |-> IF ends[r] THEN out[r] ELSE f[next[r]]]
    <2>1. PICK Y, a, b, c, d : Y = Z /\ a = far /\ b = ends /\ c = next /\ d = out
      OBVIOUS
    <2> HIDE DEF Z, far, ends, next, out
    <2>2. \A r \in Y : ~ b[r] => c[r] \in Y /\ a[c[r]] < a[r]
      BY <1>2, <2>1
    <2>3. a \in [Y -> Nat]
      BY <1>1, <2>1
    <2>4. \E f : Loops(f, Y, b, d, c)
      BY <2>2, <2>3, LoopEnds
    <2> QED
      BY <2>1, <2>4 DEF Loops
  <1>4. ASSUME NEW r \in Z PROVE f[r] = FindTurn(f, file, key, r)
    <2>1. f[r] = IF ends[r] THEN out[r] ELSE f[next[r]]
      <3> HIDE DEF Z, ends, next, out
      <3> QED
        BY <1>3
    <2>2. CASE r.left >= r.right
      BY <2>1, <2>2 DEF FindTurn
    <2>3. CASE ~ r.left >= r.right /\ key = KeyAt(file, Middle(r))
      BY <2>1, <2>3 DEF FindTurn
    <2>4. CASE ~ r.left >= r.right /\ key # KeyAt(file, Middle(r))
      BY <2>1, <2>4 DEF FindTurn
    <2> QED
      BY <2>2, <2>3, <2>4
  <1>5. f = [r \in Z |-> FindTurn(f, file, key, r)]
    <2>1. f = [r \in Z |-> f[r]]
      <3> HIDE DEF Z, ends, next, out
      <3> QED
        BY <1>3
    <2> QED
      BY <1>4, <2>1
  <1>6. PICK g : /\ g = [r \in Z |-> FindTurn(g, file, key, r)]
                 /\ ReadOffset(file, key) = g[[left |-> 0, right |-> N]]
    BY <1>5 DEF ReadOffset, FindTurn, Middle, Ranges
  <1> QED
    BY <1>6

(* _read_offset finds the offset of a key the file has, and 0 for others. *)
LEMMA ReadOffsetIs ==
  ASSUME NEW entries, IsList(entries), NEW s, Sorts(s, entries),
         NEW file, Shows(file, s), NEW key \in Strings
  PROVE  ReadOffset(file, key) = OffOf(entries, key)
  <1>1. PICK N : N = Len(s)
    OBVIOUS
  <1>2. N \in Nat /\ file.count = N /\ \A i \in 1 .. N : s[i] \in entries /\ s[i].key \in Strings
    <2>1. N \in Nat /\ file.count = N /\ \A i \in 1 .. N : s[i] \in entries
      BY <1>1 DEF Sorts, Shows
    <2> QED
      BY <2>1, EntriesAre DEF IsList
  <1>3. PICK f : /\ f = [r \in Ranges(N) |-> FindTurn(f, file, key, r)]
                 /\ ReadOffset(file, key) = f[[left |-> 0, right |-> N]]
    BY <1>2, FindEnds
  <1> DEFINE Within(r) == \A i \in 1 .. N : s[i].key = key => r.left < i /\ i <= r.right
             Right(k) == \A r \in Ranges(N) : r.right - r.left <= k /\ Within(r) => f[r] = OffOf(entries, key)
  <1>4. ASSUME NEW r \in Ranges(N), r.left >= r.right, Within(r) PROVE f[r] = OffOf(entries, key)
    <2>1. r.left \in Nat /\ r.right \in Nat
      BY DEF Ranges
    <2>2. \A i \in 1 .. N : s[i].key # key
      BY <1>4, <2>1
    <2>3. \A e \in entries : e.key # key
      BY <1>1, <2>2 DEF Sorts
    <2>4. f[r] = 0
      BY <1>3, <1>4 DEF FindTurn
    <2> QED
      BY <2>3, <2>4 DEF OffOf
  <1>5. ASSUME NEW k \in Nat, Right(k), NEW r \in Ranges(N), r.right - r.left <= k + 1, Within(r), r.left < r.right
        PROVE  f[r] = OffOf(entries, key)
    <2>1. PICK x, y, i, e, a, b : /\ x = r.left /\ y = r.right /\ i = Middle(r) /\ e = s[i + 1]
                                  /\ a = [left |-> x, right |-> i] /\ b = [left |-> i + 1, right |-> y]
      OBVIOUS
    <2>2. /\ i \in x .. y - 1 /\ i \in 0 .. N - 1 /\ a \in Ranges(N) /\ b \in Ranges(N)
          /\ [r EXCEPT !.right = i] = a /\ [r EXCEPT !.left = i + 1] = b
      BY <1>2, <1>5, <2>1, RangesShrink
    <2>3. x \in Nat /\ y \in Nat /\ x < y /\ y - x <= k + 1 /\ i \in Nat /\ i + 1 \in 1 .. N
      BY <1>2, <1>5, <2>1, <2>2 DEF Ranges
    <2>4. e \in entries /\ e.key \in Strings /\ KeyAt(file, i) = e.key /\ OffAt(file, i) = e.off
      BY <1>1, <1>2, <2>1, <2>2, <2>3 DEF Shows
    <2>5. f[r] = FindTurn(f, file, key, r)
      BY <1>3
    <2>6. CASE key = e.key
      <3>1. f[r] = e.off
        BY <1>5, <2>1, <2>3, <2>4, <2>5, <2>6 DEF FindTurn
      <3> QED
        BY <2>4, <2>6, <3>1, OffOfIs
    <2>7. CASE key # e.key /\ Before(key, e.key)
      <3>1. f[r] = f[a]
        BY <1>5, <2>1, <2>2, <2>3, <2>4, <2>5, <2>7 DEF FindTurn
      <3>2. ASSUME NEW j \in 1 .. N, s[j].key = key PROVE x < j /\ j <= i
        <4>1. x < j /\ j <= y
          BY <1>5, <2>1, <3>2
        <4>2. ~ i + 1 < j
          <5> SUFFICES ASSUME i + 1 < j PROVE FALSE
            OBVIOUS
          <5>1. Before(e.key, key)
            BY <1>1, <2>1, <2>3, <3>2 DEF Sorts
          <5>2. Before(key, key)
            BY <2>4, <2>7, <5>1, BeforeTransitive
          <5> QED
            BY <5>2, BeforeIrreflexive
        <4>3. j # i + 1
          BY <2>1, <2>7, <3>2
        <4> QED
          BY <2>3, <4>1, <4>2, <4>3
      <3>3. Within(a) /\ a.right - a.left <= k
        BY <2>1, <2>2, <2>3, <3>2
      <3> QED
        BY <1>5, <2>2, <3>1, <3>3
    <2>8. CASE key # e.key /\ ~ Before(key, e.key)
      <3>1. f[r] = f[b]
        BY <1>5, <2>1, <2>2, <2>3, <2>4, <2>5, <2>8 DEF FindTurn
      <3>2. Before(e.key, key)
        BY <2>4, <2>8, BeforeTotal
      <3>3. ASSUME NEW j \in 1 .. N, s[j].key = key PROVE i + 1 < j /\ j <= y
        <4>1. x < j /\ j <= y
          BY <1>5, <2>1, <3>3
        <4>2. ~ j < i + 1
          <5> SUFFICES ASSUME j < i + 1 PROVE FALSE
            OBVIOUS
          <5>1. Before(key, e.key)
            BY <1>1, <2>1, <2>3, <3>3 DEF Sorts
          <5> QED
            BY <2>8, <5>1
        <4>3. j # i + 1
          BY <2>1, <2>8, <3>3
        <4> QED
          BY <2>3, <4>1, <4>2, <4>3
      <3>4. Within(b) /\ b.right - b.left <= k
        BY <2>1, <2>2, <2>3, <3>3
      <3> QED
        BY <1>5, <2>2, <3>1, <3>4
    <2> QED
      BY <2>6, <2>7, <2>8
  <1> DEFINE T == {k \in Nat : Right(k)}
  <1>6. \A r \in Ranges(N) : r.left \in Nat /\ r.right \in Nat
    BY DEF Ranges
  <1>7. 0 \in T
    <2>1. \A r \in Ranges(N) : r.right - r.left <= 0 => r.left >= r.right
      BY <1>6
    <2> HIDE DEF Within
    <2> QED
      BY <1>4, <2>1
  <1>8. ASSUME NEW k \in Nat, k \in T PROVE k + 1 \in T
    <2>1. \A r \in Ranges(N) : r.left >= r.right \/ r.left < r.right
      BY <1>6
    <2>2. Right(k)
      BY <1>8
    <2>3. \A r \in Ranges(N) : r.right - r.left <= k + 1 /\ Within(r) => f[r] = OffOf(entries, key)
      <3> HIDE DEF Within, Right
      <3> QED
        BY <1>4, <1>5, <2>1, <2>2
    <2> HIDE DEF Within
    <2> QED
      BY <2>3
  <1>9. Nat \subseteq T
    <2> HIDE DEF T
    <2> QED
      BY <1>7, <1>8, Induction
  <1>10. PICK r : r = [left |-> 0, right |-> N]
    OBVIOUS
  <1>11. r \in Ranges(N) /\ r.right - r.left <= N /\ Within(r)
    BY <1>2, <1>10 DEF Ranges
  <1>12. Right(N)
    <2> HIDE DEF Right
    <2> QED
      BY <1>2, <1>9
  <1> QED
    BY <1>3, <1>10, <1>11, <1>12

-----------------------------------------------------------------------------
(* The sorted files *)

Mmaps == [blks : Seq(Byte), count : Nat \ {0}, len : Nat, key : Strings]

(* A file's key is the greatest of those that were to be written to it. *)
LEMMA WrittenMmap ==
  ASSUME NEW entries, IsList(entries), Adds(entries) # {}
  PROVE  /\ WriteMmap(entries) \in Mmaps
         /\ \E e \in entries : e.key = WriteMmap(entries).key
         /\ \A e \in entries : ~ Before(WriteMmap(entries).key, e.key)
  <1>1. PICK t, file : t = Sorted(entries) /\ file = WriteMmap(entries)
    OBVIOUS
  <1>2. Sorts(t, entries) /\ \A e \in entries : e.key \in Strings
    BY <1>1, SortedIs, EntriesAre DEF IsList
  <1>3. Len(t) \in 1 .. Len(t) /\ t[Len(t)] \in entries
    <2>1. PICK e \in entries : TRUE
      BY AddsAre
    <2>2. PICK i \in 1 .. Len(t) : t[i] = e
      BY <1>2 DEF Sorts
    <2> QED
      BY <1>2, <2>2 DEF Sorts
  <1>4. file.key = t[Len(t)].key
    BY <1>1 DEF WriteMmap, Last
  <1>5. ASSUME NEW e \in entries PROVE ~ Before(file.key, e.key)
    <2> SUFFICES ASSUME Before(file.key, e.key) PROVE FALSE
      OBVIOUS
    <2>1. PICK i \in 1 .. Len(t) : t[i] = e
      BY <1>2 DEF Sorts
    <2>2. e.key \in Strings /\ file.key \in Strings
      BY <1>2, <1>3, <1>4
    <2>3. CASE i = Len(t)
      BY <1>4, <2>1, <2>2, <2>3, BeforeIrreflexive
    <2>4. CASE i # Len(t)
      <3>1. i < Len(t)
        BY <1>3, <2>4
      <3>2. Before(e.key, file.key)
        BY <1>2, <1>3, <1>4, <2>1, <3>1 DEF Sorts
      <3>3. Before(e.key, e.key)
        BY <2>2, <3>2, BeforeTransitive
      <3> QED
        BY <2>2, <3>3, BeforeIrreflexive
    <2> QED
      BY <2>3, <2>4
  <1>6. file.blks \in Seq(Byte) /\ file.count \in Nat \ {0}
    BY <1>1, MmapBytes
  <1>7. file = [blks |-> file.blks, count |-> file.count, len |-> file.len, key |-> file.key] /\ file.len \in Nat
    BY <1>1, MaxLenIs DEF WriteMmap
  <1>8. file \in Mmaps
    <2>1. file.key \in Strings
      BY <1>2, <1>3, <1>4
    <2> QED
      BY <1>6, <1>7, <2>1 DEF Mmaps
  <1> QED
    BY <1>1, <1>3, <1>4, <1>5, <1>8

GoodFile(file) ==
  /\ file.blks \in Seq(Byte) /\ file.count \in Nat \ {0} /\ file.key \in Strings
  /\ IsList(ReadMmap(file)) /\ ReadMmap(file) # {} /\ AllAdds(ReadMmap(file))
  /\ \A key \in Strings : ReadOffset(file, key) = OffOf(ReadMmap(file), key)
  /\ \A e \in ReadMmap(file) : ~ Before(file.key, e.key)

(* A file that is written of records of one length is read as it was meant. *)
LEMMA WriteMmapIs ==
  ASSUME NEW entries, IsEven(entries), \A e \in Adds(entries) : ~ IsWide(e.off)
  PROVE  GoodFile(WriteMmap(entries)) /\ ReadMmap(WriteMmap(entries)) = Adds(entries)
  <1>1. PICK s, file, a : s = Sorted(Adds(entries)) /\ file = WriteMmap(entries) /\ a = Adds(entries)
    OBVIOUS
  <1>2. IsList(entries) /\ a # {} /\ IsList(a) /\ a \subseteq entries /\ Sorts(s, a)
    BY <1>1, AddsAre, SortedIs DEF IsEven
  <1>3. Shows(file, s) /\ file.key \in Strings
    BY <1>1, EvenFile
  <1>4. file.blks \in Seq(Byte) /\ file.count \in Nat \ {0}
    BY <1>1, <1>2, MmapBytes
  <1>5. AllAdds(a)
    BY <1>1 DEF AllAdds, Adds
  <1>6. ReadMmap(file) = a
    BY <1>2, <1>3, <1>5, ReadMmapIs
  <1>7. \A key \in Strings : ReadOffset(file, key) = OffOf(a, key)
    BY <1>2, <1>3, ReadOffsetIs
  <1>8. \A e \in a : ~ Before(file.key, e.key)
    BY <1>1, <1>2, WrittenMmap
  <1> QED
    BY <1>1, <1>2, <1>3, <1>4, <1>5, <1>6, <1>7, <1>8 DEF GoodFile

-----------------------------------------------------------------------------
(* Bytes within bytes *)

LEMMA PieceIs ==
  ASSUME NEW w \in Seq(Byte), NEW t \in Seq(Byte), NEW m \in Nat, IsIn(t, w, m)
  PROVE  SubSeq(w, m + 1, m + Len(t)) = t /\ Take(Drop(w, m), Len(t)) = t
  <1>1. Len(t) \in Nat /\ Len(w) \in Nat /\ m + Len(t) <= Len(w)
    BY DEF IsIn
  <1>2. SubSeq(w, m + 1, m + Len(t)) = t
    <2>1. PICK a, b, x : a = m + 1 /\ b = m + Len(t) /\ x = SubSeq(w, a, b)
      OBVIOUS
    <2>2. a \in Nat \ {0} /\ b \in Nat /\ b <= Len(w) /\ a <= b + 1 /\ b - a + 1 = Len(t)
      BY <1>1, <2>1
    <2>3. x \in Seq(Byte) /\ Len(x) = Len(t) /\ \A i \in 1 .. Len(t) : x[i] = w[a + i - 1]
      BY <2>1, <2>2, SubSeqIs
    <2>4. \A i \in 1 .. Len(t) : a + i - 1 = m + i
      BY <2>1
    <2>5. \A i \in 1 .. Len(x) : x[i] = t[i]
      BY <2>3, <2>4 DEF IsIn
    <2>6. x = t
      BY <2>3, <2>5, SameSeq
    <2> QED
      BY <2>1, <2>6
  <1>3. Take(Drop(w, m), Len(t)) = t
    <2>1. PICK u, x : u = Drop(w, m) /\ x = Take(u, Len(t))
      OBVIOUS
    <2>2. u \in Seq(Byte) /\ IsPiece(u, w, m, Len(w) - m)
      <3>1. m \in 0 .. Len(w)
        BY <1>1
      <3> QED
        BY <2>1, <3>1, DropIs
    <2>3. x \in Seq(Byte) /\ IsPiece(x, u, 0, Len(t))
      <3>1. Len(t) \in 0 .. Len(u)
        BY <1>1, <2>2 DEF IsPiece
      <3> QED
        BY <2>1, <2>2, <3>1, TakeIs
    <2>4. \A i \in 1 .. Len(t) : i \in 1 .. Len(w) - m
      BY <1>1
    <2>5. Len(x) = Len(t) /\ \A i \in 1 .. Len(x) : x[i] = t[i]
      BY <2>2, <2>3, <2>4 DEF IsPiece, IsIn
    <2>6. x = t
      BY <2>3, <2>5, SameSeq
    <2> QED
      BY <2>1, <2>6
  <1> QED
    BY <1>2, <1>3

LEMMA PieceIsIn ==
  ASSUME NEW w \in Seq(Byte), NEW m \in Nat, NEW n \in Nat, m + n <= Len(w)
  PROVE  /\ SubSeq(w, m + 1, m + n) = Take(Drop(w, m), n)
         /\ SubSeq(w, m + 1, m + n) \in Seq(Byte) /\ Len(SubSeq(w, m + 1, m + n)) = n
         /\ IsIn(SubSeq(w, m + 1, m + n), w, m)
  <1>1. PICK a, b, x : a = m + 1 /\ b = m + n /\ x = SubSeq(w, a, b)
    OBVIOUS
  <1>2. a \in Nat \ {0} /\ b \in Nat /\ b <= Len(w) /\ a <= b + 1 /\ b - a + 1 = n
    BY <1>1
  <1>3. x \in Seq(Byte) /\ Len(x) = n /\ \A i \in 1 .. n : x[i] = w[a + i - 1]
    BY <1>1, <1>2, SubSeqIs
  <1>4. \A i \in 1 .. n : a + i - 1 = m + i
    BY <1>1
  <1>5. IsIn(x, w, m)
    BY <1>3, <1>4 DEF IsIn
  <1>6. Take(Drop(w, m), Len(x)) = x
    BY <1>3, <1>5, PieceIs
  <1> QED
    BY <1>1, <1>3, <1>5, <1>6

LEMMA IsInConcat ==
  ASSUME NEW w \in Seq(Byte), NEW u \in Seq(Byte), NEW t \in Seq(Byte), NEW m \in Nat
  PROVE  /\ IsIn(t, w, m) => IsIn(t, w \o u, m)
         /\ IsIn(t, u, m) => IsIn(t, w \o u, Len(w) + m)
  <1>1. PICK x : x = w \o u
    OBVIOUS
  <1>2. IsJoin(x, w, u) /\ Len(w) \in Nat /\ Len(u) \in Nat /\ Len(t) \in Nat
    BY <1>1, ConcatIs
  <1>3. ASSUME IsIn(t, w, m) PROVE IsIn(t, x, m)
    <2>1. m + Len(t) <= Len(w) /\ m + Len(t) <= Len(x)
      BY <1>2, <1>3 DEF IsIn, IsJoin
    <2>2. \A i \in 1 .. Len(t) : m + i \in 1 .. Len(w)
      BY <1>2, <2>1
    <2> QED
      BY <1>2, <1>3, <2>1, <2>2 DEF IsIn, IsJoin
  <1>4. ASSUME IsIn(t, u, m) PROVE IsIn(t, x, Len(w) + m)
    <2>1. Len(w) + m + Len(t) <= Len(x)
      BY <1>2, <1>4 DEF IsIn, IsJoin
    <2>2. ASSUME NEW i \in 1 .. Len(t) PROVE x[Len(w) + m + i] = t[i]
      <3>1. m + i \in 1 .. Len(u) /\ Len(w) + m + i = Len(w) + (m + i)
        BY <1>2, <1>4 DEF IsIn
      <3>2. x[Len(w) + (m + i)] = u[m + i] /\ u[m + i] = t[i]
        BY <1>2, <1>4, <3>1 DEF IsIn, IsJoin
      <3> QED
        BY <3>1, <3>2
    <2> QED
      BY <2>1, <2>2 DEF IsIn
  <1> QED
    BY <1>1, <1>3, <1>4

-----------------------------------------------------------------------------
(* The log *)

LEMMA DiskSizes == Base > 2 /\ A \in Byte /\ D \in Byte /\ A # D /\ IntSize \in Nat /\ LongSize \in Nat
  BY DiskAssumption, Sizes DEF A, D, Byte

(* The record behind the first n bytes of s ends with byte number end: the *)
(* bytes of the key's length, of the key and of the offset.                *)
Parts(s, n, i, q, l, end) ==
  /\ i \in Seq(Byte) /\ q \in Seq(Byte) /\ l \in Seq(Byte)
  /\ Len(i) = IntSize /\ Len(q) = Number(i) /\ Len(l) = LongSize
  /\ IsIn(i, s, n) /\ IsIn(q, s, n + IntSize) /\ IsIn(l, s, n + IntSize + Len(q))
  /\ end = n + IntSize + Len(q) + LongSize + 1 /\ end <= Len(s)

EntryOf(q, l, opt) == Entry(StringAt(q, 0), LongFrom(l), IF opt = A THEN "ADD" ELSE "DEL")

LEMMA PartsGive ==
  ASSUME NEW s \in Seq(Byte), NEW n \in Nat, NEW i, NEW q, NEW l, NEW end, Parts(s, n, i, q, l, end)
  PROVE  /\ IsWhole(s, n) /\ n + RecordSize(s, n) = end /\ end \in Nat /\ end > n /\ end <= Len(s)
         /\ RecordAt(s, n) = EntryOf(q, l, s[end]) /\ RecordAt(s, n) \in Entries
  <1>1. /\ i \in Seq(Byte) /\ q \in Seq(Byte) /\ l \in Seq(Byte) /\ Len(q) \in Nat
        /\ Len(i) = IntSize /\ Len(q) = Number(i) /\ Len(l) = LongSize
        /\ end = n + IntSize + Len(q) + LongSize + 1 /\ end <= Len(s) /\ Len(s) \in Nat
    BY DEF Parts
  <1>2. IsIn(i, s, n) /\ IsIn(q, s, n + IntSize) /\ IsIn(l, s, n + IntSize + Len(q))
    BY DEF Parts
  <1>3. Take(Drop(s, n), IntSize) = i
    BY <1>1, <1>2, PieceIs
  <1>4. IntFrom(Drop(s, n)) = Len(q)
    BY <1>1, <1>3 DEF IntFrom
  <1>5. RecordSize(s, n) = IntSize + Len(q) + LongSize + 1
    BY <1>4 DEF RecordSize
  <1>6. n + RecordSize(s, n) = end /\ end \in Nat /\ end > n /\ n + IntSize <= Len(s)
    BY <1>1, <1>5, DiskSizes
  <1>7. IsWhole(s, n)
    BY <1>1, <1>6 DEF IsWhole
  <1>8. Take(Drop(s, n + IntSize), Len(q)) = q
    <2>1. n + IntSize \in Nat
      BY DiskSizes
    <2> QED
      BY <1>1, <1>2, <2>1, PieceIs
  <1>9. SubSeq(s, end - LongSize, end - 1) = l
    <2>1. PICK m : m = n + IntSize + Len(q)
      OBVIOUS
    <2>2. m \in Nat /\ end - LongSize = m + 1 /\ end - 1 = m + Len(l)
      BY <1>1, <2>1, DiskSizes
    <2>3. SubSeq(s, m + 1, m + Len(l)) = l
      BY <1>1, <1>2, <2>1, <2>2, PieceIs
    <2> QED
      BY <2>2, <2>3
  <1>10. RecordAt(s, n) = EntryOf(q, l, s[end])
    BY <1>4, <1>6, <1>8, <1>9 DEF RecordAt, EntryOf
  <1>11. EntryOf(q, l, s[end]) \in Entries
    <2>1. StringAt(q, 0) \in Strings
      <3>1. 0 \in 0 .. Len(q)
        BY <1>1
      <3> QED
        BY <1>1, <3>1, StringAtIs
    <2>2. LongFrom(l) \in 0 .. Power[LongSize] - 1
      BY <1>1, LongRange DEF Longs
    <2> QED
      BY <2>1, <2>2 DEF EntryOf, Entry, Entries
  <1> QED
    BY <1>1, <1>6, <1>7, <1>10, <1>11

LEMMA PartsOf ==
  ASSUME NEW s \in Seq(Byte), NEW n \in Nat, IsWhole(s, n)
  PROVE  \E i, q, l, end : Parts(s, n, i, q, l, end)
  <1>1. PICK i, k, q, l, m, end :
          /\ i = SubSeq(s, n + 1, n + IntSize) /\ k = IntFrom(Drop(s, n))
          /\ q = SubSeq(s, n + IntSize + 1, n + IntSize + k)
          /\ m = n + IntSize + k /\ l = SubSeq(s, m + 1, m + LongSize)
          /\ end = n + IntSize + k + LongSize + 1
    OBVIOUS
  <1>2. Len(s) \in Nat /\ n + IntSize <= Len(s) /\ IntSize \in Nat /\ LongSize \in Nat
    BY DiskSizes DEF IsWhole
  <1>3. i \in Seq(Byte) /\ Len(i) = IntSize /\ IsIn(i, s, n) /\ i = Take(Drop(s, n), IntSize)
    BY <1>1, <1>2, PieceIsIn
  <1>4. k = Number(i) /\ k \in Nat
    BY <1>1, <1>3, NumberRange DEF IntFrom
  <1>5. end <= Len(s)
    <2>1. n + (IntSize + k + LongSize + 1) <= Len(s)
      BY <1>1 DEF IsWhole, RecordSize
    <2>2. end = n + IntSize + k + LongSize + 1
      BY <1>1
    <2> QED
      BY <1>2, <1>4, <2>1, <2>2
  <1>6. n + IntSize \in Nat /\ n + IntSize + k <= Len(s) /\ m \in Nat /\ m + LongSize <= Len(s)
    <2>1. m = n + IntSize + k /\ end = n + IntSize + k + LongSize + 1
      BY <1>1
    <2> QED
      BY <1>2, <1>4, <1>5, <2>1
  <1>7. q \in Seq(Byte) /\ Len(q) = k /\ IsIn(q, s, n + IntSize)
    BY <1>1, <1>4, <1>6, PieceIsIn
  <1>8. l \in Seq(Byte) /\ Len(l) = LongSize /\ IsIn(l, s, m)
    BY <1>1, <1>2, <1>6, PieceIsIn
  <1> QED
    BY <1>1, <1>3, <1>4, <1>5, <1>7, <1>8 DEF Parts

LEMMA PartsExtend ==
  ASSUME NEW s \in Seq(Byte), NEW t \in Seq(Byte), NEW n \in Nat, NEW i, NEW q, NEW l, NEW end,
         Parts(s, n, i, q, l, end), NEW x, x = s \o t
  PROVE  Parts(x, n, i, q, l, end)
  <1>1. x \in Seq(Byte) /\ IsJoin(x, s, t) /\ Len(s) \in Nat /\ Len(t) \in Nat
    BY ConcatIs
  <1>2. Len(q) \in Nat /\ i \in Seq(Byte) /\ q \in Seq(Byte) /\ l \in Seq(Byte)
    BY DEF Parts
  <1>3. n + IntSize \in Nat /\ n + IntSize + Len(q) \in Nat
    BY <1>2, DiskSizes
  <1>4. IsIn(i, x, n) /\ IsIn(q, x, n + IntSize) /\ IsIn(l, x, n + IntSize + Len(q))
    BY <1>2, <1>3, IsInConcat DEF Parts
  <1>5. end \in 1 .. Len(s) /\ end <= Len(x)
    <2>1. end = n + IntSize + Len(q) + LongSize + 1 /\ end <= Len(s) /\ Len(x) = Len(s) + Len(t)
      BY <1>1 DEF Parts, IsJoin
    <2> QED
      BY <1>1, <1>2, <2>1, DiskSizes
  <1> QED
    BY <1>4, <1>5 DEF Parts

(* What a turn of _log_read does. *)
Loop(s) == [at : 0 .. Len(s), list : SUBSET Entries]
Further(s, l) == [at |-> l.at + RecordSize(s, l.at), list |-> Insert(l.list, RecordAt(s, l.at))]
IsReader(f, s) ==
  /\ f = [l \in Loop(s) |-> IF IsWhole(s, l.at) THEN f[Further(s, l)] ELSE l]
  /\ LogRead(s) = f[[at |-> 0, list |-> {}]]

(* A turn of _log_read takes one record, and comes nearer to the end. *)
LEMMA LoopGoesOn ==
  ASSUME NEW s \in Seq(Byte), NEW l \in Loop(s), IsWhole(s, l.at)
  PROVE  /\ Further(s, l) \in Loop(s) /\ Further(s, l).at > l.at
         /\ RecordAt(s, l.at) \in Entries
  <1>1. PICK n : n = l.at
    OBVIOUS
  <1>2. n \in Nat /\ l.list \in SUBSET Entries /\ Len(s) \in Nat
    BY <1>1 DEF Loop
  <1>3. PICK i, q, p, end : Parts(s, n, i, q, p, end)
    BY <1>1, <1>2, PartsOf
  <1>4. n + RecordSize(s, n) = end /\ end \in Nat /\ end > n /\ end <= Len(s) /\ RecordAt(s, n) \in Entries
    BY <1>2, <1>3, PartsGive
  <1>5. Insert(l.list, RecordAt(s, n)) \in SUBSET Entries
    BY <1>2, <1>4 DEF Insert
  <1>6. Further(s, l) = [at |-> end, list |-> Insert(l.list, RecordAt(s, n))]
    BY <1>1, <1>4 DEF Further
  <1>7. end \in 0 .. Len(s)
    BY <1>2, <1>4
  <1> QED
    BY <1>1, <1>4, <1>5, <1>6, <1>7 DEF Loop

(* _log_read's loop comes to its end, from any place. *)
LEMMA ReaderEnds ==
  ASSUME NEW s \in Seq(Byte)
  PROVE  \E f : IsReader(f, s)
  <1> DEFINE Z == Loop(s)
             far == [l \in Z |-> Len(s) - l.at]
             ends == [l \in Z |-> ~ IsWhole(s, l.at)]
             next == [l \in Z |-> Further(s, l)]
             out == [l \in Z |-> l]
  <1>1. far \in [Z -> Nat]
    BY DEF Loop
  <1>2. ASSUME NEW l \in Z, ~ ends[l] PROVE next[l] \in Z /\ far[next[l]] < far[l]
    <2>1. IsWhole(s, l.at)
      BY <1>2
    <2>2. PICK m : m = Further(s, l)
      OBVIOUS
    <2>3. m \in Z /\ m.at > l.at /\ next[l] = m
      BY <2>1, <2>2, LoopGoesOn
    <2>4. far[m] = Len(s) - m.at /\ far[l] = Len(s) - l.at
      BY <2>3
    <2>5. m.at \in Nat /\ l.at \in Nat /\ Len(s) \in Nat
      BY <2>3 DEF Loop
    <2> QED
      BY <2>3, <2>4, <2>5
  <1>3. PICK f : f = [l \in Z |-> IF ends[l] THEN out[l] ELSE f[next[l]]]
    <2>1. PICK Y, a, b, c, d : Y = Z /\ a = far /\ b = ends /\ c = next /\ d = out
      OBVIOUS
    <2> HIDE DEF Z, far, ends, next, out
    <2>2. \A l \in Y : ~ b[l] => c[l] \in Y /\ a[c[l]] < a[l]
      BY <1>2, <2>1
    <2>3. a \in [Y -> Nat]
      BY <1>1, <2>1
    <2>4. \E f : Loops(f, Y, b, d, c)
      BY <2>2, <2>3, LoopEnds
    <2> QED
      BY <2>1, <2>4 DEF Loops
  <1>4. ASSUME NEW l \in Z PROVE f[l] = IF IsWhole(s, l.at) THEN f[Further(s, l)] ELSE l
    <2>1. f[l] = IF ends[l] THEN out[l] ELSE f[next[l]]
      <3> HIDE DEF Z, ends, next, out
      <3> QED
        BY <1>3
    <2>2. CASE IsWhole(s, l.at)
      BY <2>1, <2>2
    <2>3. CASE ~ IsWhole(s, l.at)
      BY <2>1, <2>3
    <2> QED
      BY <2>2, <2>3
  <1>5. f = [l \in Loop(s) |-> IF IsWhole(s, l.at) THEN f[Further(s, l)] ELSE l]
    <2>1. f = [l \in Z |-> f[l]]
      <3> HIDE DEF Z, ends, next, out
      <3> QED
        BY <1>3
    <2> QED
      BY <1>4, <2>1
  <1> QED
    BY <1>5 DEF LogRead, IsReader, Loop, Further

(* The loop ends in the log, with a list if it began with one. *)
LEMMA ReaderStays ==
  ASSUME NEW s \in Seq(Byte), NEW f, IsReader(f, s)
  PROVE  \A l \in Loop(s) : f[l] \in Loop(s) /\ (IsList(l.list) => IsList(f[l].list))
  <1> DEFINE Ok(l) == f[l] \in Loop(s) /\ (IsList(l.list) => IsList(f[l].list))
             T == {k \in Nat : \A l \in Loop(s) : Len(s) - l.at < k => Ok(l)}
  <1>1. \A l \in Loop(s) : l.at \in 0 .. Len(s) /\ Len(s) \in Nat
    BY DEF Loop
  <1>2. 0 \in T
    BY <1>1
  <1>3. ASSUME NEW k \in Nat, k \in T PROVE k + 1 \in T
    <2>1. ASSUME NEW l \in Loop(s), Len(s) - l.at < k + 1 PROVE Ok(l)
      <3>1. CASE ~ IsWhole(s, l.at)
        <4>1. f[l] = l
          BY <3>1 DEF IsReader
        <4> QED
          BY <4>1
      <3>2. CASE IsWhole(s, l.at)
        <4>1. PICK m : m = Further(s, l)
          OBVIOUS
        <4>2. m \in Loop(s) /\ m.at > l.at /\ RecordAt(s, l.at) \in Entries
          BY <3>2, <4>1, LoopGoesOn
        <4>3. f[l] = f[m]
          BY <3>2, <4>1 DEF IsReader
        <4>4. Len(s) - m.at < k
          BY <1>1, <2>1, <4>2
        <4>5. f[m] \in Loop(s) /\ (IsList(m.list) => IsList(f[m].list))
          BY <1>3, <4>2, <4>4
        <4>6. IsList(l.list) => IsList(m.list)
          <5>1. m.list = Insert(l.list, RecordAt(s, l.at))
            BY <4>1 DEF Further
          <5> QED
            BY <4>2, <5>1, InsertIs
        <4> QED
          BY <4>3, <4>5, <4>6
      <3> QED
        BY <3>1, <3>2
    <2> HIDE DEF Ok
    <2> QED
      BY <2>1
  <1>4. Nat \subseteq T
    <2> HIDE DEF T
    <2> QED
      BY <1>2, <1>3, Induction
  <1>5. ASSUME NEW l \in Loop(s) PROVE Ok(l)
    <2>1. Len(s) - l.at + 1 \in Nat /\ Len(s) - l.at < Len(s) - l.at + 1
      BY <1>1
    <2> HIDE DEF Ok
    <2> QED
      BY <1>4, <2>1
  <1> QED
    BY <1>5

(* A record that is whole is the same when more is behind it. *)
LEMMA WholeExtends ==
  ASSUME NEW s \in Seq(Byte), NEW t \in Seq(Byte), NEW n \in Nat, IsWhole(s, n)
  PROVE  /\ IsWhole(s \o t, n) /\ RecordSize(s \o t, n) = RecordSize(s, n)
         /\ RecordAt(s \o t, n) = RecordAt(s, n)
  <1>1. PICK x : x = s \o t
    OBVIOUS
  <1>2. x \in Seq(Byte)
    BY <1>1
  <1>3. PICK i, q, p, end : Parts(s, n, i, q, p, end)
    BY PartsOf
  <1>4. Parts(x, n, i, q, p, end) /\ x[end] = s[end]
    <2>1. Parts(x, n, i, q, p, end)
      BY <1>1, <1>3, PartsExtend
    <2>2. x[end] = s[end]
      <3>1. IsJoin(x, s, t)
        BY <1>1, ConcatIs
      <3>2. end \in 1 .. Len(s)
        <4>1. end \in Nat /\ end > n /\ end <= Len(s)
          BY <1>3, PartsGive
        <4> QED
          BY <4>1
      <3> QED
        BY <3>1, <3>2 DEF IsJoin
    <2> QED
      BY <2>1, <2>2
  <1>5. n + RecordSize(s, n) = end /\ RecordAt(s, n) = EntryOf(q, p, s[end])
    BY <1>3, PartsGive
  <1>6. IsWhole(x, n) /\ n + RecordSize(x, n) = end /\ RecordAt(x, n) = EntryOf(q, p, x[end])
    BY <1>2, <1>4, PartsGive
  <1>7. Take(Drop(s, n), Len(i)) = i
    BY <1>3, PieceIs DEF Parts
  <1>8. Take(Drop(x, n), Len(i)) = i
    BY <1>2, <1>4, PieceIs DEF Parts
  <1>9. IntFrom(Drop(s, n)) = IntFrom(Drop(x, n))
    BY <1>3, <1>7, <1>8 DEF IntFrom, Parts
  <1> QED
    BY <1>1, <1>4, <1>5, <1>6, <1>9 DEF RecordSize

(* What is appended is read behind what was there. *)
LEMMA ReaderExtends ==
  ASSUME NEW s \in Seq(Byte), NEW t \in Seq(Byte), NEW f, IsReader(f, s), NEW g, IsReader(g, s \o t)
  PROVE  \A l \in Loop(s) : f[l].at = Len(s) => g[l] = g[f[l]]
  <1> DEFINE T == {k \in Nat : \A l \in Loop(s) : Len(s) - l.at < k /\ f[l].at = Len(s) => g[l] = g[f[l]]}
  <1>0. PICK x : x = s \o t
    OBVIOUS
  <1>1. x \in Seq(Byte) /\ Len(x) >= Len(s) /\ Len(x) \in Nat
    BY <1>0, ConcatIs DEF IsJoin
  <1>2. \A l \in Loop(s) : l.at \in 0 .. Len(s) /\ Len(s) \in Nat /\ l \in Loop(x)
    BY <1>1 DEF Loop
  <1>3. 0 \in T
    BY <1>2
  <1>4. ASSUME NEW k \in Nat, k \in T PROVE k + 1 \in T
    <2>1. ASSUME NEW l \in Loop(s), Len(s) - l.at < k + 1, f[l].at = Len(s) PROVE g[l] = g[f[l]]
      <3>1. CASE ~ IsWhole(s, l.at)
        <4>1. f[l] = l
          BY <3>1 DEF IsReader
        <4> QED
          BY <4>1
      <3>2. CASE IsWhole(s, l.at)
        <4>1. PICK m, n : m = Further(s, l) /\ n = l.at
          OBVIOUS
        <4>2. m \in Loop(s) /\ m.at > l.at
          BY <3>2, <4>1, LoopGoesOn
        <4>3. f[l] = f[m]
          BY <3>2, <4>1 DEF IsReader
        <4>4. IsWhole(x, n) /\ RecordSize(x, n) = RecordSize(s, n) /\ RecordAt(x, n) = RecordAt(s, n)
          <5>1. n \in Nat
            BY <1>2, <4>1
          <5> QED
            BY <1>0, <3>2, <4>1, <5>1, WholeExtends
        <4>5. Further(x, l) = m
          BY <4>1, <4>4 DEF Further
        <4>6. g[l] = g[m]
          BY <1>0, <1>2, <4>1, <4>4, <4>5 DEF IsReader
        <4>7. Len(s) - m.at < k
          BY <1>2, <2>1, <4>2
        <4>8. g[m] = g[f[m]]
          BY <1>4, <2>1, <4>2, <4>3, <4>7
        <4> QED
          BY <4>3, <4>6, <4>8
      <3> QED
        BY <3>1, <3>2
    <2> QED
      BY <2>1
  <1>5. Nat \subseteq T
    <2> HIDE DEF T
    <2> QED
      BY <1>3, <1>4, Induction
  <1>6. ASSUME NEW l \in Loop(s), f[l].at = Len(s) PROVE g[l] = g[f[l]]
    <2>1. Len(s) - l.at + 1 \in Nat /\ Len(s) - l.at < Len(s) - l.at + 1
      BY <1>2
    <2> QED
      BY <1>5, <1>6, <2>1
  <1> QED
    BY <1>6

(* A log's list has one entry of a key. *)
LEMMA LogReadIs ==
  ASSUME NEW s \in Seq(Byte)
  PROVE  LogRead(s) \in Loop(s) /\ IsList(LogRead(s).list)
  <1>1. PICK f : IsReader(f, s)
    BY ReaderEnds
  <1>2. PICK l : l = [at |-> 0, list |-> {}]
    OBVIOUS
  <1>3. l \in Loop(s) /\ IsList(l.list)
    <2>1. IsList({})
      BY FS_EmptySet DEF IsList
    <2>2. 0 \in 0 .. Len(s)
      OBVIOUS
    <2> QED
      BY <1>2, <2>1, <2>2 DEF Loop
  <1>4. f[l] \in Loop(s) /\ IsList(f[l].list)
    BY <1>1, <1>3, ReaderStays
  <1> QED
    BY <1>1, <1>2, <1>4 DEF IsReader

LEMMA EmptyLog == LogRead(<<>>) = [at |-> 0, list |-> {}]
  <1>1. PICK s, l : s = <<>> /\ l = [at |-> 0, list |-> {}]
    OBVIOUS
  <1>2. s \in Seq(Byte) /\ Len(s) = 0
    BY <1>1
  <1>3. PICK f : IsReader(f, s)
    BY <1>2, ReaderEnds
  <1>4. l \in Loop(s) /\ l.at = 0
    BY <1>1, <1>2 DEF Loop
  <1>5. ~ IsWhole(s, 0)
    BY <1>2, Sizes DEF IsWhole
  <1>6. f[l] = l
    BY <1>3, <1>4, <1>5 DEF IsReader
  <1> QED
    BY <1>1, <1>3, <1>6 DEF IsReader

(* log_append: the parts of a record, and its last byte. *)
LEMMA RecordIs ==
  ASSUME NEW key \in Strings, Len(key) < Power[IntSize], NEW off \in Nat, NEW opt \in Byte
  PROVE  /\ Record(key, off, opt) \in Seq(Byte)
         /\ Record(key, off, opt)[Len(Record(key, off, opt))] = opt
         /\ Parts(Record(key, off, opt), 0, PutInt(Len(key)), key, PutLong(off), Len(Record(key, off, opt)))
  <1>1. PICK i, l, o, u, v, rec : /\ i = PutInt(Len(key)) /\ l = PutLong(off) /\ o = <<opt>>
                                  /\ u = i \o key /\ v = u \o l /\ rec = v \o o
    OBVIOUS
  <1>2. key \in Seq(Byte) /\ Len(key) \in Nat
    BY PadIs
  <1>3. /\ i \in Seq(Byte) /\ Len(i) = IntSize /\ l \in Seq(Byte) /\ Len(l) = LongSize
        /\ o \in Seq(Byte) /\ Len(o) = 1 /\ o[1] = opt
    BY <1>1, <1>2, BigEndianBytes, DiskSizes DEF PutInt, PutLong
  <1>4. u \in Seq(Byte) /\ IsJoin(u, i, key)
    BY <1>1, <1>2, <1>3, ConcatIs
  <1>5. v \in Seq(Byte) /\ IsJoin(v, u, l)
    BY <1>1, <1>3, <1>4, ConcatIs
  <1>6. rec \in Seq(Byte) /\ IsJoin(rec, v, o)
    BY <1>1, <1>3, <1>5, ConcatIs
  <1>7. Len(u) = IntSize + Len(key) /\ Len(v) = IntSize + Len(key) + LongSize /\ Len(rec) = IntSize + Len(key) + LongSize + 1
    BY <1>3, <1>4, <1>5, <1>6 DEF IsJoin
  <1>8. IsIn(i, i, 0) /\ IsIn(key, key, 0) /\ IsIn(l, l, 0)
    BY <1>2, <1>3 DEF IsIn
  <1>9. 0 \in Nat /\ IntSize + 0 = IntSize /\ IntSize \in Nat /\ IntSize + Len(key) + 0 = IntSize + Len(key) /\ IntSize + Len(key) \in Nat
    BY <1>2, DiskSizes
  <1>10. IsIn(i, u, 0) /\ IsIn(key, u, IntSize)
    BY <1>1, <1>2, <1>3, <1>8, <1>9, IsInConcat
  <1>11. IsIn(i, v, 0) /\ IsIn(key, v, IntSize) /\ IsIn(l, v, IntSize + Len(key))
    <2>1. IsIn(i, v, 0) /\ IsIn(key, v, IntSize)
      BY <1>1, <1>2, <1>3, <1>4, <1>9, <1>10, IsInConcat
    <2>2. IsIn(l, v, Len(u) + 0)
      BY <1>1, <1>3, <1>4, <1>8, <1>9, IsInConcat
    <2> QED
      BY <1>7, <1>9, <2>1, <2>2
  <1>12. IsIn(i, rec, 0) /\ IsIn(key, rec, IntSize) /\ IsIn(l, rec, IntSize + Len(key))
    BY <1>1, <1>2, <1>3, <1>5, <1>9, <1>11, IsInConcat
  <1>13. Len(key) = Number(i)
    BY <1>1, <1>2, NumberOfBigEndian, DiskSizes DEF PutInt
  <1>14. rec[Len(rec)] = opt
    BY <1>2, <1>3, <1>6, <1>7, DiskSizes DEF IsJoin
  <1>15. Parts(rec, 0, i, key, l, Len(rec))
    BY <1>2, <1>3, <1>7, <1>9, <1>12, <1>13, DiskSizes DEF Parts
  <1>16. rec = Record(key, off, opt)
    BY <1>1 DEF Record
  <1> QED
    BY <1>1, <1>6, <1>14, <1>15, <1>16

(* What is in a record is in the log it is appended to. *)
LEMMA PartsBehind ==
  ASSUME NEW s \in Seq(Byte), NEW rec \in Seq(Byte), NEW i, NEW q, NEW l, Parts(rec, 0, i, q, l, Len(rec))
  PROVE  /\ Parts(s \o rec, Len(s), i, q, l, Len(s \o rec)) /\ Len(s \o rec) = Len(s) + Len(rec)
         /\ (s \o rec)[Len(s \o rec)] = rec[Len(rec)]
  <1>1. PICK x, n : x = s \o rec /\ n = Len(s)
    OBVIOUS
  <1>2. x \in Seq(Byte) /\ IsJoin(x, s, rec) /\ n \in Nat /\ Len(rec) \in Nat
    BY <1>1, ConcatIs
  <1>3. /\ i \in Seq(Byte) /\ q \in Seq(Byte) /\ l \in Seq(Byte) /\ Len(q) \in Nat
        /\ Len(i) = IntSize /\ Len(q) = Number(i) /\ Len(l) = LongSize
        /\ Len(rec) = 0 + IntSize + Len(q) + LongSize + 1
    BY DEF Parts
  <1>4. IsIn(i, rec, 0) /\ IsIn(q, rec, 0 + IntSize) /\ IsIn(l, rec, 0 + IntSize + Len(q))
    BY DEF Parts
  <1>5. /\ 0 + IntSize \in Nat /\ 0 + IntSize + Len(q) \in Nat /\ 0 \in Nat
        /\ n + 0 = n /\ n + (0 + IntSize) = n + IntSize /\ n + (0 + IntSize + Len(q)) = n + IntSize + Len(q)
    BY <1>2, <1>3, DiskSizes
  <1>6. IsIn(i, x, n + 0) /\ IsIn(q, x, n + (0 + IntSize)) /\ IsIn(l, x, n + (0 + IntSize + Len(q)))
    BY <1>1, <1>3, <1>4, <1>5, IsInConcat
  <1>7. Len(x) = n + Len(rec) /\ Len(x) = n + IntSize + Len(q) + LongSize + 1 /\ Len(x) \in Nat
    BY <1>1, <1>2, <1>3, DiskSizes DEF IsJoin
  <1>8. x[Len(x)] = rec[Len(rec)]
    <2>1. Len(rec) \in 1 .. Len(rec)
      BY <1>2, <1>3, DiskSizes
    <2> QED
      BY <1>1, <1>2, <1>7, <2>1 DEF IsJoin
  <1>9. Parts(x, n, i, q, l, Len(x))
    BY <1>3, <1>5, <1>6, <1>7 DEF Parts
  <1> QED
    BY <1>1, <1>7, <1>8, <1>9

IsRead(s) == LogRead(s).at = Len(s)

(* A record appended to a log that is read to its end is read behind it. *)
LEMMA LogAppends ==
  ASSUME NEW s \in Seq(Byte), IsRead(s), NEW rec \in Seq(Byte),
         NEW i, NEW q, NEW l, Parts(rec, 0, i, q, l, Len(rec))
  PROVE  /\ s \o rec \in Seq(Byte) /\ IsRead(s \o rec)
         /\ LogRead(s \o rec).list = Insert(LogRead(s).list, EntryOf(q, l, rec[Len(rec)]))
  <1>1. PICK x, n : x = s \o rec /\ n = Len(s)
    OBVIOUS
  <1>2. x \in Seq(Byte) /\ n \in Nat /\ Len(x) \in Nat
    BY <1>1
  <1>3. PICK f, g : IsReader(f, s) /\ IsReader(g, x)
    BY <1>2, ReaderEnds
  <1>4. PICK z, r : z = [at |-> 0, list |-> {}] /\ r = f[z]
    OBVIOUS
  <1>5. LogRead(s) = r /\ LogRead(x) = g[z] /\ r \in Loop(s) /\ r.at = n
    BY <1>1, <1>3, <1>4, LogReadIs DEF IsReader, IsRead
  <1>6. z \in Loop(s)
    BY <1>1, <1>2, <1>4 DEF Loop
  <1>7. g[z] = g[r]
    BY <1>1, <1>3, <1>4, <1>5, <1>6, ReaderExtends
  <1>8. Parts(x, n, i, q, l, Len(x)) /\ x[Len(x)] = rec[Len(rec)]
    BY <1>1, PartsBehind
  <1>9. IsWhole(x, n) /\ n + RecordSize(x, n) = Len(x) /\ RecordAt(x, n) = EntryOf(q, l, rec[Len(rec)])
    BY <1>2, <1>8, PartsGive
  <1>10. r \in Loop(x)
    <2>1. n <= Len(x)
      BY <1>1, ConcatIs DEF IsJoin
    <2> QED
      BY <1>1, <1>2, <1>5, <2>1 DEF Loop
  <1>11. PICK m : m = Further(x, r)
    OBVIOUS
  <1>12. m \in Loop(x) /\ g[r] = g[m]
    <2>1. IsWhole(x, r.at)
      BY <1>5, <1>9
    <2>2. m \in Loop(x)
      BY <1>2, <1>10, <1>11, <2>1, LoopGoesOn
    <2> QED
      BY <1>3, <1>10, <1>11, <2>1, <2>2 DEF IsReader
  <1>13. m = [at |-> Len(x), list |-> Insert(r.list, EntryOf(q, l, rec[Len(rec)]))]
    BY <1>5, <1>9, <1>11 DEF Further
  <1>14. ~ IsWhole(x, m.at)
    BY <1>2, <1>13, Sizes DEF IsWhole
  <1>15. g[m] = m
    BY <1>3, <1>12, <1>14 DEF IsReader
  <1>16. LogRead(x) = m
    BY <1>5, <1>7, <1>12, <1>15
  <1> QED
    BY <1>1, <1>2, <1>5, <1>13, <1>16 DEF IsRead

(* A record that is cut off adds nothing to the list. *)
LEMMA LogCut ==
  ASSUME NEW s \in Seq(Byte), IsRead(s), NEW rec \in Seq(Byte),
         NEW i, NEW q, NEW l, Parts(rec, 0, i, q, l, Len(rec)), NEW c \in 1 .. Len(rec) - 1
  PROVE  s \o Take(rec, c) \in Seq(Byte) /\ LogRead(s \o Take(rec, c)) = LogRead(s)
  <1>1. PICK n, t, d, x, y : /\ n = Len(s) /\ t = Take(rec, c) /\ d = Drop(rec, c)
                             /\ x = s \o t /\ y = s \o rec
    OBVIOUS
  <1>2. c \in 0 .. Len(rec) /\ Len(rec) \in Nat
    OBVIOUS
  <1>3. t \in Seq(Byte) /\ Len(t) = c /\ d \in Seq(Byte) /\ rec = t \o d
    <2>1. t \in Seq(Byte) /\ IsPiece(t, rec, 0, c)
      BY <1>1, <1>2, TakeIs
    <2>2. d \in Seq(Byte)
      BY <1>1, <1>2, DropIs
    <2>3. rec = t \o d
      BY <1>1, <1>2, TakeThenDrop
    <2> QED
      BY <2>1, <2>2, <2>3 DEF IsPiece
  <1>4. x \in Seq(Byte) /\ y \in Seq(Byte) /\ n \in Nat /\ Len(x) = n + c /\ Len(y) = n + Len(rec)
    <2>1. x \in Seq(Byte) /\ IsJoin(x, s, t)
      BY <1>1, <1>3, ConcatIs
    <2>2. y \in Seq(Byte) /\ IsJoin(y, s, rec)
      BY <1>1, ConcatIs
    <2>3. n \in Nat
      BY <1>1
    <2> QED
      BY <1>1, <1>3, <2>1, <2>2, <2>3 DEF IsJoin
  <1>5. y = x \o d
    <2>1. (s \o t) \o d = s \o (t \o d)
      BY <1>3, ConcatAssociates
    <2>2. rec = t \o d
      BY <1>3
    <2>3. y = s \o (t \o d)
      BY <1>1, <2>2
    <2> QED
      BY <1>1, <2>1, <2>3
  <1>6. ~ IsWhole(x, n)
    <2> SUFFICES ASSUME IsWhole(x, n) PROVE FALSE
      OBVIOUS
    <2>1. PICK i2, q2, l2, end : Parts(x, n, i2, q2, l2, end)
      BY <1>4, PartsOf
    <2>2. Parts(y, n, i2, q2, l2, end)
      BY <1>3, <1>4, <1>5, <2>1, PartsExtend
    <2>3. n + RecordSize(y, n) = end /\ end <= Len(x)
      <3>1. n + RecordSize(y, n) = end
        BY <1>4, <2>2, PartsGive
      <3>2. end <= Len(x)
        BY <2>1 DEF Parts
      <3> QED
        BY <3>1, <3>2
    <2>4. n + RecordSize(y, n) = Len(y)
      <3>1. Parts(y, n, i, q, l, Len(y))
        BY <1>1, PartsBehind
      <3> QED
        BY <1>4, <3>1, PartsGive
    <2> QED
      BY <1>2, <1>4, <2>3, <2>4
  <1>7. PICK f, g : IsReader(f, s) /\ IsReader(g, x)
    BY <1>4, ReaderEnds
  <1>8. PICK z, r : z = [at |-> 0, list |-> {}] /\ r = f[z]
    OBVIOUS
  <1>9. LogRead(s) = r /\ LogRead(x) = g[z] /\ r \in Loop(s) /\ r.at = n
    BY <1>1, <1>7, <1>8, LogReadIs DEF IsReader, IsRead
  <1>10. z \in Loop(s)
    BY <1>1, <1>4, <1>8 DEF Loop
  <1>11. g[z] = g[r]
    BY <1>1, <1>3, <1>7, <1>8, <1>9, <1>10, ReaderExtends
  <1>12. r \in Loop(x)
    BY <1>1, <1>2, <1>4, <1>9 DEF Loop
  <1>13. g[r] = r
    BY <1>6, <1>7, <1>9, <1>12 DEF IsReader
  <1> QED
    BY <1>1, <1>4, <1>9, <1>11, <1>13

-----------------------------------------------------------------------------
(* The table of files *)

(* The ends ascend. *)
Ascend(fs) == \A i, j \in DOMAIN fs : i < j => Before(fs[i].key, fs[j].key)

FilesOK(fs) ==
  /\ fs \in Seq(Mmaps) /\ Ascend(fs)
  /\ \A i \in DOMAIN fs : GoodFile(fs[i]) /\ \A e \in ReadMmap(fs[i]) : Covers(fs, i, e.key)

LEMMA FilesAre ==
  ASSUME NEW fs \in Seq(Mmaps)
  PROVE  DOMAIN fs = 1 .. Len(fs) /\ Len(fs) \in Nat /\ \A i \in DOMAIN fs : fs[i] \in Mmaps /\ fs[i].key \in Strings
  <1>1. DOMAIN fs = 1 .. Len(fs) /\ Len(fs) \in Nat /\ \A i \in DOMAIN fs : fs[i] \in Mmaps
    OBVIOUS
  <1>2. \A file \in Mmaps : file.key \in Strings
    BY DEF Mmaps
  <1> QED
    BY <1>1, <1>2

(* Every end before a key's file is before the key. *)
LEMMA CoversBehind ==
  ASSUME NEW fs \in Seq(Mmaps), Ascend(fs), NEW key \in Strings,
         NEW i \in DOMAIN fs, NEW j \in DOMAIN fs, i < j, Covers(fs, j, key)
  PROVE  Before(fs[i].key, key)
  <1>1. /\ DOMAIN fs = 1 .. Len(fs) /\ \A m \in DOMAIN fs : fs[m].key \in Strings
    BY FilesAre
  <1>2. j - 1 \in DOMAIN fs /\ j # 1 /\ i <= j - 1
    BY <1>1
  <1>3. Before(fs[j - 1].key, key)
    BY <1>2 DEF Covers
  <1>4. CASE i = j - 1
    BY <1>3, <1>4
  <1>5. CASE i # j - 1
    <2>1. i < j - 1
      BY <1>1, <1>2, <1>5
    <2>2. Before(fs[i].key, fs[j - 1].key)
      BY <1>2, <2>1 DEF Ascend
    <2> QED
      BY <1>1, <1>2, <1>3, <2>2, BeforeTransitive
  <1> QED
    BY <1>4, <1>5

(* At most one file covers a key. *)
LEMMA CoversOnce ==
  ASSUME NEW fs \in Seq(Mmaps), Ascend(fs), NEW key \in Strings,
         NEW i \in DOMAIN fs, NEW j \in DOMAIN fs, Covers(fs, i, key), Covers(fs, j, key)
  PROVE  i = j
  <1>1. i \in Nat /\ j \in Nat
    BY FilesAre
  <1>2. ~ (i < j) /\ ~ (j < i)
    BY CoversBehind DEF Covers
  <1> QED
    BY <1>1, <1>2

Content(fs) == UNION {ReadMmap(fs[i]) : i \in DOMAIN fs}

(* The files' records are a list: no key is in two files. *)
LEMMA ContentIs ==
  ASSUME NEW fs, FilesOK(fs)
  PROVE  IsList(Content(fs)) /\ AllAdds(Content(fs))
  <1>1. /\ fs \in Seq(Mmaps) /\ Ascend(fs) /\ DOMAIN fs = 1 .. Len(fs) /\ Len(fs) \in Nat
        /\ \A i \in DOMAIN fs : /\ IsList(ReadMmap(fs[i])) /\ AllAdds(ReadMmap(fs[i]))
                                /\ \A e \in ReadMmap(fs[i]) : Covers(fs, i, e.key)
    BY FilesAre DEF FilesOK, GoodFile
  <1>2. \A x \in Content(fs) : \E i \in DOMAIN fs : x \in ReadMmap(fs[i])
    BY DEF Content
  <1>3. ASSUME NEW x \in Content(fs), NEW y \in Content(fs), x.key = y.key PROVE x = y
    <2>1. PICK i \in DOMAIN fs : x \in ReadMmap(fs[i])
      BY <1>2
    <2>2. PICK j \in DOMAIN fs : y \in ReadMmap(fs[j])
      BY <1>2
    <2>3. Covers(fs, i, x.key) /\ Covers(fs, j, x.key) /\ x.key \in Strings
      BY <1>1, <1>3, <2>1, <2>2, EntriesAre DEF IsList
    <2>4. i = j
      BY <1>1, <2>3, CoversOnce
    <2> QED
      BY <1>1, <1>3, <2>1, <2>2, <2>4 DEF IsList
  <1>4. IsFiniteSet(Content(fs))
    <2>1. PICK S : S = {ReadMmap(fs[i]) : i \in DOMAIN fs}
      OBVIOUS
    <2>2. IsFiniteSet(S)
      <3>1. IsFiniteSet(1 .. Len(fs))
        BY <1>1, FS_Interval
      <3>2. PICK f : f = [i \in 1 .. Len(fs) |-> ReadMmap(fs[i])]
        OBVIOUS
      <3>3. f \in Surjection(1 .. Len(fs), S)
        BY <1>1, <2>1, <3>2 DEF Surjection
      <3> QED
        BY <3>1, <3>3, FS_Surjection
    <2>3. \A T \in S : IsFiniteSet(T)
      BY <1>1, <2>1 DEF IsList
    <2>4. IsFiniteSet(UNION S)
      BY <2>2, <2>3, FS_UNION
    <2> QED
      BY <2>1, <2>4 DEF Content
  <1>5. Content(fs) \subseteq Entries /\ AllAdds(Content(fs))
    BY <1>1, <1>2 DEF IsList, AllAdds
  <1> QED
    BY <1>3, <1>4, <1>5 DEF IsList

(* silopit_getoff finds the offset that any of the files has. *)
LEMMA GetoffIs ==
  ASSUME NEW fs, FilesOK(fs), NEW key \in Strings
  PROVE  SilopitGetoff(fs, key) = OffOf(Content(fs), key)
  <1>1. /\ fs \in Seq(Mmaps) /\ Ascend(fs)
        /\ \A i \in DOMAIN fs : /\ GoodFile(fs[i]) /\ IsList(ReadMmap(fs[i]))
                                /\ \A e \in ReadMmap(fs[i]) : Covers(fs, i, e.key)
    BY DEF FilesOK, GoodFile
  <1>2. PICK covering : covering = {i \in DOMAIN fs : Covers(fs, i, key)}
    OBVIOUS
  <1>3. ASSUME NEW e \in Content(fs), e.key = key
        PROVE  \E i \in covering : e \in ReadMmap(fs[i])
    BY <1>1, <1>2, <1>3 DEF Content
  <1>4. IsList(Content(fs))
    BY ContentIs
  <1>5. CASE covering = {}
    <2>1. SilopitGetoff(fs, key) = 0
      BY <1>2, <1>5 DEF SilopitGetoff
    <2>2. OffOf(Content(fs), key) = 0
      BY <1>3, <1>5 DEF OffOf
    <2> QED
      BY <2>1, <2>2
  <1>6. CASE covering # {}
    <2>1. PICK i : i = CHOOSE j \in covering : TRUE
      OBVIOUS
    <2>2. i \in covering
      BY <1>6, <2>1
    <2>3. SilopitGetoff(fs, key) = ReadOffset(fs[i], key)
      BY <1>2, <1>6, <2>1 DEF SilopitGetoff
    <2>4. ReadOffset(fs[i], key) = OffOf(ReadMmap(fs[i]), key)
      BY <1>1, <1>2, <2>2 DEF GoodFile
    <2>5. \A e \in ReadMmap(fs[i]) : e \in Content(fs)
      BY <1>2, <2>2 DEF Content
    <2>6. CASE \E e \in Content(fs) : e.key = key
      <3>1. PICK e \in Content(fs) : e.key = key
        BY <2>6
      <3>2. PICK j \in covering : e \in ReadMmap(fs[j])
        BY <1>3, <3>1
      <3>3. i = j
        BY <1>1, <1>2, <2>2, <3>2, CoversOnce
      <3>4. OffOf(ReadMmap(fs[i]), key) = e.off
        BY <1>1, <1>2, <2>2, <3>1, <3>2, <3>3, OffOfIs
      <3>5. OffOf(Content(fs), key) = e.off
        BY <1>4, <3>1, OffOfIs
      <3> QED
        BY <2>3, <2>4, <3>4, <3>5
    <2>7. CASE ~ \E e \in Content(fs) : e.key = key
      <3>1. OffOf(Content(fs), key) = 0 /\ OffOf(ReadMmap(fs[i]), key) = 0
        BY <2>5, <2>7 DEF OffOf
      <3> QED
        BY <2>3, <2>4, <3>1
    <2> QED
      BY <2>6, <2>7
  <1> QED
    BY <1>5, <1>6

-----------------------------------------------------------------------------
(* The merge *)

LEMMA BeforeMixed ==
  ASSUME NEW s \in Strings, NEW t \in Strings, NEW u \in Strings, ~ Before(s, t), Before(s, u)
  PROVE  Before(t, u)
  <1>1. CASE s = t
    BY <1>1
  <1>2. CASE s # t
    <2>1. Before(t, s)
      BY <1>2, BeforeTotal
    <2> QED
      BY <2>1, BeforeTransitive
  <1> QED
    BY <1>1, <1>2

(* What is not behind every end has a file. *)
LEMMA CoverExists ==
  ASSUME NEW fs \in Seq(Mmaps), NEW key \in Strings, NEW i \in DOMAIN fs, ~ Before(fs[i].key, key)
  PROVE  \E j \in DOMAIN fs : Covers(fs, j, key)
  <1>1. PICK T : T = {j \in DOMAIN fs : ~ Before(fs[j].key, key)}
    OBVIOUS
  <1>2. DOMAIN fs = 1 .. Len(fs) /\ Len(fs) \in Nat
    BY FilesAre
  <1>3. T \subseteq Nat /\ T # {}
    BY <1>1, <1>2
  <1>4. PICK j \in T : \A m \in T : j <= m
    BY <1>3, LeastElement
  <1>5. j \in DOMAIN fs /\ ~ Before(fs[j].key, key)
    BY <1>1, <1>4
  <1>6. ASSUME j # 1 PROVE Before(fs[j - 1].key, key)
    <2>1. j - 1 \in DOMAIN fs /\ ~ (j <= j - 1)
      BY <1>2, <1>5, <1>6
    <2> QED
      BY <1>1, <1>4, <2>1
  <1> QED
    BY <1>5, <1>6 DEF Covers

(* Files that stay between the ends of those they replace. *)
InSlot(fs, i, file) ==
  /\ file \in Mmaps /\ GoodFile(file) /\ Covers(fs, i, file.key)
  /\ \A e \in ReadMmap(file) : Covers(fs, i, e.key)

(* Files that stay in their slots keep the order of the ends. *)
LEMMA SlotsOK ==
  ASSUME NEW fs, FilesOK(fs), NEW g \in Seq(Mmaps), Len(g) = Len(fs),
         \A i \in DOMAIN fs : InSlot(fs, i, g[i])
  PROVE  FilesOK(g)
  <1>1. /\ fs \in Seq(Mmaps) /\ Ascend(fs) /\ DOMAIN fs = 1 .. Len(fs) /\ Len(fs) \in Nat
        /\ \A m \in DOMAIN fs : fs[m].key \in Strings
    BY FilesAre DEF FilesOK
  <1>2. /\ DOMAIN g = DOMAIN fs /\ \A m \in DOMAIN fs : g[m].key \in Strings
    BY <1>1, FilesAre
  <1>3. \A m \in DOMAIN fs : /\ GoodFile(g[m]) /\ Covers(fs, m, g[m].key)
                             /\ \A e \in ReadMmap(g[m]) : Covers(fs, m, e.key) /\ ~ Before(g[m].key, e.key)
                                                         /\ e.key \in Strings
    <2> SUFFICES ASSUME NEW m \in DOMAIN fs
                 PROVE  /\ GoodFile(g[m]) /\ Covers(fs, m, g[m].key)
                        /\ \A e \in ReadMmap(g[m]) : Covers(fs, m, e.key) /\ ~ Before(g[m].key, e.key)
                                                    /\ e.key \in Strings
      OBVIOUS
    <2>1. InSlot(fs, m, g[m])
      OBVIOUS
    <2>2. IsList(ReadMmap(g[m])) /\ \A e \in ReadMmap(g[m]) : ~ Before(g[m].key, e.key)
      BY <2>1 DEF InSlot, GoodFile
    <2>3. \A e \in ReadMmap(g[m]) : e.key \in Strings
      BY <2>2, EntriesAre DEF IsList
    <2> QED
      BY <2>1, <2>2, <2>3 DEF InSlot
  <1>4. ASSUME NEW i \in DOMAIN fs, NEW j \in DOMAIN fs, i < j, NEW key \in Strings, Covers(fs, j, key)
        PROVE  Before(g[i].key, key)
    <2>1. Before(fs[i].key, key)
      BY <1>1, <1>4, CoversBehind
    <2>2. ~ Before(fs[i].key, g[i].key)
      BY <1>3 DEF Covers
    <2> QED
      BY <1>1, <1>2, <2>1, <2>2, BeforeMixed
  <1>5. Ascend(g)
    BY <1>2, <1>3, <1>4 DEF Ascend
  <1>6. ASSUME NEW i \in DOMAIN fs, NEW e \in ReadMmap(g[i]) PROVE Covers(g, i, e.key)
    <2>1. ASSUME i # 1 PROVE Before(g[i - 1].key, e.key)
      <3>1. i - 1 \in DOMAIN fs /\ i - 1 < i
        BY <1>1, <2>1
      <3> QED
        BY <1>3, <1>4, <3>1
    <2> QED
      BY <1>3, <2>1 DEF Covers
  <1> QED
    BY <1>2, <1>3, <1>5, <1>6 DEF FilesOK

(* So does one whose keys are behind the last. *)
LEMMA AppendOK ==
  ASSUME NEW fs, FilesOK(fs), NEW file \in Mmaps, GoodFile(file),
         \A i \in DOMAIN fs : Before(fs[i].key, file.key) /\ \A e \in ReadMmap(file) : Before(fs[i].key, e.key),
         NEW g, g = fs \o <<file>>
  PROVE  FilesOK(g) /\ Content(g) = Content(fs) \cup ReadMmap(file)
  <1>1. /\ fs \in Seq(Mmaps) /\ Ascend(fs) /\ DOMAIN fs = 1 .. Len(fs) /\ Len(fs) \in Nat
        /\ \A i \in DOMAIN fs : GoodFile(fs[i]) /\ \A e \in ReadMmap(fs[i]) : Covers(fs, i, e.key)
    BY FilesAre DEF FilesOK
  <1>2. PICK n : n = Len(fs) + 1
    OBVIOUS
  <1>3. /\ g \in Seq(Mmaps) /\ DOMAIN g = DOMAIN fs \cup {n} /\ g[n] = file /\ n \notin DOMAIN fs
        /\ \A i \in DOMAIN fs : g[i] = fs[i] /\ i < n
    BY <1>1, <1>2
  <1>4. n \in Nat /\ \A i \in DOMAIN g : i \in Nat
    BY <1>1, <1>2, <1>3
  <1>5. Ascend(g)
    <2>1. ASSUME NEW i \in DOMAIN g, NEW j \in DOMAIN g, i < j PROVE Before(g[i].key, g[j].key)
      <3>1. i \in DOMAIN fs
        BY <1>3, <1>4, <2>1
      <3>2. CASE j = n
        BY <1>3, <3>1, <3>2
      <3>3. CASE j # n
        <4>1. j \in DOMAIN fs
          BY <1>3, <3>3
        <4> QED
          BY <1>1, <1>3, <2>1, <3>1, <4>1 DEF Ascend
      <3> QED
        BY <3>2, <3>3
    <2> QED
      BY <2>1 DEF Ascend
  <1>6. ASSUME NEW i \in DOMAIN fs, NEW e \in ReadMmap(g[i]) PROVE Covers(g, i, e.key)
    <2>1. Covers(fs, i, e.key) /\ (i # 1 => i - 1 \in DOMAIN fs)
      BY <1>1, <1>3
    <2> QED
      BY <1>3, <2>1 DEF Covers
  <1>7. ASSUME NEW e \in ReadMmap(file) PROVE Covers(g, n, e.key)
    <2>1. ~ Before(file.key, e.key)
      BY DEF GoodFile
    <2>2. n # 1 => n - 1 \in DOMAIN fs
      BY <1>1, <1>2
    <2> QED
      BY <1>3, <2>1, <2>2 DEF Covers
  <1>8. FilesOK(g)
    BY <1>1, <1>3, <1>5, <1>6, <1>7 DEF FilesOK
  <1>9. Content(g) = Content(fs) \cup ReadMmap(file)
    BY <1>3 DEF Content
  <1> QED
    BY <1>8, <1>9

NotWide(entries) == \A e \in entries : ~ IsWide(e.off)

(* A list in front of what files hold. *)
View(entries, content) == {c \in content : c.key \notin KeysOf(entries)} \cup Adds(entries)

LEMMA KeysAre == \A entries, key : key \in KeysOf(entries) <=> \E e \in entries : e.key = key
  BY DEF KeysOf

(* What a list shows over records is a list of records. *)
LEMMA ViewIs ==
  ASSUME NEW entries, IsList(entries), NEW content, IsList(content), AllAdds(content)
  PROVE  IsList(View(entries, content)) /\ AllAdds(View(entries, content))
  <1>1. PICK rest : rest = {c \in content : c.key \notin KeysOf(entries)}
    OBVIOUS
  <1>2. IsList(rest) /\ rest \subseteq content
    BY <1>1, SublistsAre
  <1>3. IsList(Adds(entries)) /\ Adds(entries) \subseteq entries
    BY AddsAre
  <1>4. View(entries, content) = rest \cup Adds(entries)
    BY <1>1 DEF View
  <1>5. IsFiniteSet(rest \cup Adds(entries))
    BY <1>2, <1>3, FS_Union DEF IsList
  <1>6. \A x \in rest, y \in Adds(entries) : x.key # y.key
    BY <1>1, <1>3, KeysAre
  <1>7. \A x, y \in rest \cup Adds(entries) : x.key = y.key => x = y
    BY <1>2, <1>3, <1>6 DEF IsList
  <1>8. IsList(rest \cup Adds(entries))
    BY <1>2, <1>3, <1>5, <1>7 DEF IsList
  <1>9. AllAdds(rest \cup Adds(entries))
    BY <1>2 DEF AllAdds, Adds
  <1> QED
    BY <1>4, <1>8, <1>9

(* A file's entries and the list's for its keys. *)
LEMMA ChunkIs ==
  ASSUME NEW old, IsList(old), AllAdds(old), NEW part, IsList(part),
         NEW chunk, chunk = {e \in old : e.key \notin KeysOf(part)} \cup part
  PROVE  IsList(chunk) /\ Adds(chunk) = View(part, old)
  <1>1. PICK rest : rest = {c \in old : c.key \notin KeysOf(part)}
    OBVIOUS
  <1>2. IsList(rest) /\ rest \subseteq old
    BY <1>1, SublistsAre
  <1>3. IsFiniteSet(rest \cup part)
    BY <1>2, FS_Union DEF IsList
  <1>4. \A x \in rest, y \in part : x.key # y.key
    BY <1>1, KeysAre
  <1>5. \A x, y \in rest \cup part : x.key = y.key => x = y
    BY <1>2, <1>4 DEF IsList
  <1>6. IsList(rest \cup part)
    BY <1>2, <1>3, <1>5 DEF IsList
  <1>7. Adds(rest \cup part) = rest \cup Adds(part)
    BY <1>2 DEF Adds, AllAdds
  <1> QED
    BY <1>1, <1>6, <1>7 DEF View

LEMMA SlotChunk ==
  ASSUME FilesOK(files), NEW new, IsList(new), NEW i \in DOMAIN files
  PROVE  /\ IsList(ReadMmap(files[i])) /\ AllAdds(ReadMmap(files[i])) /\ IsList(Part(new, i))
         /\ IsList(Chunk(i, Part(new, i)))
         /\ Adds(Chunk(i, Part(new, i))) = View(new, ReadMmap(files[i])) \cap (ReadMmap(files[i]) \cup Part(new, i))
         /\ \A e \in Chunk(i, Part(new, i)) : Covers(files, i, e.key)
  <1>1. PICK old, part : old = ReadMmap(files[i]) /\ part = Part(new, i)
    OBVIOUS
  <1>2. IsList(old) /\ AllAdds(old) /\ \A e \in old : Covers(files, i, e.key)
    BY <1>1 DEF FilesOK, GoodFile
  <1>3. part \subseteq new /\ \A e \in new : e \in part <=> Covers(files, i, e.key)
    BY <1>1 DEF Part
  <1>4. IsList(part)
    BY <1>3, SublistsAre
  <1>5. Chunk(i, part) = {e \in old : e.key \notin KeysOf(part)} \cup part
    BY <1>1 DEF Chunk
  <1>6. IsList(Chunk(i, part)) /\ Adds(Chunk(i, part)) = View(part, old)
    BY <1>2, <1>4, <1>5, ChunkIs
  <1>7. \A e \in old : e.key \in KeysOf(part) <=> e.key \in KeysOf(new)
    BY <1>2, <1>3, KeysAre
  <1>8. View(part, old) = View(new, old) \cap (old \cup part)
    <2>1. \A x : x \in View(part, old) <=> (x \in old /\ x.key \notin KeysOf(part)) \/ (x \in part /\ x.opt = "ADD")
      BY DEF View, Adds
    <2>2. \A x : x \in View(new, old) <=> (x \in old /\ x.key \notin KeysOf(new)) \/ (x \in new /\ x.opt = "ADD")
      BY DEF View, Adds
    <2>3. ASSUME NEW x, x \in old, x \in new PROVE x \in part
      BY <1>2, <1>3, <2>3
    <2> QED
      BY <1>3, <1>7, <2>1, <2>2, <2>3
  <1>9. \A e \in Chunk(i, part) : Covers(files, i, e.key)
    BY <1>2, <1>3, <1>5
  <1> QED
    BY <1>1, <1>2, <1>4, <1>6, <1>8, <1>9

(* The file that a merge leaves in a file's place. *)
Replaced(new, i) == IF Part(new, i) = {} THEN files[i] ELSE WriteMmap(Chunk(i, Part(new, i)))

LEMMA ReplacedTyped ==
  ASSUME FilesOK(files), NEW new, IsList(new), \A chunk \in Chunks(new) : Adds(chunk) # {},
         NEW i \in DOMAIN files
  PROVE  Replaced(new, i) \in Mmaps
  <1>1. CASE Part(new, i) = {}
    BY <1>1, FilesAre DEF Replaced, FilesOK
  <1>2. CASE Part(new, i) # {}
    <2>1. Chunk(i, Part(new, i)) \in Chunks(new)
      BY <1>2 DEF Chunks
    <2>2. WriteMmap(Chunk(i, Part(new, i))) \in Mmaps
      BY <2>1, SlotChunk, WrittenMmap
    <2> QED
      BY <1>2, <2>2 DEF Replaced
  <1> QED
    BY <1>1, <1>2

(* A file's new one shows the list over its entries, in the same slot. *)
LEMMA ReplacedIs ==
  ASSUME FilesOK(files), NEW new, IsList(new),
         \A chunk \in Chunks(new) : Adds(chunk) # {} /\ ~ IsUneven(chunk),
         NotWide(Adds(new)), NotWide(Content(files)), NEW i \in DOMAIN files
  PROVE  /\ InSlot(files, i, Replaced(new, i))
         /\ ReadMmap(Replaced(new, i)) = {e \in ReadMmap(files[i]) : e.key \notin KeysOf(new)} \cup Adds(Part(new, i))
  <1>1. PICK old, part, file : old = ReadMmap(files[i]) /\ part = Part(new, i) /\ file = Replaced(new, i)
    OBVIOUS
  <1>2. GoodFile(files[i]) /\ \A e \in old : Covers(files, i, e.key)
    BY <1>1 DEF FilesOK
  <1>3. file \in Mmaps
    BY <1>1, ReplacedTyped
  <1>4. part \subseteq new /\ \A e \in new : e \in part <=> Covers(files, i, e.key)
    BY <1>1 DEF Part
  <1>5. CASE part = {}
    <2>1. file = files[i]
      BY <1>1, <1>5 DEF Replaced
    <2>2. \A e \in old : e.key \notin KeysOf(new)
      BY <1>2, <1>4, <1>5, KeysAre
    <2>3. Covers(files, i, files[i].key)
      <3>1. /\ files \in Seq(Mmaps) /\ Ascend(files) /\ DOMAIN files = 1 .. Len(files)
            /\ files[i].key \in Strings
        BY FilesAre DEF FilesOK
      <3>2. ~ Before(files[i].key, files[i].key)
        BY <3>1, BeforeIrreflexive
      <3>3. i # 1 => i - 1 \in DOMAIN files /\ i - 1 < i
        BY <3>1
      <3> QED
        BY <3>1, <3>2, <3>3 DEF Ascend, Covers
    <2>4. InSlot(files, i, file)
      BY <1>1, <1>2, <1>3, <2>1, <2>3 DEF InSlot
    <2>5. Adds(part) = {}
      BY <1>5 DEF Adds
    <2> QED
      BY <1>1, <2>1, <2>2, <2>4, <2>5
  <1>6. CASE part # {}
    <2>1. PICK chunk : chunk = Chunk(i, part)
      OBVIOUS
    <2>2. chunk \in Chunks(new)
      BY <1>1, <1>6, <2>1 DEF Chunks
    <2>3. /\ IsList(chunk) /\ Adds(chunk) = View(new, old) \cap (old \cup part)
          /\ \A e \in chunk : Covers(files, i, e.key)
      BY <1>1, <2>1, SlotChunk
    <2>4. IsEven(chunk)
      BY <2>2, <2>3 DEF IsEven
    <2>5. \A e \in old : e \in Content(files)
      BY <1>1 DEF Content
    <2>6. \A e \in View(new, old) : ~ IsWide(e.off)
      BY <2>5 DEF View, NotWide
    <2>7. file = WriteMmap(chunk)
      BY <1>1, <1>6, <2>1 DEF Replaced
    <2>8. /\ GoodFile(file) /\ ReadMmap(file) = Adds(chunk)
          /\ \E e \in chunk : e.key = file.key
      BY <2>3, <2>4, <2>6, <2>7, WriteMmapIs, WrittenMmap DEF IsEven
    <2>9. Adds(chunk) \subseteq chunk
      BY <2>3, AddsAre
    <2>10. InSlot(files, i, file)
      BY <1>3, <2>3, <2>8, <2>9 DEF InSlot
    <2>11. Adds(chunk) = {e \in old : e.key \notin KeysOf(new)} \cup Adds(part)
      <3>1. \A x : x \in View(new, old) <=> (x \in old /\ x.key \notin KeysOf(new)) \/ (x \in new /\ x.opt = "ADD")
        BY DEF View, Adds
      <3>2. \A x : x \in Adds(part) <=> x \in part /\ x.opt = "ADD"
        BY DEF Adds
      <3>3. \A x \in old : x \in new => x \in part
        BY <1>2, <1>4
      <3> QED
        BY <1>4, <2>3, <3>1, <3>2, <3>3
    <2> QED
      BY <1>1, <2>8, <2>10, <2>11
  <1> QED
    BY <1>5, <1>6

Slots(new) == [i \in DOMAIN files |-> Replaced(new, i)]

LEMMA MergedParts ==
  ASSUME FilesOK(files), NEW new, IsList(new), \A chunk \in Chunks(new) : Adds(chunk) # {}
  PROVE  /\ Slots(new) \in Seq(Mmaps) /\ Len(Slots(new)) = Len(files)
         /\ Beyond(new) = {} => Merged(new) = Slots(new)
         /\ Beyond(new) # {} => Merged(new) = Slots(new) \o <<WriteMmap(Beyond(new))>>
  <1>1. files \in Seq(Mmaps) /\ DOMAIN files = 1 .. Len(files) /\ Len(files) \in Nat
    BY FilesAre DEF FilesOK
  <1>2. PICK g : g = Slots(new)
    OBVIOUS
  <1>3. \A i \in DOMAIN files : g[i] = Replaced(new, i) /\ Replaced(new, i) \in Mmaps
    BY <1>2, ReplacedTyped DEF Slots
  <1>4. g = [i \in 1 .. Len(files) |-> Replaced(new, i)]
    BY <1>1, <1>2 DEF Slots
  <1>5. g \in Seq(Mmaps) /\ Len(g) = Len(files)
    BY <1>1, <1>3, <1>4
  <1>6. g \o <<>> = g
    BY <1>5
  <1>7. Merged(new) = g \o (IF Beyond(new) = {} THEN <<>> ELSE <<WriteMmap(Beyond(new))>>)
    BY <1>2 DEF Merged, Slots, Replaced
  <1> QED
    BY <1>2, <1>5, <1>6, <1>7

LEMMA BeyondIs ==
  ASSUME NEW new, IsList(new), \A chunk \in Chunks(new) : Adds(chunk) # {}, Beyond(new) # {}
  PROVE  /\ IsList(Beyond(new)) /\ Adds(Beyond(new)) # {} /\ Beyond(new) \in Chunks(new)
         /\ WriteMmap(Beyond(new)) \in Mmaps
  <1>1. Beyond(new) \in Chunks(new)
    BY DEF Chunks
  <1>2. IsList(Beyond(new))
    BY SublistsAre DEF Beyond
  <1> QED
    BY <1>1, <1>2, WrittenMmap

LEMMA MergedTyped ==
  ASSUME FilesOK(files), NEW new, IsList(new), \A chunk \in Chunks(new) : Adds(chunk) # {}
  PROVE  Merged(new) \in Seq(Mmaps)
  <1>1. CASE Beyond(new) = {}
    BY <1>1, MergedParts
  <1>2. CASE Beyond(new) # {}
    <2>1. PICK g, file : g = Slots(new) /\ file = WriteMmap(Beyond(new))
      OBVIOUS
    <2>2. g \in Seq(Mmaps) /\ file \in Mmaps /\ Merged(new) = g \o <<file>>
      BY <1>2, <2>1, MergedParts, BeyondIs
    <2> QED
      BY <2>2
  <1> QED
    BY <1>1, <1>2

(* The files hold, each in its place, what the list leaves and adds. *)
LEMMA MergedIs ==
  ASSUME FilesOK(files), NEW new, IsList(new),
         \A chunk \in Chunks(new) : Adds(chunk) # {} /\ ~ IsUneven(chunk),
         NotWide(Adds(new)), NotWide(Content(files)), Beyond(new) \in {{}, new}
  PROVE  FilesOK(Merged(new)) /\ Content(Merged(new)) = View(new, Content(files))
  <1>1. /\ files \in Seq(Mmaps) /\ Ascend(files) /\ DOMAIN files = 1 .. Len(files) /\ Len(files) \in Nat
        /\ \A i \in DOMAIN files : files[i].key \in Strings
    BY FilesAre DEF FilesOK
  <1>2. PICK g : g = Slots(new)
    OBVIOUS
  <1>3. g \in Seq(Mmaps) /\ Len(g) = Len(files) /\ DOMAIN g = DOMAIN files
    BY <1>1, <1>2, MergedParts, FilesAre
  <1>4. \A i \in DOMAIN files : g[i] = Replaced(new, i)
    BY <1>2 DEF Slots
  <1>5. \A i \in DOMAIN files : /\ InSlot(files, i, g[i])
                                /\ ReadMmap(g[i]) = {e \in ReadMmap(files[i]) : e.key \notin KeysOf(new)} \cup Adds(Part(new, i))
    BY <1>4, ReplacedIs
  <1>6. FilesOK(g)
    BY <1>3, <1>5, SlotsOK
  <1>7. \A e \in new, i \in DOMAIN files : e \in Part(new, i) <=> Covers(files, i, e.key)
    BY DEF Part
  <1>8. \A e \in new : e \in Beyond(new) <=> \A i \in DOMAIN files : e \notin Part(new, i)
    BY <1>7 DEF Beyond
  <1>9. \A i \in DOMAIN files : Part(new, i) \subseteq new
    BY DEF Part
  <1>10. \A x : x \in View(new, Content(files)) <=>
                  (\E i \in DOMAIN files : x \in ReadMmap(files[i]) /\ x.key \notin KeysOf(new)) \/ (x \in new /\ x.opt = "ADD")
    BY DEF View, Adds, Content
  <1>11. \A x : x \in Content(g) <=>
                  \E i \in DOMAIN files : \/ x \in ReadMmap(files[i]) /\ x.key \notin KeysOf(new)
                                          \/ x \in Part(new, i) /\ x.opt = "ADD"
    <2>1. \A x : x \in Content(g) <=> \E i \in DOMAIN files : x \in ReadMmap(g[i])
      BY <1>3 DEF Content
    <2>2. \A i \in DOMAIN files : \A x : x \in ReadMmap(g[i]) <=>
             \/ x \in ReadMmap(files[i]) /\ x.key \notin KeysOf(new)
             \/ x \in Part(new, i) /\ x.opt = "ADD"
      BY <1>5 DEF Adds
    <2> QED
      BY <2>1, <2>2
  <1>12. CASE Beyond(new) = {}
    <2>1. Merged(new) = g
      BY <1>2, <1>12, MergedParts
    <2>2. \A x : x \in Content(g) <=> x \in View(new, Content(files))
      BY <1>8, <1>9, <1>10, <1>11, <1>12
    <2> QED
      BY <1>6, <2>1, <2>2
  <1>13. CASE Beyond(new) # {}
    <2>1. PICK file : file = WriteMmap(Beyond(new))
      OBVIOUS
    <2>2. Merged(new) = g \o <<file>> /\ Beyond(new) = new
      BY <1>2, <1>13, <2>1, MergedParts
    <2>3. \A i \in DOMAIN files : Part(new, i) = {}
      BY <1>8, <1>9, <2>2
    <2>4. \A i \in DOMAIN files : g[i] = files[i]
      BY <1>4, <2>3 DEF Replaced
    <2>5. ASSUME NEW e \in new, NEW i \in DOMAIN files PROVE Before(files[i].key, e.key)
      <3>1. e.key \in Strings
        BY EntriesAre DEF IsList
      <3>2. \A j \in DOMAIN files : ~ Covers(files, j, e.key)
        BY <1>7, <2>3
      <3> QED
        BY <1>1, <3>1, <3>2, CoverExists
    <2>6. IsEven(new)
      <3>1. new \in Chunks(new) /\ Adds(new) # {}
        BY <1>13, <2>2, BeyondIs
      <3> QED
        BY <3>1 DEF IsEven
    <2>7. /\ file \in Mmaps /\ GoodFile(file) /\ ReadMmap(file) = Adds(new)
          /\ \E e \in new : e.key = file.key
      BY <1>13, <2>1, <2>2, <2>6, WriteMmapIs, WrittenMmap, BeyondIs DEF NotWide
    <2>8. Adds(new) \subseteq new
      BY AddsAre
    <2>9. /\ FilesOK(Merged(new)) /\ Content(Merged(new)) = Content(g) \cup ReadMmap(file)
      <3>1. \A i \in DOMAIN g : Before(g[i].key, file.key) /\ \A e \in ReadMmap(file) : Before(g[i].key, e.key)
        BY <1>3, <2>4, <2>5, <2>7, <2>8
      <3> QED
        BY <1>6, <2>2, <2>7, <3>1, AppendOK
    <2>10. \A x : x \in Content(g) \cup ReadMmap(file) <=> x \in View(new, Content(files))
      <3>1. \A x : x \in ReadMmap(file) <=> x \in new /\ x.opt = "ADD"
        BY <2>7 DEF Adds
      <3> QED
        BY <1>10, <1>11, <2>3, <3>1
    <2> QED
      BY <2>9, <2>10
  <1> QED
    BY <1>12, <1>13

-----------------------------------------------------------------------------
(* Lookups *)

KeysAreStrings == \A key \in Keys : key \in Strings /\ key # <<>> /\ Len(key) < Power[IntSize]
LEMMA KeyStrings == KeysAreStrings
  BY DiskAssumption DEF KeysAreStrings

(* What is found where the view has the key. *)
Shown(vs, view, key) == IF \E e \in view : e.key = key THEN ReadValue(vs, OffOf(view, key)) ELSE None

HaveOffsets(entries) == \A e \in entries : e.off # 0

(* index_get behind the filter answers with what the view shows. *)
LEMMA LookupIs ==
  ASSUME NEW fs, FilesOK(fs), HaveOffsets(Content(fs)), NEW entries, IsList(entries),
         HaveOffsets(Adds(entries)), NEW vs, NEW key \in Keys
  PROVE  Lookup(vs, fs)[entries][key] = Shown(vs, View(entries, Content(fs)), key)
  <1>1. PICK content, view : content = Content(fs) /\ view = View(entries, content)
    OBVIOUS
  <1>2. IsList(content) /\ AllAdds(content) /\ IsList(view)
    BY <1>1, ContentIs, ViewIs
  <1>3. \A x : x \in view <=> (x \in content /\ x.key \notin KeysOf(entries)) \/ x \in Adds(entries)
    BY <1>1 DEF View
  <1>4. \A x : x \in Adds(entries) <=> x \in entries /\ x.opt = "ADD"
    BY DEF Adds
  <1>5. entries \subseteq Entries /\ key \in Strings
    BY KeyStrings DEF IsList, KeysAreStrings
  <1>6. Lookup(vs, fs)[entries][key] =
          IF \E e \in Found(entries, key) : e.opt = "DEL" THEN None
          ELSE IF \E e \in Found(entries, key) : e.off # 0
               THEN ReadValue(vs, (CHOOSE e \in Found(entries, key) : TRUE).off)
          ELSE Behind(vs, fs, key)
    BY <1>5 DEF Lookup
  <1>7. CASE \E e \in entries : e.key = key
    <2>1. PICK e \in entries : e.key = key
      BY <1>7
    <2>2. Found(entries, key) = {e}
      BY <2>1 DEF Found, IsList
    <2>3. key \in KeysOf(entries)
      BY <2>1, KeysAre
    <2>4. \A x \in view : x.key = key => x = e /\ e.opt = "ADD"
      BY <1>3, <1>4, <2>1, <2>3 DEF IsList
    <2>5. CASE e.opt = "DEL"
      <3>1. Lookup(vs, fs)[entries][key] = None
        BY <1>6, <2>2, <2>5
      <3>2. ~ \E x \in view : x.key = key
        BY <2>4, <2>5
      <3> QED
        BY <1>1, <3>1, <3>2 DEF Shown
    <2>6. CASE e.opt # "DEL"
      <3>1. e \in Adds(entries)
        BY <1>4, <1>5, <2>6, EntriesAre
      <3>2. e.off # 0 /\ e \in view
        BY <1>3, <3>1 DEF HaveOffsets
      <3>3. (CHOOSE x \in Found(entries, key) : TRUE) = e
        BY <2>2
      <3>4. Lookup(vs, fs)[entries][key] = ReadValue(vs, e.off)
        BY <1>6, <2>2, <2>6, <3>2, <3>3
      <3>5. OffOf(view, key) = e.off
        BY <1>2, <2>1, <3>2, OffOfIs
      <3> QED
        BY <1>1, <2>1, <3>2, <3>4, <3>5 DEF Shown
    <2> QED
      BY <2>5, <2>6
  <1>8. CASE ~ \E e \in entries : e.key = key
    <2>1. Found(entries, key) = {}
      BY <1>8 DEF Found
    <2>2. Lookup(vs, fs)[entries][key] = Behind(vs, fs, key)
      BY <1>6, <2>1
    <2>3. SilopitGetoff(fs, key) = OffOf(content, key)
      BY <1>1, <1>5, GetoffIs
    <2>4. \A x : x.key = key => (x \in view <=> x \in content)
      BY <1>3, <1>4, <1>8, KeysAre
    <2>5. CASE \E e \in content : e.key = key
      <3>1. PICK e \in content : e.key = key
        BY <2>5
      <3>2. OffOf(content, key) = e.off /\ OffOf(view, key) = e.off /\ e \in view
        BY <1>2, <2>4, <3>1, OffOfIs
      <3>3. e.off # 0
        BY <1>1 DEF HaveOffsets
      <3>4. Behind(vs, fs, key) = ReadValue(vs, e.off)
        BY <2>3, <3>2, <3>3 DEF Behind
      <3> QED
        BY <1>1, <2>2, <3>1, <3>2, <3>4 DEF Shown
    <2>6. CASE ~ \E e \in content : e.key = key
      <3>1. OffOf(content, key) = 0
        BY <2>6 DEF OffOf
      <3>2. Behind(vs, fs, key) = None
        BY <2>3, <3>1 DEF Behind
      <3> QED
        BY <1>1, <2>2, <2>4, <2>6, <3>2 DEF Shown
    <2> QED
      BY <2>5, <2>6
  <1> QED
    BY <1>7, <1>8

-----------------------------------------------------------------------------
(* The value file *)

ValueOf(v) == PutInt(Len(v)) \o v

LEMMA ValueBytesAre ==
  ASSUME NEW v \in Values
  PROVE  /\ v \in Seq(Byte) /\ v \in Strings /\ Len(v) \in Nat /\ Len(v) < Power[IntSize]
         /\ PutInt(Len(v)) \in Seq(Byte) /\ Len(PutInt(Len(v))) = IntSize
         /\ ValueOf(v) \in Seq(Byte) /\ Len(ValueOf(v)) = IntSize + Len(v)
  <1>1. v \in Strings /\ Len(v) < Power[IntSize]
    BY DiskAssumption
  <1>2. v \in Seq(Byte) /\ Len(v) \in Nat
    BY <1>1, StringBytes
  <1>3. PutInt(Len(v)) \in Seq(Byte) /\ Len(PutInt(Len(v))) = IntSize
    BY <1>2, Sizes, BigEndianBytes DEF PutInt
  <1>4. PICK i : i = PutInt(Len(v))
    OBVIOUS
  <1>5. i \o v \in Seq(Byte) /\ Len(i \o v) = IntSize + Len(v)
    BY <1>2, <1>3, <1>4, ConcatIs DEF IsJoin
  <1> QED
    BY <1>1, <1>2, <1>3, <1>4, <1>5 DEF ValueOf

LEMMA IsInParts ==
  ASSUME NEW s \in Seq(Byte), NEW t \in Seq(Byte), NEW w \in Seq(Byte), NEW m \in Nat, IsIn(s \o t, w, m)
  PROVE  IsIn(s, w, m) /\ IsIn(t, w, m + Len(s))
  <1>1. PICK u : u = s \o t
    OBVIOUS
  <1>2. IsJoin(u, s, t) /\ IsIn(u, w, m) /\ Len(s) \in Nat /\ Len(t) \in Nat /\ Len(w) \in Nat
    BY <1>1, ConcatIs
  <1>3. Len(u) = Len(s) + Len(t) /\ m + Len(u) <= Len(w)
    BY <1>2 DEF IsJoin, IsIn
  <1>4. ASSUME NEW i \in 1 .. Len(s) PROVE w[m + i] = s[i]
    <2>1. i \in 1 .. Len(u) /\ u[i] = s[i]
      BY <1>2, <1>3 DEF IsJoin
    <2> QED
      BY <1>2, <2>1 DEF IsIn
  <1>5. ASSUME NEW i \in 1 .. Len(t) PROVE w[m + Len(s) + i] = t[i]
    <2>1. Len(s) + i \in 1 .. Len(u) /\ u[Len(s) + i] = t[i]
      BY <1>2, <1>3 DEF IsJoin
    <2>2. w[m + (Len(s) + i)] = u[Len(s) + i]
      BY <1>2, <2>1 DEF IsIn
    <2>3. m + Len(s) + i = m + (Len(s) + i)
      BY <1>2
    <2> QED
      BY <2>1, <2>2, <2>3
  <1> QED
    BY <1>2, <1>3, <1>4, <1>5 DEF IsIn

(* A value that is in the file is read as it was written. *)
LEMMA ValueIs ==
  ASSUME NEW vs \in Seq(Byte), NEW off \in Nat, ~ IsNegative(off), NEW v \in Values, IsIn(ValueOf(v), vs, off)
  PROVE  ReadValue(vs, off) = v
  <1>1. PICK i : i = PutInt(Len(v))
    OBVIOUS
  <1>2. /\ v \in Seq(Byte) /\ Len(v) \in Nat /\ Len(v) < Power[IntSize]
        /\ i \in Seq(Byte) /\ Len(i) = IntSize /\ IntSize \in Nat
    BY <1>1, ValueBytesAre, Sizes
  <1>3. IsIn(i, vs, off) /\ IsIn(v, vs, off + IntSize)
    <2>1. IsIn(i \o v, vs, off)
      BY <1>1 DEF ValueOf
    <2> QED
      BY <1>2, <2>1, IsInParts
  <1>4. off + IntSize + Len(v) <= Len(vs) /\ Len(vs) \in Nat
    BY <1>2, <1>3 DEF IsIn
  <1>5. PICK rest : rest = Drop(vs, off)
    OBVIOUS
  <1>6. rest \in Seq(Byte) /\ Len(rest) = Len(vs) - off /\ \A j \in 1 .. Len(vs) - off : rest[j] = vs[off + j]
    BY <1>2, <1>4, <1>5, DropIs DEF IsPiece
  <1>7. IntFrom(rest) = Len(v)
    <2>1. Take(Drop(vs, off), Len(i)) = i
      BY <1>2, <1>3, PieceIs
    <2>2. Number(i) = Len(v)
      BY <1>1, <1>2, NumberOfBigEndian DEF PutInt
    <2> QED
      BY <1>2, <1>5, <2>1, <2>2 DEF IntFrom
  <1>8. PICK u : u = Drop(rest, IntSize)
    OBVIOUS
  <1>9. /\ u \in Seq(Byte) /\ Len(u) = Len(rest) - IntSize
        /\ \A j \in 1 .. Len(rest) - IntSize : u[j] = rest[IntSize + j]
    <2>1. IntSize \in 0 .. Len(rest)
      BY <1>2, <1>4, <1>6
    <2> QED
      BY <1>6, <1>8, <2>1, DropIs DEF IsPiece
  <1>10. FirstBytes(u, Len(v)) = v
    <2>1. ASSUME NEW j \in 1 .. Len(v) PROVE j <= Len(u) /\ u[j] = v[j]
      <3>1. j \in 1 .. Len(rest) - IntSize /\ IntSize + j \in 1 .. Len(vs) - off
        BY <1>2, <1>4, <1>6
      <3>2. u[j] = vs[off + (IntSize + j)] /\ j <= Len(u)
        BY <1>6, <1>9, <3>1
      <3>3. vs[off + IntSize + j] = v[j]
        BY <1>3 DEF IsIn
      <3>4. off + (IntSize + j) = off + IntSize + j
        BY <1>2
      <3> QED
        BY <3>2, <3>3, <3>4
    <2>2. FirstBytes(u, Len(v)) = [j \in 1 .. Len(v) |-> v[j]]
      BY <2>1 DEF FirstBytes
    <2>3. v = [j \in 1 .. Len(v) |-> v[j]]
      BY <1>2
    <2> QED
      BY <2>2, <2>3
  <1>11. ~ (off + IntSize > Len(vs))
    BY <1>2, <1>4
  <1> QED
    BY <1>5, <1>7, <1>8, <1>10, <1>11 DEF ReadValue

(* An entry whose value the file has. *)
Refers(vs, e) ==
  /\ e.off # 0 /\ ~ IsWide(e.off) /\ ~ IsNegative(e.off)
  /\ \E v \in Values : IsIn(ValueOf(v), vs, e.off)
AllRefer(vs, entries) == \A e \in entries : Refers(vs, e)

(* A longer value file takes no value away. *)
LEMMA StillRefers ==
  ASSUME NEW vs \in Seq(Byte), NEW u \in Seq(Byte), NEW entries, IsList(entries), AllRefer(vs, entries)
  PROVE  /\ AllRefer(vs \o u, entries) /\ HaveOffsets(entries) /\ NotWide(entries)
         /\ \A e \in entries : ReadValue(vs \o u, e.off) = ReadValue(vs, e.off)
  <1>1. vs \o u \in Seq(Byte)
    BY ConcatIs
  <1>2. ASSUME NEW e \in entries PROVE Refers(vs \o u, e) /\ ReadValue(vs \o u, e.off) = ReadValue(vs, e.off)
    <2>1. Refers(vs, e) /\ e.off \in Nat
      BY EntriesAre DEF AllRefer, IsList, Longs
    <2>2. PICK v \in Values : IsIn(ValueOf(v), vs, e.off)
      BY <2>1 DEF Refers
    <2>3. IsIn(ValueOf(v), vs \o u, e.off)
      BY <2>1, <2>2, ValueBytesAre, IsInConcat
    <2>4. ReadValue(vs, e.off) = v /\ ReadValue(vs \o u, e.off) = v
      BY <1>1, <2>1, <2>2, <2>3, ValueIs DEF Refers
    <2> QED
      BY <2>1, <2>3, <2>4 DEF Refers
  <1>3. HaveOffsets(entries) /\ NotWide(entries)
    BY DEF AllRefer, Refers, HaveOffsets, NotWide
  <1> QED
    BY <1>2, <1>3 DEF AllRefer

(* Nor does it change what is shown. *)
LEMMA StillShown ==
  ASSUME NEW vs \in Seq(Byte), NEW u \in Seq(Byte), NEW view, IsList(view), AllRefer(vs, view), NEW key
  PROVE  Shown(vs \o u, view, key) = Shown(vs, view, key)
  <1>1. CASE \E e \in view : e.key = key
    <2>1. PICK e \in view : e.key = key
      BY <1>1
    <2>2. OffOf(view, key) = e.off
      BY <2>1, OffOfIs
    <2>3. ReadValue(vs \o u, e.off) = ReadValue(vs, e.off)
      BY StillRefers
    <2> QED
      BY <2>2, <2>3 DEF Shown
  <1>2. CASE ~ \E e \in view : e.key = key
    BY <1>2 DEF Shown
  <1> QED
    BY <1>1, <1>2

(* Lists that answer alike. *)
Same(l, m) == KeysOf(l) = KeysOf(m) /\ Adds(l) = Adds(m)

LEMMA SameViews ==
  ASSUME NEW l, NEW m, Same(l, m), NEW content
  PROVE  View(l, content) = View(m, content)
  BY DEF Same, View

LEMMA EmptyList ==
  /\ IsList({}) /\ Adds({}) = {} /\ KeysOf({}) = {} /\ \A content : View({}, content) = content
  <1>1. IsFiniteSet({})
    BY FS_EmptySet
  <1>2. Adds({}) = {} /\ KeysOf({}) = {}
    BY DEF Adds, KeysOf
  <1> QED
    BY <1>1, <1>2 DEF IsList, View

LEMMA InsertMembers ==
  ASSUME NEW entries, NEW e
  PROVE  /\ KeysOf(Insert(entries, e)) = KeysOf(entries) \cup {e.key}
         /\ Adds(Insert(entries, e)) = {x \in Adds(entries) : x.key # e.key} \cup Adds({e})
  <1>1. \A x : x \in Insert(entries, e) <=> (x \in entries /\ x.key # e.key) \/ x = e
    BY DEF Insert
  <1>2. \A key : key \in KeysOf(Insert(entries, e)) <=> key \in KeysOf(entries) \/ key = e.key
    <2> SUFFICES ASSUME NEW key
                 PROVE  key \in KeysOf(Insert(entries, e)) <=> key \in KeysOf(entries) \/ key = e.key
      OBVIOUS
    <2>1. key \in KeysOf(Insert(entries, e)) <=> \E x \in Insert(entries, e) : x.key = key
      BY KeysAre
    <2>2. key \in KeysOf(entries) <=> \E x \in entries : x.key = key
      BY KeysAre
    <2> QED
      BY <1>1, <2>1, <2>2
  <1>3. Adds(Insert(entries, e)) = {x \in Adds(entries) : x.key # e.key} \cup Adds({e})
    BY <1>1 DEF Adds
  <1> QED
    BY <1>2, <1>3

LEMMA InsertView ==
  ASSUME NEW entries, NEW e, NEW content
  PROVE  View(Insert(entries, e), content) = {x \in View(entries, content) : x.key # e.key} \cup Adds({e})
  BY InsertMembers DEF View

LEMMA SameInserts ==
  ASSUME NEW l, NEW m, Same(l, m), NEW d, NEW e, d.key = e.key, Adds({d}) = Adds({e})
  PROVE  Same(Insert(l, d), Insert(m, e))
  <1>1. /\ KeysOf(Insert(l, d)) = KeysOf(l) \cup {d.key}
        /\ Adds(Insert(l, d)) = {x \in Adds(l) : x.key # d.key} \cup Adds({d})
    BY InsertMembers
  <1>2. /\ KeysOf(Insert(m, e)) = KeysOf(m) \cup {e.key}
        /\ Adds(Insert(m, e)) = {x \in Adds(m) : x.key # e.key} \cup Adds({e})
    BY InsertMembers
  <1> QED
    BY <1>1, <1>2 DEF Same

LEMMA ViewTwice ==
  ASSUME NEW entries, NEW content
  PROVE  View(entries, View(entries, content)) = View(entries, content)
  <1>1. \A x \in Adds(entries) : x.key \in KeysOf(entries)
    BY KeysAre DEF Adds
  <1> QED
    BY <1>1 DEF View

(* A write shows for its own key only. *)
LEMMA ShownInsert ==
  ASSUME NEW view, IsList(view), NEW e \in Entries, NEW after,
         after = {x \in view : x.key # e.key} \cup Adds({e}), NEW vs, NEW key
  PROVE  Shown(vs, after, key) =
           IF key # e.key THEN Shown(vs, view, key)
           ELSE IF e.opt = "ADD" THEN ReadValue(vs, e.off) ELSE None
  <1>1. \A x : x \in after <=> (x \in view /\ x.key # e.key) \/ (x = e /\ e.opt = "ADD")
    BY DEF Adds
  <1>2. IsList(after)
    <2>1. after \subseteq Insert(view, e)
      BY <1>1 DEF Insert
    <2> QED
      BY <2>1, InsertIs, SublistsAre
  <1>3. CASE key # e.key
    <2>1. \A x : x.key = key => (x \in after <=> x \in view)
      BY <1>1, <1>3
    <2>2. CASE \E x \in view : x.key = key
      <3>1. PICK x \in view : x.key = key
        BY <2>2
      <3>2. OffOf(view, key) = x.off /\ OffOf(after, key) = x.off /\ x \in after
        BY <1>2, <2>1, <3>1, OffOfIs
      <3> QED
        BY <1>3, <3>1, <3>2 DEF Shown
    <2>3. CASE ~ \E x \in view : x.key = key
      BY <1>3, <2>1, <2>3 DEF Shown
    <2> QED
      BY <2>2, <2>3
  <1>4. CASE key = e.key /\ e.opt = "ADD"
    <2>1. e \in after /\ OffOf(after, key) = e.off
      BY <1>1, <1>2, <1>4, OffOfIs
    <2> QED
      BY <1>4, <2>1 DEF Shown
  <1>5. CASE key = e.key /\ e.opt # "ADD"
    BY <1>1, <1>5 DEF Shown
  <1> QED
    BY <1>3, <1>4, <1>5

-----------------------------------------------------------------------------
(* The value file does not outgrow an offset. *)

LEMMA PowerGrows ==
  ASSUME NEW n \in Nat
  PROVE  n < Power[n]
  <1>1. PICK T : T = {m \in Nat : m < Power[m]}
    OBVIOUS
  <1>2. 0 \in T
    BY <1>1, PowerIs
  <1>3. ASSUME NEW m \in Nat, m \in T PROVE m + 1 \in T
    <2>1. PICK p : p = Power[m]
      OBVIOUS
    <2>2. p \in Nat /\ m + 1 <= p /\ p >= 1 /\ Power[m + 1] = Base * p
      BY <1>1, <1>3, <2>1, PowerIs
    <2>3. Base * p >= 2 * p
      BY <2>2, Sizes
    <2>4. m + 1 < 2 * p
      BY <2>2
    <2>5. m + 1 < Power[m + 1] /\ m + 1 \in Nat
      BY <2>2, <2>3, <2>4, Sizes
    <2> QED
      BY <1>1, <2>5
  <1>4. Nat \subseteq T
    BY <1>2, <1>3, Induction
  <1> QED
    BY <1>1, <1>4

Half == Power[LongSize] \div 2

IsValueSize(n) ==
  /\ n \in Nat /\ \A s \in Values : IntSize + Len(s) <= n
  /\ \A m \in Nat : m = MaxWrites * n => IntSize + m <= Half
ValueSize == CHOOSE n : IsValueSize(n)

LEMMA HalfIs ==
  /\ Half \in Nat /\ IntSize <= Half /\ Half < Power[LongSize] /\ \A off \in 0 .. Half : off \in Longs
  /\ \A off \in Nat : IsNegative(off) <=> off >= Half
  <1>1. PICK p : p = Power[LongSize]
    OBVIOUS
  <1>2. p \in Nat /\ LongSize < p /\ LongSize = IntSize + IntSize /\ IntSize \in Nat \ {0}
    BY <1>1, Sizes, PowerIs, PowerGrows
  <1>3. p \div 2 \in Nat /\ IntSize <= p \div 2 /\ p \div 2 < p
    BY <1>2
  <1>4. \A off \in 0 .. p \div 2 : off \in 0 .. p - 1
    BY <1>2, <1>3
  <1> QED
    BY <1>1, <1>3, <1>4 DEF Half, Longs, IsNegative

LEMMA ValueSizeIs == IsValueSize(ValueSize)
  <1>1. PICK T : T = {n \in Nat : \A s \in Values : IntSize + Len(s) <= n}
    OBVIOUS
  <1>0. PICK int, p : int = IntSize /\ p = Power[int]
    OBVIOUS
  <1>2. /\ int \in Nat /\ p \in Nat
        /\ \A s \in Values : Len(s) \in Nat /\ int + Len(s) \in Nat /\ int + Len(s) <= int + p
    <2>1. int \in Nat
      BY <1>0, Sizes
    <2>2. p \in Nat
      BY <1>0, <2>1, PowerIs
    <2>3. \A s \in Values : Len(s) \in Nat /\ Len(s) < p
      BY <1>0, ValueBytesAre
    <2> QED
      BY <2>1, <2>2, <2>3
  <1>3. int + p \in T
    BY <1>0, <1>1, <1>2
  <1>4. T \subseteq Nat /\ T # {}
    BY <1>1, <1>3
  <1>5. PICK n \in T : \A m \in T : n <= m
    BY <1>4, LeastElement
  <1>6. n \in Nat /\ \A s \in Values : IntSize + Len(s) <= n
    BY <1>1, <1>5
  <1>7. CASE n = 0
    <2>1. MaxWrites * n = 0
      BY <1>7, DiskAssumption
    <2>2. IntSize + 0 <= Half
      BY HalfIs, Sizes
    <2> QED
      BY <1>6, <2>1, <2>2 DEF IsValueSize, ValueSize
  <1>8. CASE n # 0
    <2>1. n - 1 \in Nat /\ ~ (n <= n - 1)
      BY <1>6, <1>8
    <2>2. n - 1 \notin T
      BY <1>5, <2>1
    <2>3. PICK s \in Values : ~ (IntSize + Len(s) <= n - 1)
      BY <1>1, <2>1, <2>2
    <2>4. IntSize + Len(s) = n
      BY <1>0, <1>2, <1>6, <2>3
    <2>5. IntSize + MaxWrites * n <= Half
      BY <2>4, DiskAssumption DEF Half
    <2>6. IsValueSize(n)
      BY <1>6, <2>5 DEF IsValueSize
    <2> QED
      BY <2>6 DEF ValueSize
  <1> QED
    BY <1>7, <1>8

(* The length of the file that so many values make. *)
Bound(k) == IntSize + k * ValueSize

BoundsAre ==
  /\ ValueSize \in Nat /\ Bound(0) = IntSize
  /\ \A k \in Nat : Bound(k) \in Nat /\ Bound(k) >= IntSize /\ Bound(k + 1) = Bound(k) + ValueSize
  /\ \A k \in 0 .. MaxWrites : Bound(k) <= Half

LEMMA Bounds == BoundsAre
  <1>1. PICK size : size = ValueSize
    OBVIOUS
  <1>2. size \in Nat /\ \A m \in Nat : m = MaxWrites * size => IntSize + m <= Half
    BY <1>1, ValueSizeIs DEF IsValueSize
  <1>3. PICK mult : mult = [k \in Nat |-> k * size]
    OBVIOUS
  <1>4. AreMultiples(mult, size)
    BY <1>2, <1>3, MultiplesAre
  <1>5. /\ mult[0] = 0
        /\ \A k \in Nat : mult[k] \in Nat /\ mult[k + 1] = mult[k] + size
        /\ \A j, k \in Nat : j < k => mult[j] + size <= mult[k]
    BY <1>4 DEF AreMultiples
  <1>6. \A k \in Nat : Bound(k) = IntSize + mult[k]
    BY <1>1, <1>3 DEF Bound
  <1>7. \A k \in Nat : Bound(k) \in Nat /\ Bound(k) >= IntSize /\ Bound(k + 1) = Bound(k) + size
    <2> SUFFICES ASSUME NEW k \in Nat
                 PROVE  Bound(k) \in Nat /\ Bound(k) >= IntSize /\ Bound(k + 1) = Bound(k) + size
      OBVIOUS
    <2>1. mult[k] \in Nat /\ mult[k + 1] = mult[k] + size /\ k + 1 \in Nat
      BY <1>5
    <2>2. Bound(k) = IntSize + mult[k] /\ Bound(k + 1) = IntSize + mult[k + 1]
      BY <1>6, <2>1
    <2>3. IntSize \in Nat
      BY Sizes
    <2> QED
      BY <1>2, <2>1, <2>2, <2>3
  <1>8. MaxWrites \in Nat /\ IntSize + mult[MaxWrites] <= Half
    <2>1. MaxWrites \in Nat
      BY DiskAssumption
    <2>2. mult[MaxWrites] = MaxWrites * size /\ mult[MaxWrites] \in Nat
      BY <1>3, <1>5, <2>1
    <2> QED
      BY <1>2, <2>1, <2>2
  <1>9. ASSUME NEW k \in 0 .. MaxWrites PROVE Bound(k) <= Half
    <2>1. mult[k] <= mult[MaxWrites]
      <3>1. CASE k = MaxWrites
        BY <1>5, <1>8, <3>1
      <3>2. CASE k # MaxWrites
        <4>1. k \in Nat /\ k < MaxWrites
          BY <1>8, <3>2
        <4>2. mult[k] + size <= mult[MaxWrites] /\ mult[k] \in Nat /\ mult[MaxWrites] \in Nat
          BY <1>5, <1>8, <4>1
        <4> QED
          BY <1>2, <4>2
      <3> QED
        BY <3>1, <3>2
    <2>2. k \in Nat /\ mult[k] \in Nat /\ mult[MaxWrites] \in Nat
      BY <1>5, <1>8
    <2> QED
      BY <1>6, <1>8, <2>1, <2>2, Sizes, HalfIs
  <1>10. Bound(0) = IntSize
    BY <1>5, <1>6, Sizes
  <1> QED
    BY <1>1, <1>2, <1>7, <1>9, <1>10 DEF BoundsAre

-----------------------------------------------------------------------------
(* The inductive invariant *)

(* Where the log has been read. *)
Later == {"merge", "remove", "next", "ready", "value", "log", "insert", "closed"}

TypeInv ==
  /\ values = None \/ values \in Seq(Byte)
  /\ log \in Seq(Byte)
  /\ files \in Seq(Mmaps)
  /\ pc \in {"down", "values", "magic"} \/ alloc = Len(values)
  /\ list \subseteq Entries
  /\ op \in [key : Keys \cup {None}, val : Values \cup {None}, off : Nat]
  /\ pc \in {"down", "values", "magic", "recover"} \cup Later \cup Hazards
  /\ cut \in BOOLEAN /\ writes \in 0 .. MaxWrites /\ stops \in 0 .. MaxStops

(* Nothing refers to a value file without its magic; its length.           *)
ValuesInv ==
  /\ values \in {None, <<>>} => log = <<>> /\ files = <<>>
  /\ pc \in {"recover"} \cup Later => values \notin {None, <<>>}
  /\ pc = "magic" => values = <<>>
  /\ pc = "value" => writes # 0
  /\ values # None => Len(values) <= Bound(IF pc = "value" THEN writes - 1 ELSE writes)

(* What the files and the log hold refers to values that are there. *)
RefersInv == values # None => AllRefer(values, Content(files)) /\ AllRefer(values, Adds(Replayed))

(* The memtable is what the log says. *)
ListInv ==
  /\ IsList(list)
  /\ pc \notin Later => list = {}
  /\ pc \in Later => IsRead(log)
  /\ pc \in Later \ {"insert"} => Same(list, Replayed)
  /\ pc = "insert" => Same(Insert(list, Entry(op.key, op.off, Opt)), Replayed)
  /\ pc = "next" => log = <<>>
  /\ pc \in {"remove", "closed"} => View(list, Content(files)) = Content(files)

(* The filter lets pass what is there. *)
Passes(bits, entries) == \A e \in entries : BitsOf(e.key) \subseteq bits

FilterInv ==
  /\ pc # "down" => Passes(filter, Content(files))
  /\ pc \in Later \ {"merge"} => Passes(filter, Adds(list))

(* The write at work. *)
OpInv ==
  /\ Writing => op.key \in Keys /\ op.off \in Longs
  /\ pc = "value" => op.off = alloc
  /\ pc \in {"log", "insert"} /\ op.val # None =>
       op.off # 0 /\ ~ IsNegative(op.off) /\ IsIn(ValueOf(op.val), values, op.off)
  /\ pc = "insert" /\ op.val # None => ~ IsWide(op.off)

Kept == ValuesInv /\ FilesOK(files) /\ RefersInv /\ ListInv /\ FilterInv /\ OpInv

Invariant == TypeInv /\ (pc \notin Hazards => Kept)

LEMMA NoFiles == FilesOK(<<>>) /\ Content(<<>>) = {}
  BY DEF FilesOK, Ascend, Content

LEMMA NoneIsNoBytes == None \notin Seq(Byte) /\ None \notin Keys /\ None \notin Values
  <1>1. None \notin Seq(Byte)
    BY DiskAssumption
  <1>2. Keys \subseteq Strings /\ Values \subseteq Strings
    BY DiskAssumption
  <1> QED
    BY <1>1, <1>2, StringBytes

LEMMA EmptyRefers == \A vs : AllRefer(vs, {})
  BY DEF AllRefer

LEMMA Begins ==
  ASSUME Init
  PROVE  Invariant
  <1>1. TypeInv
    <2>1. op \in [key : Keys \cup {None}, val : Values \cup {None}, off : Nat]
      BY DEF Init, NoOp
    <2>2. values = None /\ log \in Seq(Byte) /\ files \in Seq(Mmaps) /\ list \subseteq Entries
      BY DEF Init
    <2>3. cut \in BOOLEAN /\ writes \in 0 .. MaxWrites /\ stops \in 0 .. MaxStops
      <3>1. 0 \in 0 .. MaxWrites /\ 0 \in 0 .. MaxStops
        BY DiskAssumption
      <3> QED
        BY <3>1 DEF Init
    <2> QED
      BY <2>1, <2>2, <2>3 DEF Init, TypeInv
  <1>2. ValuesInv
    BY DEF Init, ValuesInv, Later
  <1>3. FilesOK(files)
    BY NoFiles DEF Init
  <1>4. ListInv
    BY EmptyList DEF Init, ListInv, Later
  <1>5. RefersInv /\ FilterInv /\ OpInv
    BY DEF Init, RefersInv, FilterInv, OpInv, Writing, Later
  <1> QED
    BY <1>1, <1>2, <1>3, <1>4, <1>5 DEF Invariant, Kept

LEMMA Hazardous ==
  ASSUME TypeInv', pc' \in Hazards
  PROVE  Invariant'
  BY DEF Invariant

(* After its end, what a process leaves is on disk. *)
LEMMA EndKeeps ==
  ASSUME TypeInv, EndProcess, log' \in Seq(Byte), values' = None \/ values' \in Seq(Byte),
         cut' \in BOOLEAN, writes' = writes, stops' \in 0 .. MaxStops,
         ValuesInv', FilesOK(files'), RefersInv'
  PROVE  Invariant'
  <1>1. TypeInv'
    <2>1. op' \in [key : Keys \cup {None}, val : Values \cup {None}, off : Nat] /\ list' \subseteq Entries
      BY DEF EndProcess, NoOp
    <2>2. files' \in Seq(Mmaps)
      BY DEF FilesOK
    <2> QED
      BY <2>1, <2>2 DEF EndProcess, TypeInv
  <1>2. ListInv'
    BY EmptyList DEF EndProcess, ListInv, Later
  <1>3. FilterInv' /\ OpInv'
    BY DEF EndProcess, FilterInv, OpInv, Writing, Later
  <1> QED
    BY <1>1, <1>2, <1>3 DEF Invariant, Kept

LEMMA RefersStays ==
  ASSUME RefersInv, UNCHANGED disk
  PROVE  RefersInv'
  BY DEF RefersInv, disk, Replayed

LEMMA StartKeeps ==
  ASSUME Invariant, Start
  PROVE  Invariant'
  <1>1. TypeInv /\ Kept /\ pc = "down" /\ pc' = "values" /\ UNCHANGED <<disk, alloc, list, op, history>>
    BY DEF Invariant, Start, Hazards
  <1>2. TypeInv'
    BY <1>1 DEF TypeInv, disk, history
  <1>3. ValuesInv' /\ FilesOK(files')
    BY <1>1 DEF Kept, ValuesInv, disk, history, Later
  <1>4. RefersInv'
    BY <1>1, RefersStays DEF Kept
  <1>5. ListInv'
    BY <1>1 DEF Kept, ListInv, Later
  <1>6. FilterInv'
    <2>1. ASSUME NEW e \in Content(files) PROVE BitsOf(e.key) \subseteq BitsOfAll(LoadedOf(files))
      <3>1. PICK i \in DOMAIN files : e \in ReadMmap(files[i])
        BY DEF Content
      <3>2. e.key \in KeysOf(ReadMmap(files[i]))
        BY <3>1, KeysAre
      <3>3. e.key \in LoadedOf(files)
        BY <3>2 DEF LoadedOf
      <3> QED
        BY <3>3 DEF BitsOfAll
    <2>2. filter' = BitsOfAll(LoadedOf(files)) /\ files' = files
      BY <1>1 DEF Start, disk
    <2>3. Passes(filter', Content(files'))
      BY <2>1, <2>2 DEF Passes
    <2> QED
      BY <1>1, <2>3 DEF FilterInv, Later
  <1>7. OpInv'
    BY <1>1 DEF OpInv, Writing
  <1> QED
    BY <1>2, <1>3, <1>4, <1>5, <1>6, <1>7 DEF Invariant, Kept

LEMMA OpenValuesKeeps ==
  ASSUME Invariant, OpenValues
  PROVE  Invariant'
  <1>1. /\ TypeInv /\ Kept /\ pc = "values"
        /\ UNCHANGED <<log, files, list, filter, op, history>>
    BY DEF Invariant, OpenValues, Hazards
  <1>2. FilesOK(files')
    BY <1>1 DEF Kept
  <1>3. CASE values = None
    <2>1. values' = <<>> /\ pc' = "magic" /\ alloc' = alloc /\ log = <<>> /\ files = <<>>
      BY <1>1, <1>3 DEF OpenValues, Kept, ValuesInv
    <2>2. TypeInv'
      BY <1>1, <2>1 DEF TypeInv, history
    <2>3. ValuesInv'
      <3>1. writes \in Nat /\ writes' = writes
        BY <1>1 DEF TypeInv, history
      <3>2. Len(values') <= Bound(writes')
        BY <2>1, <3>1, Bounds DEF BoundsAre
      <3> QED
        BY <1>1, <2>1, <3>2 DEF ValuesInv, Later
    <2>4. RefersInv'
      <3>1. files' = <<>> /\ log' = <<>>
        BY <1>1, <2>1
      <3>2. LogRead(log').list = {} /\ Content(files') = {}
        BY <3>1, NoFiles, EmptyLog
      <3>3. Adds(LogRead(log').list) = {}
        BY <3>2, EmptyList
      <3> QED
        BY <3>2, <3>3, EmptyRefers DEF RefersInv, Replayed
    <2>5. ListInv'
      BY <1>1, <2>1 DEF Kept, ListInv, Later
    <2>6. FilterInv'
      BY <1>1, <2>1 DEF Kept, FilterInv, Later
    <2>7. OpInv'
      BY <2>1 DEF OpInv, Writing
    <2> QED
      BY <1>2, <2>2, <2>3, <2>4, <2>5, <2>6, <2>7 DEF Invariant, Kept
  <1>4. CASE values # None
    <2>1. /\ values' = values /\ alloc' = Len(values)
          /\ pc' = IF values = <<>> THEN "nomagic" ELSE "recover"
      BY <1>1, <1>4 DEF OpenValues, SeekEnd
    <2>2. TypeInv'
      BY <1>1, <2>1 DEF TypeInv, history, Hazards
    <2>3. CASE values = <<>>
      BY <2>1, <2>2, <2>3, Hazardous DEF Hazards
    <2>4. CASE values # <<>>
      <3>1. pc' = "recover" /\ UNCHANGED disk
        BY <1>1, <2>1, <2>4 DEF disk
      <3>2. ValuesInv'
        BY <1>1, <1>4, <2>1, <2>4, <3>1 DEF Kept, ValuesInv, history
      <3>3. RefersInv'
        BY <1>1, <3>1, RefersStays DEF Kept
      <3>4. ListInv'
        BY <1>1, <3>1 DEF Kept, ListInv, Later
      <3>5. FilterInv'
        BY <1>1, <3>1 DEF Kept, FilterInv, Later
      <3>6. OpInv'
        BY <3>1 DEF OpInv, Writing
      <3> QED
        BY <1>2, <2>2, <3>2, <3>3, <3>4, <3>5, <3>6 DEF Invariant, Kept
    <2> QED
      BY <2>3, <2>4
  <1> QED
    BY <1>3, <1>4

LEMMA MagicIs == Magic \in Seq(Byte) /\ Len(Magic) = IntSize /\ Magic # <<>> /\ Magic # None
  <1>1. PICK n : n = IntSize
    OBVIOUS
  <1>2. n \in Nat \ {0} /\ NUL \in Byte
    BY <1>1, Sizes DEF NUL
  <1>3. [i \in 1 .. n |-> NUL] \in Seq(Byte) /\ Len([i \in 1 .. n |-> NUL]) = n
    BY <1>2
  <1>4. Magic \in Seq(Byte) /\ Len(Magic) = n
    BY <1>1, <1>3 DEF Magic
  <1> QED
    BY <1>1, <1>2, <1>4, NoneIsNoBytes

LEMMA WriteMagicKeeps ==
  ASSUME Invariant, WriteMagic
  PROVE  Invariant'
  <1>1. /\ TypeInv /\ Kept /\ pc = "magic" /\ values' = Magic /\ alloc' = IntSize /\ pc' = "recover"
        /\ UNCHANGED <<log, files, list, filter, op, history>>
    BY DEF Invariant, WriteMagic, Hazards
  <1>2. log = <<>> /\ files = <<>>
    BY <1>1 DEF Kept, ValuesInv
  <1>3. TypeInv'
    BY <1>1, MagicIs DEF TypeInv, history
  <1>4. ValuesInv'
    <2>1. writes \in Nat /\ writes' = writes
      BY <1>1 DEF TypeInv, history
    <2>2. Len(values') <= Bound(writes')
      BY <1>1, <2>1, Bounds, MagicIs, Sizes DEF BoundsAre
    <2> QED
      BY <1>1, <2>2, MagicIs DEF ValuesInv
  <1>5. RefersInv'
    <2>1. Content(files') = {} /\ Adds(LogRead(log').list) = {}
      BY <1>1, <1>2, NoFiles, EmptyLog, EmptyList, SMTT(30)
    <2> QED
      BY <2>1, EmptyRefers DEF RefersInv, Replayed
  <1>6. ListInv' /\ FilesOK(files')
    BY <1>1 DEF Kept, ListInv, Later
  <1>7. FilterInv' /\ OpInv'
    BY <1>1 DEF Kept, FilterInv, OpInv, Writing, Later
  <1> QED
    BY <1>3, <1>4, <1>5, <1>6, <1>7 DEF Invariant, Kept

LEMMA LogRecoveryKeeps ==
  ASSUME Invariant, LogRecovery
  PROVE  Invariant'
  <1>1. TypeInv /\ Kept /\ pc = "recover" /\ list = {} /\ UNCHANGED <<disk, history>>
    BY DEF Invariant, LogRecovery, Hazards, Kept, ListInv, Later
  <1>2. \/ log = <<>> /\ pc' = "next" /\ UNCHANGED process
        \/ pc' = "torn" /\ UNCHANGED process
        \/ ~ IsTorn /\ list' = Replayed /\ pc' = "merge" /\ UNCHANGED <<alloc, filter, op>>
    BY DEF LogRecovery
  <1>3. log \in Seq(Byte) /\ LogRead(log) \in Loop(log) /\ IsList(Replayed)
    BY <1>1, LogReadIs DEF TypeInv, Replayed
  <1>4. TypeInv'
    <2>1. list' \subseteq Entries /\ UNCHANGED <<alloc, op>>
      BY <1>1, <1>2, <1>3 DEF process, IsList
    <2> QED
      BY <1>1, <1>2, <2>1 DEF TypeInv, disk, history, Hazards, Later
  <1>5. CASE pc' = "torn"
    BY <1>4, <1>5, Hazardous DEF Hazards
  <1>6. CASE pc' # "torn"
    <2>1. ValuesInv' /\ FilesOK(files')
      BY <1>1, <1>2, <1>6 DEF Kept, ValuesInv, disk, history, Later
    <2>2. RefersInv'
      BY <1>1, RefersStays DEF Kept
    <2>3. ListInv'
      <3>1. CASE pc' = "next"
        <4>1. list' = {} /\ log' = <<>>
          BY <1>1, <1>2, <3>1 DEF process, disk
        <4>2. IsRead(<<>>) /\ LogRead(<<>>).list = {}
          BY EmptyLog DEF IsRead
        <4> QED
          BY <3>1, <4>1, <4>2, EmptyList DEF ListInv, Later, Same, Replayed
      <3>2. CASE pc' # "next"
        <4>1. list' = Replayed /\ pc' = "merge" /\ ~ IsTorn /\ log' = log
          BY <1>1, <1>2, <1>6, <3>2 DEF disk
        <4>2. IsRead(log)
          BY <4>1 DEF IsTorn, IsRead
        <4> QED
          BY <1>3, <4>1, <4>2 DEF ListInv, Later, Same, Replayed
      <3> QED
        BY <3>1, <3>2
    <2>4. FilterInv'
      <3>1. Passes(filter', Content(files'))
        BY <1>1, <1>2 DEF Kept, FilterInv, disk, process
      <3>2. pc' = "next" => Adds(list') = {}
        BY <1>1, <1>2, EmptyList DEF process
      <3>3. Passes(filter', {})
        BY DEF Passes
      <3> QED
        BY <1>2, <1>6, <3>1, <3>2, <3>3 DEF FilterInv
    <2>5. OpInv'
      BY <1>2, <1>6 DEF OpInv, Writing
    <2> QED
      BY <1>4, <2>1, <2>2, <2>3, <2>4, <2>5 DEF Invariant, Kept
  <1> QED
    BY <1>5, <1>6

LEMMA RemoveLogKeeps ==
  ASSUME Invariant, RemoveLog
  PROVE  Invariant'
  <1>1. /\ TypeInv /\ Kept /\ pc = "remove" /\ log' = <<>> /\ list' = {} /\ pc' = "next"
        /\ UNCHANGED <<values, files, alloc, filter, op, history>>
    BY DEF Invariant, RemoveLog, Hazards
  <1>2. IsRead(log') /\ LogRead(log').list = {} /\ Adds(list') = {} /\ IsList(list')
    BY <1>1, EmptyLog, EmptyList DEF IsRead
  <1>3. TypeInv'
    BY <1>1 DEF TypeInv, history, Later
  <1>4. ValuesInv' /\ FilesOK(files')
    BY <1>1 DEF Kept, ValuesInv, history, Later
  <1>5. RefersInv'
    BY <1>1, <1>2, EmptyList, EmptyRefers DEF Kept, RefersInv, Replayed
  <1>6. ListInv'
    BY <1>1, <1>2 DEF ListInv, Same, Replayed
  <1>7. FilterInv' /\ OpInv'
    BY <1>1, <1>2 DEF Kept, FilterInv, OpInv, Writing, Passes
  <1> QED
    BY <1>3, <1>4, <1>5, <1>6, <1>7 DEF Invariant, Kept

LEMMA LogNextKeeps ==
  ASSUME Invariant, LogNext
  PROVE  Invariant'
  <1>1. /\ TypeInv /\ Kept /\ pc = "next" /\ log' = <<>> /\ pc' = "ready"
        /\ UNCHANGED <<values, files, process, history>>
    BY DEF Invariant, LogNext, Hazards
  <1>2. log = <<>> /\ UNCHANGED disk
    BY <1>1 DEF Kept, ListInv, Later, disk
  <1>3. TypeInv'
    BY <1>1 DEF TypeInv, history, process, Later
  <1>4. ValuesInv' /\ FilesOK(files')
    BY <1>1, <1>2 DEF Kept, ValuesInv, history, Later
  <1>5. RefersInv'
    BY <1>1, <1>2, RefersStays DEF Kept
  <1>6. ListInv'
    BY <1>1, <1>2 DEF Kept, ListInv, Later, Replayed, process
  <1>7. FilterInv' /\ OpInv'
    BY <1>1 DEF Kept, FilterInv, OpInv, Writing, process, Later
  <1> QED
    BY <1>3, <1>4, <1>5, <1>6, <1>7 DEF Invariant, Kept

(* What a merge leaves in the table. *)
AfterMerge(next) ==
  /\ files' \in Seq(Mmaps) /\ pc' \in {next} \cup Hazards
  /\ pc' \notin Hazards => pc' = next /\ FilesOK(files') /\ Content(files') = View(list, Content(files))

(* What silopit_merge leaves, if it meets no event. *)
LEMMA MergeStep ==
  ASSUME TypeInv, Kept, values # None, Same(list, Replayed), NEW next, SilopitMerge(list, next)
  PROVE  AfterMerge(next)
  <1>1. FilesOK(files) /\ IsList(list) /\ files \in Seq(Mmaps)
    BY DEF Kept, ListInv, TypeInv
  <1>2. NotWide(Adds(list)) /\ NotWide(Content(files))
    BY DEF Kept, RefersInv, AllRefer, Refers, NotWide, Same
  <1>3. CASE pc' = "alldel" /\ UNCHANGED files
    BY <1>1, <1>3 DEF AfterMerge, Hazards
  <1>4. CASE pc' = "tail" /\ UNCHANGED files
    BY <1>1, <1>4 DEF AfterMerge, Hazards
  <1>5. CASE /\ \A chunk \in Chunks(list) : Adds(chunk) # {}
             /\ Beyond(list) \in {{}, list}
             /\ files' = Merged(list)
             /\ pc' = IF \E chunk \in Chunks(list) : IsUneven(chunk) THEN "uneven" ELSE next
    <2>1. files' \in Seq(Mmaps)
      BY <1>1, <1>5, MergedTyped
    <2>2. CASE \E chunk \in Chunks(list) : IsUneven(chunk)
      BY <1>5, <2>1, <2>2 DEF AfterMerge, Hazards
    <2>3. CASE ~ \E chunk \in Chunks(list) : IsUneven(chunk)
      <3>1. FilesOK(files') /\ Content(files') = View(list, Content(files))
        BY <1>1, <1>2, <1>5, <2>3, MergedIs
      <3> QED
        BY <1>5, <2>1, <2>3, <3>1 DEF AfterMerge
    <2> QED
      BY <2>2, <2>3
  <1> QED
    BY <1>3, <1>4, <1>5 DEF SilopitMerge

LEMMA ViewMembers ==
  ASSUME NEW entries, NEW content
  PROVE  View(entries, content) \subseteq content \cup Adds(entries)
  BY DEF View

LEMMA MergeKeeps ==
  ASSUME Invariant, pc \in {"merge", "ready"}, NEW next \in {"remove", "closed"}, SilopitMerge(list, next),
         UNCHANGED <<values, log, alloc, list, op, cut, writes>>, stops' \in 0 .. MaxStops,
         filter \subseteq filter', Passes(filter', Adds(list))
  PROVE  Invariant'
  <1>1. TypeInv /\ Kept
    BY DEF Invariant, Hazards
  <1>2. values \notin {None, <<>>} /\ Same(list, Replayed) /\ IsList(list) /\ IsRead(log)
    BY <1>1 DEF Kept, ValuesInv, ListInv, Later
  <1>3. AfterMerge(next)
    BY <1>1, <1>2, MergeStep
  <1>4. TypeInv'
    BY <1>1, <1>3 DEF TypeInv, AfterMerge, Later
  <1>5. CASE pc' \in Hazards
    BY <1>4, <1>5, Hazardous
  <1>6. CASE pc' \notin Hazards
    <2>1. pc' = next /\ FilesOK(files') /\ Content(files') = View(list, Content(files))
      BY <1>3, <1>6 DEF AfterMerge
    <2>2. \A e \in Content(files') : e \in Content(files) \/ e \in Adds(list)
      BY <2>1, ViewMembers
    <2>3. ValuesInv'
      BY <1>1, <1>2, <2>1 DEF Kept, ValuesInv
    <2>4. RefersInv'
      <3>1. AllRefer(values, Content(files)) /\ AllRefer(values, Adds(Replayed)) /\ Adds(list) = Adds(Replayed)
        BY <1>1, <1>2 DEF Kept, RefersInv, Same
      <3>2. AllRefer(values, Content(files'))
        BY <2>2, <3>1 DEF AllRefer
      <3> QED
        BY <3>1, <3>2 DEF RefersInv, Replayed
    <2>5. ListInv'
      <3>1. View(list, Content(files')) = Content(files')
        BY <2>1, ViewTwice
      <3> QED
        BY <1>2, <2>1, <3>1 DEF ListInv, Later, Replayed
    <2>6. FilterInv'
      <3>1. Passes(filter, Content(files))
        BY <1>1 DEF Kept, FilterInv
      <3>2. Passes(filter', Content(files'))
        BY <2>2, <3>1 DEF Passes
      <3> QED
        BY <3>2 DEF FilterInv
    <2>7. OpInv'
      BY <2>1 DEF OpInv, Writing
    <2> QED
      BY <1>4, <2>1, <2>3, <2>4, <2>5, <2>6, <2>7 DEF Invariant, Kept
  <1> QED
    BY <1>5, <1>6

LEMMA MergeRecoveredKeeps ==
  ASSUME Invariant, MergeRecovered
  PROVE  Invariant'
  <1>1. /\ pc = "merge" /\ filter' = filter \cup BitsOfAll(KeysOf(Adds(list)))
        /\ SilopitMerge(list, "remove") /\ UNCHANGED <<values, log, alloc, list, op, history>>
    BY DEF MergeRecovered
  <1>2. stops' \in 0 .. MaxStops /\ UNCHANGED <<cut, writes>>
    BY <1>1 DEF Invariant, TypeInv, history
  <1>3. Passes(filter', Adds(list))
    BY <1>1, KeysAre DEF Passes, BitsOfAll
  <1>4. filter \subseteq filter'
    BY <1>1
  <1> QED
    BY <1>1, <1>2, <1>3, <1>4, MergeKeeps

LEMMA NextStop ==
  ASSUME TypeInv, stops < MaxStops, stops' = stops + 1
  PROVE  stops' \in 0 .. MaxStops
  BY DiskAssumption DEF TypeInv

(* The length of the value file, wherever the process stops. *)
LEMMA LengthStays ==
  ASSUME TypeInv, ValuesInv, values # None
  PROVE  Len(values) \in Nat /\ Len(values) <= Bound(writes)
  <1>1. Len(values) \in Nat /\ writes \in Nat
    BY DEF TypeInv
  <1>2. CASE pc # "value"
    BY <1>1, <1>2 DEF ValuesInv
  <1>3. CASE pc = "value"
    <2>1. writes - 1 \in Nat /\ writes = (writes - 1) + 1 /\ Len(values) <= Bound(writes - 1)
      BY <1>1, <1>3 DEF ValuesInv
    <2>2. Bound(writes) = Bound(writes - 1) + ValueSize /\ Bound(writes - 1) \in Nat /\ ValueSize \in Nat
      BY <2>1, Bounds DEF BoundsAre
    <2> QED
      BY <1>1, <2>1, <2>2
  <1> QED
    BY <1>2, <1>3

LEMMA EndsHere ==
  ASSUME Invariant, pc \notin Hazards, EndProcess, stops' \in 0 .. MaxStops, UNCHANGED <<disk, cut, writes>>
  PROVE  Invariant'
  <1>1. TypeInv /\ Kept
    BY DEF Invariant
  <1>2. ValuesInv'
    <2>1. values # None => Len(values) <= Bound(writes)
      BY <1>1, LengthStays DEF Kept
    <2> QED
      BY <1>1, <2>1 DEF Kept, ValuesInv, EndProcess, disk, Later
  <1>3. RefersInv'
    BY <1>1, RefersStays DEF Kept
  <1>4. FilesOK(files') /\ log' \in Seq(Byte) /\ (values' = None \/ values' \in Seq(Byte)) /\ cut' \in BOOLEAN /\ writes' = writes
    BY <1>1 DEF Kept, TypeInv, disk
  <1> QED
    BY <1>1, <1>2, <1>3, <1>4, EndKeeps

LEMMA DieKeeps ==
  ASSUME Invariant, Die
  PROVE  Invariant'
  <1>1. pc \notin Hazards /\ stops < MaxStops /\ EndProcess /\ stops' = stops + 1 /\ UNCHANGED <<disk, cut, writes>>
    BY DEF Die
  <1>2. stops' \in 0 .. MaxStops
    BY <1>1, NextStop DEF Invariant
  <1> QED
    BY <1>1, <1>2, EndsHere

LEMMA CloseKeeps ==
  ASSUME Invariant, Close
  PROVE  Invariant'
  <1>1. /\ pc = "ready" /\ stops < MaxStops /\ stops' = stops + 1 /\ UNCHANGED <<values, log, cut, writes>>
        /\ \/ EndProcess /\ UNCHANGED files
           \/ SilopitMerge(list, "closed") /\ UNCHANGED <<alloc, list, filter, op>>
    BY DEF Close
  <1>2. stops' \in 0 .. MaxStops /\ pc \notin Hazards
    BY <1>1, NextStop DEF Invariant, Hazards
  <1>3. CASE EndProcess /\ UNCHANGED files
    BY <1>1, <1>2, <1>3, EndsHere DEF disk
  <1>4. CASE SilopitMerge(list, "closed") /\ UNCHANGED <<alloc, list, filter, op>>
    <2>1. Passes(filter, Adds(list))
      BY <1>1, <1>2 DEF Invariant, Kept, FilterInv, Later
    <2> QED
      BY <1>1, <1>2, <1>4, <2>1, MergeKeeps
  <1> QED
    BY <1>1, <1>3, <1>4

LEMMA ClosedKeeps ==
  ASSUME Invariant, Closed
  PROVE  Invariant'
  <1>1. /\ TypeInv /\ Kept /\ pc = "closed" /\ log' = <<>> /\ EndProcess /\ UNCHANGED <<values, files, history>>
    BY DEF Invariant, Closed, Hazards
  <1>2. ValuesInv'
    <2>1. values # None => Len(values) <= Bound(writes)
      BY <1>1, LengthStays DEF Kept
    <2> QED
      BY <1>1, <2>1 DEF Kept, ValuesInv, EndProcess, history, Later
  <1>3. Adds(LogRead(log').list) = {}
    BY <1>1, EmptyLog, EmptyList
  <1>4. RefersInv'
    BY <1>1, <1>3, EmptyRefers DEF Kept, RefersInv, Replayed
  <1>5. /\ FilesOK(files') /\ log' \in Seq(Byte) /\ (values' = None \/ values' \in Seq(Byte))
        /\ cut' \in BOOLEAN /\ writes' = writes /\ stops' \in 0 .. MaxStops
    BY <1>1 DEF Kept, TypeInv, history
  <1> QED
    BY <1>1, <1>2, <1>4, <1>5, EndKeeps

LEMMA AddKeeps ==
  ASSUME Invariant, NEW key \in Keys, NEW val \in Values \cup {None}, Add(key, val)
  PROVE  Invariant'
  <1>1. /\ TypeInv /\ Kept /\ pc = "ready" /\ writes < MaxWrites
        /\ op' = [key |-> key, val |-> val, off |-> alloc] /\ writes' = writes + 1 /\ pc' = "value"
        /\ UNCHANGED <<disk, alloc, list, filter, cut, stops>>
    BY DEF Invariant, Add, Hazards
  <1>2. values \notin {None, <<>>} /\ alloc = Len(values) /\ writes \in Nat /\ writes' \in 0 .. MaxWrites
    BY <1>1, DiskAssumption DEF Kept, ValuesInv, Later, TypeInv
  <1>3. Len(values) \in Nat /\ Len(values) <= Bound(writes)
    BY <1>1, <1>2, LengthStays DEF Kept
  <1>4. alloc \in Longs /\ alloc \in Nat
    <2>1. Bound(writes) \in Nat /\ Bound(writes) <= Half /\ Half \in Nat
      <3>1. writes \in 0 .. MaxWrites
        BY <1>1 DEF TypeInv
      <3> QED
        BY <1>2, <3>1, Bounds, HalfIs DEF BoundsAre
    <2>2. alloc \in 0 .. Half
      BY <1>2, <1>3, <2>1
    <2> QED
      BY <1>2, <1>3, <2>2, HalfIs
  <1>5. TypeInv'
    <2>1. op' \in [key : Keys \cup {None}, val : Values \cup {None}, off : Nat]
      BY <1>1, <1>4
    <2> QED
      BY <1>1, <1>2, <2>1 DEF TypeInv, disk, Later
  <1>6. ValuesInv' /\ FilesOK(files')
    <2>1. writes' # 0 /\ writes' - 1 = writes
      BY <1>1, <1>2
    <2> QED
      BY <1>1, <1>2, <1>3, <2>1 DEF Kept, ValuesInv, disk
  <1>7. RefersInv'
    BY <1>1, RefersStays DEF Kept
  <1>8. ListInv'
    BY <1>1 DEF Kept, ListInv, Later, Replayed, disk
  <1>9. FilterInv'
    BY <1>1 DEF Kept, FilterInv, Later, disk
  <1>10. OpInv'
    BY <1>1, <1>4 DEF OpInv, Writing
  <1> QED
    BY <1>5, <1>6, <1>7, <1>8, <1>9, <1>10 DEF Invariant, Kept

(* What a write puts behind the value file. *)
ValueBytesOK ==
  /\ ValueBytes \in Seq(Byte) /\ Len(ValueBytes) \in Nat /\ Len(ValueBytes) <= ValueSize
  /\ op.val # None => op.val \in Values /\ ValueBytes = ValueOf(op.val) /\ Len(ValueBytes) >= IntSize

LEMMA ValueBytesFit ==
  ASSUME TypeInv
  PROVE  ValueBytesOK
  <1>1. op.val \in Values \cup {None} /\ ValueSize \in Nat /\ IntSize \in Nat
    BY Bounds, Sizes DEF TypeInv, BoundsAre
  <1>2. CASE op.val = None
    <2>1. ValueBytes = <<>>
      BY <1>2 DEF ValueBytes
    <2> QED
      BY <1>1, <1>2, <2>1 DEF ValueBytesOK
  <1>3. CASE op.val # None
    <2>1. PICK v : v = op.val
      OBVIOUS
    <2>2. v \in Values /\ ValueBytes = ValueOf(v)
      BY <1>1, <1>3, <2>1 DEF ValueBytes, ValueOf
    <2>3. ValueOf(v) \in Seq(Byte) /\ Len(ValueOf(v)) = IntSize + Len(v) /\ Len(v) \in Nat
      BY <2>2, ValueBytesAre
    <2>4. IntSize + Len(v) <= ValueSize
      BY <2>2, ValueSizeIs DEF IsValueSize
    <2> QED
      BY <1>1, <2>1, <2>2, <2>3, <2>4 DEF ValueBytesOK
  <1> QED
    BY <1>2, <1>3

(* More bytes in the value file take nothing away. *)
LEMMA RefersMore ==
  ASSUME RefersInv, values \in Seq(Byte), files \in Seq(Mmaps), FilesOK(files), log \in Seq(Byte),
         NEW u \in Seq(Byte), values' = values \o u, UNCHANGED <<log, files>>
  PROVE  RefersInv'
  <1>1. AllRefer(values, Content(files)) /\ AllRefer(values, Adds(Replayed))
    BY NoneIsNoBytes DEF RefersInv
  <1>2. IsList(Content(files)) /\ IsList(Adds(Replayed))
    BY ContentIs, LogReadIs, AddsAre DEF Replayed
  <1>3. AllRefer(values \o u, Content(files)) /\ AllRefer(values \o u, Adds(Replayed))
    BY <1>1, <1>2, StillRefers
  <1> QED
    BY <1>3 DEF RefersInv, Replayed

LEMMA ValuesMore ==
  ASSUME TypeInv, ValuesInv, pc = "value", NEW u \in Seq(Byte), Len(u) <= ValueSize, values' = values \o u
  PROVE  /\ values \in Seq(Byte) /\ values # <<>> /\ values' \in Seq(Byte) /\ values' \notin {None, <<>>}
         /\ Len(values') = Len(values) + Len(u) /\ Len(values') <= Bound(writes)
  <1>1. values \notin {None, <<>>} /\ values \in Seq(Byte)
    BY DEF ValuesInv, Later, TypeInv
  <1>2. values' \in Seq(Byte) /\ Len(values') = Len(values) + Len(u)
    BY <1>1, ConcatIs DEF IsJoin
  <1>3. writes - 1 \in Nat /\ writes = (writes - 1) + 1 /\ Len(values) <= Bound(writes - 1)
    BY <1>1 DEF ValuesInv, TypeInv
  <1>4. Bound(writes) = Bound(writes - 1) + ValueSize /\ Bound(writes - 1) \in Nat /\ ValueSize \in Nat
    BY <1>3, Bounds DEF BoundsAre
  <1>5. Len(values) \in Nat /\ Len(u) \in Nat /\ Len(values) # 0
    BY <1>1
  <1>6. Len(values') <= Bound(writes) /\ Len(values') # 0
    BY <1>2, <1>3, <1>4, <1>5
  <1>7. values' # <<>>
    BY <1>6
  <1> QED
    BY <1>1, <1>2, <1>6, <1>7, NoneIsNoBytes

LEMMA AppendValueKeeps ==
  ASSUME Invariant, AppendValue
  PROVE  Invariant'
  <1>1. /\ TypeInv /\ Kept /\ pc = "value" /\ values' = values \o ValueBytes /\ alloc' = alloc + Len(ValueBytes)
        /\ pc' = "log" /\ UNCHANGED <<log, files, list, filter, op, history>>
    BY DEF Invariant, AppendValue, Hazards
  <1>2. PICK u : u = ValueBytes
    OBVIOUS
  <1>3. u \in Seq(Byte) /\ Len(u) \in Nat /\ Len(u) <= ValueSize /\ values' = values \o u
    BY <1>1, <1>2, ValueBytesFit DEF ValueBytesOK
  <1>4. /\ values \in Seq(Byte) /\ values # <<>> /\ values' \in Seq(Byte) /\ values' \notin {None, <<>>}
        /\ Len(values') = Len(values) + Len(u) /\ Len(values') <= Bound(writes)
    BY <1>1, <1>3, ValuesMore DEF Kept
  <1>5. TypeInv'
    BY <1>1, <1>2, <1>4 DEF TypeInv, Later, history
  <1>6. ValuesInv' /\ FilesOK(files')
    BY <1>1, <1>4 DEF Kept, ValuesInv, history
  <1>7. RefersInv'
    BY <1>1, <1>3, <1>4, RefersMore DEF Kept, TypeInv
  <1>8. ListInv' /\ FilterInv'
    BY <1>1 DEF Kept, ListInv, FilterInv, Later, Replayed
  <1>9. OpInv'
    <2>1. op.off = Len(values) /\ Len(values) \in Nat /\ Len(values) # 0 /\ op.key \in Keys /\ op.off \in Longs
      BY <1>1, <1>4 DEF Kept, OpInv, Writing, TypeInv
    <2>2. ASSUME op.val # None PROVE ~ IsNegative(op.off) /\ IsIn(ValueOf(op.val), values', op.off)
      <3>1. u = ValueOf(op.val) /\ Len(u) >= IntSize /\ IntSize \in Nat \ {0}
        BY <1>1, <1>2, <2>2, ValueBytesFit, Sizes DEF ValueBytesOK
      <3>2. Bound(writes) <= Half /\ Bound(writes) \in Nat /\ Half \in Nat
        <4>1. writes \in 0 .. MaxWrites /\ writes \in Nat
          BY <1>1, DiskAssumption DEF TypeInv
        <4> QED
          BY <4>1, Bounds, HalfIs DEF BoundsAre
      <3>3. ~ (op.off >= Half)
        BY <1>3, <1>4, <2>1, <3>1, <3>2
      <3>4. ~ IsNegative(op.off)
        BY <2>1, <3>3, HalfIs
      <3>5. IsIn(u, u, 0)
        BY <1>3 DEF IsIn
      <3>6. IsIn(u, values \o u, Len(values) + 0)
        BY <1>3, <1>4, <3>5, IsInConcat
      <3>7. Len(values) + 0 = op.off
        BY <2>1
      <3> QED
        BY <1>3, <3>1, <3>4, <3>6, <3>7
    <2> QED
      BY <1>1, <2>1, <2>2 DEF OpInv, Writing
  <1> QED
    BY <1>5, <1>6, <1>7, <1>8, <1>9 DEF Invariant, Kept

LEMMA ShortValueKeeps ==
  ASSUME Invariant, ShortValue
  PROVE  Invariant'
  <1>1. /\ TypeInv /\ Kept /\ pc = "value" /\ stops < MaxStops /\ EndProcess /\ stops' = stops + 1
        /\ UNCHANGED <<log, files, cut, writes>>
    BY DEF Invariant, ShortValue, Hazards
  <1>2. PICK n \in 0 .. Len(ValueBytes) - 1 : values' = values \o Take(ValueBytes, n)
    BY DEF ShortValue
  <1>3. PICK b : b = ValueBytes
    OBVIOUS
  <1>4. b \in Seq(Byte) /\ Len(b) \in Nat /\ Len(b) <= ValueSize /\ ValueSize \in Nat
    BY <1>1, <1>3, ValueBytesFit, Bounds DEF ValueBytesOK, BoundsAre
  <1>5. PICK u : u = Take(b, n)
    OBVIOUS
  <1>6. n \in 0 .. Len(b) /\ n < Len(b)
    BY <1>2, <1>3, <1>4
  <1>7. u \in Seq(Byte) /\ Len(u) = n
    BY <1>4, <1>5, <1>6, TakeIs DEF IsPiece
  <1>8. values' = values \o u /\ Len(u) <= ValueSize
    BY <1>2, <1>3, <1>4, <1>5, <1>6, <1>7
  <1>9. /\ values \in Seq(Byte) /\ values' \in Seq(Byte) /\ values' \notin {None, <<>>}
        /\ Len(values') <= Bound(writes)
    BY <1>1, <1>7, <1>8, ValuesMore DEF Kept
  <1>10. ValuesInv' /\ FilesOK(files')
    BY <1>1, <1>9 DEF Kept, ValuesInv, EndProcess, Later
  <1>11. RefersInv'
    BY <1>1, <1>7, <1>8, <1>9, RefersMore DEF Kept, TypeInv
  <1>12. log' \in Seq(Byte) /\ cut' \in BOOLEAN /\ writes' = writes /\ stops' \in 0 .. MaxStops
    BY <1>1, NextStop DEF TypeInv
  <1> QED
    BY <1>1, <1>9, <1>10, <1>11, <1>12, EndKeeps

-----------------------------------------------------------------------------
(* A record that is written is read as the entry it was written for. *)

LastByte == IF op.val = None THEN D ELSE A

RecordOK ==
  /\ LogBytes = Record(op.key, op.off, LastByte) /\ LogBytes \in Seq(Byte)
  /\ LogBytes[Len(LogBytes)] = LastByte
  /\ Parts(LogBytes, 0, PutInt(Len(op.key)), op.key, PutLong(op.off), Len(LogBytes))

LEMMA LogBytesAre ==
  ASSUME Invariant, pc = "log"
  PROVE  RecordOK
  <1>1. op.key \in Keys /\ op.off \in Nat
    BY DEF Invariant, Hazards, Kept, OpInv, Writing, TypeInv
  <1>2. LastByte \in Byte
    BY DiskSizes DEF LastByte
  <1>3. PICK key, off, opt : key = op.key /\ off = op.off /\ opt = LastByte
    OBVIOUS
  <1>4. key \in Strings /\ Len(key) < Power[IntSize] /\ off \in Nat /\ opt \in Byte
    BY <1>1, <1>2, <1>3, KeyStrings DEF KeysAreStrings
  <1>5. LogBytes = Record(key, off, opt)
    BY <1>3 DEF LogBytes, LastByte
  <1> QED
    BY <1>3, <1>4, <1>5, RecordIs DEF RecordOK

WriteEntry == Entry(op.key, op.off, Opt)

(* What the log's reader makes of the record. *)
IsWritten(e) ==
  /\ e \in Entries /\ e.key = op.key /\ e.opt = Opt
  /\ op.val # None /\ ~ IsWide(op.off) => e = WriteEntry

LEMMA WriteEntryIs ==
  ASSUME op.key \in Keys, op.off \in Longs
  PROVE  /\ WriteEntry \in Entries /\ WriteEntry.key = op.key /\ WriteEntry.off = op.off /\ WriteEntry.opt = Opt
         /\ Opt \in {"ADD", "DEL"} /\ (Opt = "ADD" <=> op.val # None)
  <1>1. op.key \in Strings
    BY KeyStrings DEF KeysAreStrings
  <1>2. Opt \in {"ADD", "DEL"} /\ (Opt = "ADD" <=> op.val # None)
    BY DEF Opt
  <1> QED
    BY <1>1, <1>2 DEF WriteEntry, Entry, Entries, Longs

LEMMA WrittenIsRead ==
  ASSUME Invariant, pc = "log", log' = log \o LogBytes
  PROVE  /\ log' \in Seq(Byte) /\ IsRead(log')
         /\ \E e : IsWritten(e) /\ Replayed' = Insert(Replayed, e)
  <1>1. /\ log \in Seq(Byte) /\ IsRead(log) /\ op.key \in Keys /\ op.off \in Longs /\ op.off \in Nat
    BY DEF Invariant, Hazards, Kept, ListInv, Later, OpInv, Writing, TypeInv
  <1>2. PICK rec, q, off, opt : rec = LogBytes /\ q = op.key /\ off = op.off /\ opt = LastByte
    OBVIOUS
  <1>3. /\ rec \in Seq(Byte) /\ rec[Len(rec)] = opt
        /\ Parts(rec, 0, PutInt(Len(q)), q, PutLong(off), Len(rec))
    BY <1>2, LogBytesAre DEF RecordOK
  <1>4. PICK e : e = EntryOf(q, PutLong(off), opt)
    OBVIOUS
  <1>5. log' \in Seq(Byte) /\ IsRead(log') /\ LogRead(log').list = Insert(LogRead(log).list, e)
    <2>1. /\ log \o rec \in Seq(Byte) /\ IsRead(log \o rec)
          /\ LogRead(log \o rec).list = Insert(LogRead(log).list, EntryOf(q, PutLong(off), rec[Len(rec)]))
      BY <1>1, <1>3, LogAppends
    <2>2. log' = log \o rec
      BY <1>2
    <2> QED
      BY <1>3, <1>4, <2>1, <2>2
  <1>6. q \in Strings /\ q \in Seq(Byte) /\ Len(q) \in Nat
    BY <1>1, <1>2, KeyStrings, StringBytes DEF KeysAreStrings
  <1>7. StringAt(q, 0) = q
    <2>1. 0 \in 0 .. Len(q) /\ 0 + Len(q) = Len(q) /\ \A i \in 1 .. Len(q) : q[0 + i] = q[i]
      BY <1>6
    <2> QED
      BY <1>6, <2>1, StringComesBack
  <1>8. PutLong(off) \in Seq(Byte) /\ Len(PutLong(off)) = LongSize
    BY <1>1, <1>2, Sizes, BigEndianBytes DEF PutLong
  <1>9. LongFrom(PutLong(off)) \in Longs
    BY <1>8, LongRange
  <1>10. (IF opt = A THEN "ADD" ELSE "DEL") = Opt
    BY <1>2, DiskSizes DEF LastByte, Opt
  <1>11. e = Entry(q, LongFrom(PutLong(off)), Opt)
    BY <1>4, <1>7, <1>10 DEF EntryOf
  <1>12. e \in Entries /\ e.key = op.key /\ e.opt = Opt
    <2>1. Opt \in {"ADD", "DEL"}
      BY DEF Opt
    <2> QED
      BY <1>2, <1>6, <1>9, <1>11, <2>1 DEF Entry, Entries, Longs
  <1>13. ASSUME ~ IsWide(op.off) PROVE e = WriteEntry
    <2>0. LongSize \in Nat
      BY Sizes
    <2>1. Power[LongSize] \in Nat
      BY <2>0, PowerIs
    <2>2. off < Power[LongSize] /\ off \in Nat /\ ~ IsWide(off)
      BY <1>1, <1>2, <1>13, <2>1 DEF Longs
    <2>3. LongFrom(PutLong(off)) = off
      BY <2>2, LongComesBack
    <2> QED
      BY <1>2, <1>11, <2>3 DEF WriteEntry
  <1> QED
    BY <1>5, <1>12, <1>13 DEF IsWritten, Replayed

LEMMA AppendRecordKeeps ==
  ASSUME Invariant, AppendRecord
  PROVE  Invariant'
  <1>1. /\ TypeInv /\ Kept /\ pc = "log" /\ log' = log \o LogBytes
        /\ pc' = (IF op.val # None /\ IsWide(op.off) THEN "wide" ELSE "insert")
        /\ UNCHANGED <<values, files, process, history>>
    BY DEF Invariant, AppendRecord, Hazards
  <1>2. log' \in Seq(Byte) /\ IsRead(log') /\ \E e : IsWritten(e) /\ Replayed' = Insert(Replayed, e)
    BY <1>1, WrittenIsRead
  <1>3. PICK e : IsWritten(e) /\ Replayed' = Insert(Replayed, e)
    BY <1>2
  <1>4. TypeInv'
    BY <1>1, <1>2 DEF TypeInv, process, history, Later, Hazards
  <1>5. CASE op.val # None /\ IsWide(op.off)
    BY <1>1, <1>4, <1>5, Hazardous DEF Hazards
  <1>6. CASE ~ (op.val # None /\ IsWide(op.off))
    <2>1. pc' = "insert" /\ op' = op /\ list' = list /\ filter' = filter /\ alloc' = alloc
      BY <1>1, <1>6 DEF process
    <2>2. values \notin {None, <<>>} /\ op.key \in Keys /\ op.off \in Longs /\ IsList(list) /\ Same(list, Replayed)
      BY <1>1 DEF Kept, ValuesInv, OpInv, ListInv, Writing, Later
    <2>3. ValuesInv' /\ FilesOK(files')
      BY <1>1, <2>1, <2>2 DEF Kept, ValuesInv, history
    <2>4. /\ WriteEntry.key = op.key /\ WriteEntry.opt = Opt /\ WriteEntry.off = op.off
          /\ (Opt = "ADD" <=> op.val # None)
      BY <2>2, WriteEntryIs
    <2>5. e.key = op.key /\ e.opt = Opt /\ (op.val # None => e = WriteEntry)
      BY <1>3, <1>6 DEF IsWritten
    <2>6. Adds({WriteEntry}) = Adds({e})
      BY <2>4, <2>5 DEF Adds
    <2>7. RefersInv'
      <3>1. AllRefer(values, Content(files)) /\ AllRefer(values, Adds(Replayed))
        BY <1>1, <2>2 DEF Kept, RefersInv
      <3>2. op.val # None => Refers(values, e)
        <4>1. ASSUME op.val # None PROVE Refers(values, e)
          <5>1. op.off # 0 /\ ~ IsNegative(op.off) /\ IsIn(ValueOf(op.val), values, op.off) /\ ~ IsWide(op.off)
            BY <1>1, <1>6, <4>1 DEF Kept, OpInv
          <5>2. op.val \in Values
            BY <1>1, <4>1 DEF TypeInv
          <5>3. e.off = op.off
            BY <2>4, <2>5, <4>1
          <5> QED
            BY <5>1, <5>2, <5>3 DEF Refers
        <4> QED
          BY <4>1
      <3>3. \A x \in Adds(Insert(Replayed, e)) : x \in Adds(Replayed) \/ (x = e /\ op.val # None)
        BY <2>4, <2>5 DEF Insert, Adds
      <3>4. AllRefer(values, Adds(Replayed'))
        BY <1>3, <3>1, <3>2, <3>3 DEF AllRefer
      <3>5. values' = values /\ files' = files
        BY <1>1
      <3> QED
        BY <3>1, <3>4, <3>5 DEF RefersInv
    <2>8. ListInv'
      <3>1. Same(Insert(list, WriteEntry), Insert(Replayed, e))
        BY <2>2, <2>4, <2>5, <2>6, SameInserts
      <3>2. Same(Insert(list, WriteEntry), Replayed')
        BY <1>3, <3>1
      <3>3. WriteEntry' = WriteEntry
        BY <2>1 DEF WriteEntry, Opt
      <3>4. Same(Insert(list', WriteEntry'), Replayed')
        BY <2>1, <3>2, <3>3
      <3> QED
        BY <1>2, <2>1, <2>2, <3>4 DEF ListInv, Later, WriteEntry
    <2>9. FilterInv'
      BY <1>1, <2>1 DEF Kept, FilterInv, Later
    <2>10. OpInv'
      BY <1>1, <1>6, <2>1, <2>2 DEF Kept, OpInv, Writing
    <2> QED
      BY <1>4, <2>3, <2>7, <2>8, <2>9, <2>10 DEF Invariant, Kept
  <1> QED
    BY <1>5, <1>6

LEMMA ShortRecordKeeps ==
  ASSUME Invariant, ShortRecord
  PROVE  Invariant' /\ LogRead(log') = LogRead(log)
  <1>1. /\ TypeInv /\ Kept /\ pc = "log" /\ stops < MaxStops /\ EndProcess /\ stops' = stops + 1
        /\ cut' = TRUE /\ UNCHANGED <<values, files, writes>>
    BY DEF Invariant, ShortRecord, Hazards
  <1>2. PICK n \in 1 .. Len(LogBytes) - 1 : log' = log \o Take(LogBytes, n)
    BY DEF ShortRecord
  <1>3. PICK rec, q, l : rec = LogBytes /\ q = op.key /\ l = PutLong(op.off)
    OBVIOUS
  <1>4. rec \in Seq(Byte) /\ Parts(rec, 0, PutInt(Len(q)), q, l, Len(rec))
    BY <1>1, <1>3, LogBytesAre DEF RecordOK
  <1>5. log \in Seq(Byte) /\ IsRead(log)
    BY <1>1 DEF Kept, TypeInv, ListInv, Later
  <1>6. n \in 1 .. Len(rec) - 1 /\ log' = log \o Take(rec, n)
    BY <1>2, <1>3
  <1>7. log' \in Seq(Byte) /\ LogRead(log') = LogRead(log)
    BY <1>4, <1>5, <1>6, LogCut
  <1>8. ValuesInv'
    <2>1. Len(values) <= Bound(writes) /\ values \notin {None, <<>>}
      BY <1>1, LengthStays DEF Kept, ValuesInv, Later
    <2> QED
      BY <1>1, <2>1 DEF ValuesInv, EndProcess
  <1>9. RefersInv'
    BY <1>1, <1>7 DEF Kept, RefersInv, Replayed
  <1>10. /\ FilesOK(files') /\ (values' = None \/ values' \in Seq(Byte)) /\ cut' \in BOOLEAN
         /\ writes' = writes /\ stops' \in 0 .. MaxStops
    BY <1>1, NextStop DEF Kept, TypeInv
  <1> QED
    BY <1>1, <1>7, <1>8, <1>9, <1>10, EndKeeps

LEMMA InsertKeyKeeps ==
  ASSUME Invariant, InsertKey
  PROVE  Invariant'
  <1>1. /\ TypeInv /\ Kept /\ pc = "insert" /\ list' = Insert(list, WriteEntry)
        /\ filter' = (IF op.val = None THEN filter ELSE filter \cup BitsOf(op.key))
        /\ op' = NoOp /\ pc' = "ready" /\ UNCHANGED <<disk, alloc, history>>
    BY DEF Invariant, InsertKey, Hazards, WriteEntry
  <1>2. /\ op.key \in Keys /\ op.off \in Longs /\ IsList(list) /\ IsRead(log)
        /\ Same(Insert(list, WriteEntry), Replayed)
    BY <1>1 DEF Kept, OpInv, ListInv, Writing, Later, WriteEntry
  <1>3. /\ WriteEntry \in Entries /\ WriteEntry.key = op.key /\ WriteEntry.opt = Opt
        /\ (Opt = "ADD" <=> op.val # None)
    BY <1>2, WriteEntryIs
  <1>4. IsList(list')
    BY <1>1, <1>2, <1>3, InsertIs
  <1>5. TypeInv'
    <2>1. op' \in [key : Keys \cup {None}, val : Values \cup {None}, off : Nat] /\ list' \subseteq Entries
      BY <1>1, <1>4 DEF NoOp, IsList
    <2> QED
      BY <1>1, <2>1 DEF TypeInv, disk, history, Later
  <1>6. ValuesInv' /\ FilesOK(files')
    BY <1>1 DEF Kept, ValuesInv, disk, history, Later
  <1>7. RefersInv'
    BY <1>1, RefersStays DEF Kept
  <1>8. ListInv'
    BY <1>1, <1>2, <1>4 DEF ListInv, Later, Replayed, disk
  <1>9. FilterInv'
    <2>1. Passes(filter, Content(files)) /\ Passes(filter, Adds(list)) /\ filter \subseteq filter'
      BY <1>1 DEF Kept, FilterInv, Later
    <2>2. ASSUME NEW x \in Adds(list') PROVE BitsOf(x.key) \subseteq filter'
      <3>1. x \in Adds(list) \/ (x = WriteEntry /\ op.val # None)
        BY <1>1, <1>3 DEF Insert, Adds
      <3>2. CASE x \in Adds(list)
        BY <2>1, <3>2 DEF Passes
      <3>3. CASE x = WriteEntry /\ op.val # None
        BY <1>1, <1>3, <3>3
      <3> QED
        BY <3>1, <3>2, <3>3
    <2>3. files' = files
      BY <1>1 DEF disk
    <2>4. Passes(filter', Content(files')) /\ Passes(filter', Adds(list'))
      BY <2>1, <2>2, <2>3 DEF Passes
    <2> QED
      BY <2>4 DEF FilterInv
  <1>10. OpInv'
    BY <1>1 DEF OpInv, Writing
  <1> QED
    BY <1>5, <1>6, <1>7, <1>8, <1>9, <1>10 DEF Invariant, Kept

LEMMA StaysKeeps ==
  ASSUME Invariant, UNCHANGED vars
  PROVE  Invariant'
  BY DEF Invariant, vars, disk, process, history, TypeInv, Kept, ValuesInv, RefersInv, ListInv, FilterInv, OpInv,
         Replayed, Writing, Opt

(* Every step keeps the invariant. *)
LEMMA NextKeeps ==
  ASSUME Invariant, [Next]_vars
  PROVE  Invariant'
  <1>1. CASE Open
    BY <1>1, StartKeeps, OpenValuesKeeps, WriteMagicKeeps, LogRecoveryKeeps, MergeRecoveredKeeps,
       RemoveLogKeeps, LogNextKeeps DEF Open
  <1>2. ASSUME NEW key \in Keys, NEW val \in Values \cup {None}, Add(key, val) PROVE Invariant'
    BY <1>2, AddKeeps
  <1>3. CASE AppendValue \/ ShortValue \/ AppendRecord \/ ShortRecord \/ InsertKey
    BY <1>3, AppendValueKeeps, ShortValueKeeps, AppendRecordKeeps, ShortRecordKeeps, InsertKeyKeeps
  <1>4. CASE Close \/ Closed \/ Die
    BY <1>4, CloseKeeps, ClosedKeeps, DieKeeps
  <1>5. CASE Stuck \/ Quiet \/ UNCHANGED vars
    BY <1>5, StaysKeeps DEF Stuck, Quiet
  <1> QED
    BY <1>1, <1>2, <1>3, <1>4, <1>5 DEF Next

(* The invariant is one. *)
LEMMA AlwaysInvariant == Spec => []Invariant
  <1>1. Init => Invariant
    BY Begins
  <1>2. Invariant /\ [Next]_vars => Invariant'
    BY NextKeeps
  <1> QED
    BY <1>1, <1>2, PTL DEF Spec

(* Every variable holds a value of its type, and the next value goes to    *)
(* the end of the value file (log_append at log->db_alloc).                *)
THEOREM TypeCorrect == Spec => []TypeOK
  <1>1. Invariant => TypeOK
    <2> SUFFICES ASSUME Invariant PROVE TypeOK
      OBVIOUS
    <2>1. TypeInv
      BY DEF Invariant
    <2>2. \A i \in DOMAIN files : files[i].blks \in Seq(Byte) /\ files[i].count \in Nat \ {0}
      <3>1. \A file \in Mmaps : file.blks \in Seq(Byte) /\ file.count \in Nat \ {0}
        BY DEF Mmaps
      <3> QED
        BY <2>1, <3>1 DEF TypeInv
    <2>3. op.key \in Keys \cup {None} /\ op.val \in Values \cup {None} /\ op.off \in Nat
      BY <2>1 DEF TypeInv
    <2> QED
      BY <2>1, <2>2, <2>3 DEF TypeInv, TypeOK, Later
  <1> QED
    BY <1>1, AlwaysInvariant, PTL

(* What the bytes on disk say, as a map. *)
DurableOf(vs, lg, fs) == IF vs = None THEN [key \in Keys |-> None]
                         ELSE Lookup(vs, fs)[LogRead(lg).list]

ShownMap(vs, view) == [key \in Keys |-> Shown(vs, view, key)]

LEMMA LookupMap ==
  ASSUME NEW fs, FilesOK(fs), HaveOffsets(Content(fs)), NEW entries, IsList(entries),
         HaveOffsets(Adds(entries)), NEW vs
  PROVE  Lookup(vs, fs)[entries] = ShownMap(vs, View(entries, Content(fs)))
  <1>1. PICK f : f = Lookup(vs, fs)[entries]
    OBVIOUS
  <1>2. entries \in SUBSET Entries
    BY DEF IsList
  <1>3. f = [key \in Keys |-> f[key]]
    BY <1>1, <1>2 DEF Lookup
  <1>4. \A key \in Keys : f[key] = Shown(vs, View(entries, Content(fs)), key)
    BY <1>1, LookupIs
  <1> QED
    BY <1>1, <1>3, <1>4 DEF ShownMap

LEMMA RefersHave ==
  ASSUME NEW vs, NEW entries, AllRefer(vs, entries)
  PROVE  HaveOffsets(entries)
  BY DEF AllRefer, Refers, HaveOffsets

(* What a start would give back: the log over the files. *)
LEMMA DurableShown ==
  ASSUME NEW vs, vs # None, NEW lg \in Seq(Byte), NEW fs, FilesOK(fs),
         AllRefer(vs, Content(fs)), AllRefer(vs, Adds(LogRead(lg).list))
  PROVE  DurableOf(vs, lg, fs) = ShownMap(vs, View(LogRead(lg).list, Content(fs)))
  <1>1. IsList(LogRead(lg).list)
    BY LogReadIs
  <1>2. HaveOffsets(Content(fs)) /\ HaveOffsets(Adds(LogRead(lg).list))
    BY RefersHave
  <1> QED
    BY <1>1, <1>2, LookupMap DEF DurableOf

LEMMA DurableNow ==
  ASSUME Invariant, pc \notin Hazards, values # None
  PROVE  Durable = ShownMap(values, View(Replayed, Content(files)))
  <1>1. DurableOf(values, log, files) = ShownMap(values, View(LogRead(log).list, Content(files)))
    BY DurableShown DEF Invariant, TypeInv, Kept, RefersInv, Replayed
  <1> QED
    BY <1>1 DEF Durable, DurableOf, Replayed

LEMMA DurableThen ==
  ASSUME Invariant', pc' \notin Hazards, values' # None
  PROVE  Durable' = ShownMap(values', View(Replayed', Content(files')))
  <1>1. /\ log' \in Seq(Byte) /\ FilesOK(files') /\ AllRefer(values', Content(files'))
        /\ AllRefer(values', Adds(LogRead(log').list))
    BY DEF Invariant, TypeInv, Kept, RefersInv, Replayed
  <1>2. DurableOf(values', log', files') = ShownMap(values', View(LogRead(log').list, Content(files')))
    BY <1>1, DurableShown
  <1> QED
    BY <1>2 DEF Durable, DurableOf, Replayed

(* GET answers with what a start after a death would give back: the filter *)
(* passes every key that is there, the memtable is what the log says, and  *)
(* the search of a file finds what a load of it reads (index_get).         *)
THEOREM GetsAreAlwaysDurable == Spec => []GetsAreDurable
  <1>1. Invariant => GetsAreDurable
    <2> SUFFICES ASSUME Invariant, pc = "ready", NEW key \in Keys PROVE Get(key) = Durable[key]
      BY DEF GetsAreDurable
    <2>1. TypeInv /\ Kept /\ pc \notin Hazards
      BY DEF Invariant, Hazards
    <2>2. /\ values # None /\ IsList(list) /\ Same(list, Replayed) /\ FilesOK(files)
          /\ AllRefer(values, Content(files)) /\ AllRefer(values, Adds(Replayed))
          /\ Passes(filter, Content(files)) /\ Passes(filter, Adds(list))
      BY <2>1 DEF Kept, ValuesInv, ListInv, RefersInv, FilterInv, Later
    <2>3. PICK view : view = View(list, Content(files))
      OBVIOUS
    <2>4. Durable[key] = Shown(values, view, key)
      <3>1. View(Replayed, Content(files)) = view
        BY <2>2, <2>3, SameViews
      <3>2. Durable = ShownMap(values, view)
        BY <2>1, <2>2, <3>1, DurableNow
      <3> QED
        BY <3>2 DEF ShownMap
    <2>5. CASE HiraishinGet(key)
      <3>1. HaveOffsets(Content(files)) /\ HaveOffsets(Adds(list))
        BY <2>2, RefersHave DEF Same
      <3>2. Lookup(values, files)[list][key] = Shown(values, view, key)
        BY <2>2, <2>3, <3>1, LookupIs
      <3> QED
        BY <2>4, <2>5, <3>2 DEF Get
    <2>6. CASE ~ HiraishinGet(key)
      <3>1. ~ \E e \in view : e.key = key
        BY <2>2, <2>3, <2>6, ViewMembers DEF Passes, HiraishinGet
      <3>2. Shown(values, view, key) = None
        BY <3>1 DEF Shown
      <3> QED
        BY <2>4, <2>6, <3>2 DEF Get
    <2> QED
      BY <2>5, <2>6
  <1> QED
    BY <1>1, AlwaysInvariant, PTL

-----------------------------------------------------------------------------
(* The refinement: when the map stays *)

LEMMA EmptyShown == \A vs : ShownMap(vs, {}) = [key \in Keys |-> None]
  BY DEF ShownMap, Shown

(* A step between two states of the invariant, neither at a hazard. *)
GoodStep == Invariant /\ Invariant' /\ pc \notin Hazards /\ pc' \notin Hazards

LEMMA SameDisk ==
  ASSUME UNCHANGED disk
  PROVE  Durable' = Durable
  BY DEF Durable, Replayed, disk

(* Creating the value file, and its magic, changes nothing. *)
LEMMA CreatedValues ==
  ASSUME GoodStep, values \in {None, <<>>}, values' # None, UNCHANGED <<log, files>>
  PROVE  Durable' = Durable
  <1>1. log' = <<>> /\ files' = <<>> /\ log = <<>> /\ files = <<>>
    BY DEF GoodStep, Invariant, Kept, ValuesInv
  <1>2. Replayed = {} /\ Replayed' = {}
    BY <1>1, EmptyLog DEF Replayed
  <1>3. View({}, Content(<<>>)) = {}
    BY NoFiles, EmptyList
  <1>4. Durable' = [key \in Keys |-> None]
    <2>1. Durable' = ShownMap(values', View(Replayed', Content(files')))
      BY DurableThen DEF GoodStep
    <2> QED
      BY <1>1, <1>2, <1>3, <2>1, EmptyShown
  <1>5. Durable = [key \in Keys |-> None]
    <2>1. CASE values = None
      BY <2>1 DEF Durable
    <2>2. CASE values # None
      <3>1. Durable = ShownMap(values, View(Replayed, Content(files)))
        BY <2>2, DurableNow DEF GoodStep
      <3> QED
        BY <1>1, <1>2, <1>3, <3>1, EmptyShown
    <2> QED
      BY <2>1, <2>2
  <1> QED
    BY <1>4, <1>5

(* Nor does a value nobody refers to yet, or part of one. *)
LEMMA LongerValues ==
  ASSUME GoodStep, values # None, NEW u \in Seq(Byte), values' = values \o u, UNCHANGED <<log, files>>
  PROVE  Durable' = Durable
  <1>1. /\ values \in Seq(Byte) /\ log \in Seq(Byte) /\ FilesOK(files)
        /\ AllRefer(values, Content(files)) /\ AllRefer(values, Adds(Replayed))
    BY DEF GoodStep, Invariant, TypeInv, Kept, RefersInv
  <1>2. PICK view : view = View(Replayed, Content(files))
    OBVIOUS
  <1>3. IsList(view) /\ AllRefer(values, view)
    <2>1. IsList(Replayed) /\ IsList(Content(files)) /\ AllAdds(Content(files))
      BY <1>1, LogReadIs, ContentIs DEF Replayed
    <2>2. view \subseteq Content(files) \cup Adds(Replayed)
      BY <1>2, ViewMembers
    <2>3. \A e \in Content(files) \cup Adds(Replayed) : Refers(values, e)
      BY <1>1 DEF AllRefer
    <2>4. AllRefer(values, view)
      BY <2>2, <2>3 DEF AllRefer
    <2> QED
      BY <1>2, <2>1, <2>4, ViewIs
  <1>4. Durable = ShownMap(values, view)
    BY <1>2, DurableNow DEF GoodStep
  <1>5. values' # None
    BY <1>1, ConcatIs, NoneIsNoBytes
  <1>6. Durable' = ShownMap(values \o u, view)
    <2>1. Durable' = ShownMap(values', View(Replayed', Content(files')))
      BY <1>5, DurableThen DEF GoodStep
    <2>2. Replayed' = Replayed /\ files' = files
      BY DEF Replayed
    <2> QED
      BY <1>2, <2>1, <2>2
  <1>7. \A key \in Keys : Shown(values \o u, view, key) = Shown(values, view, key)
    BY <1>1, <1>3, StillShown
  <1> QED
    BY <1>4, <1>6, <1>7 DEF ShownMap

(* Disks with the same view and the same values are the same map. *)
LEMMA SameView ==
  ASSUME GoodStep, values # None, values' = values,
         View(Replayed', Content(files')) = View(Replayed, Content(files))
  PROVE  Durable' = Durable
  <1>1. Durable = ShownMap(values, View(Replayed, Content(files)))
    BY DurableNow DEF GoodStep
  <1>2. Durable' = ShownMap(values', View(Replayed', Content(files')))
    BY DurableThen DEF GoodStep
  <1> QED
    BY <1>1, <1>2

(* Nor does a merge, of a recovered log or at a shutdown. *)
LEMMA MergedMap ==
  ASSUME GoodStep, pc \in {"merge", "ready"}, NEW next, next \notin Hazards, SilopitMerge(list, next),
         UNCHANGED <<values, log>>
  PROVE  Durable' = Durable /\ pc' = next
  <1>1. TypeInv /\ Kept /\ values # None /\ Same(list, Replayed)
    BY DEF GoodStep, Invariant, Kept, ValuesInv, ListInv, Later
  <1>2. pc' = next /\ Content(files') = View(list, Content(files))
    BY <1>1, MergeStep DEF AfterMerge, GoodStep
  <1>3. Replayed' = Replayed
    BY DEF Replayed
  <1>4. \A content : View(Replayed, content) = View(list, content)
    BY <1>1, SameViews
  <1>5. View(Replayed', Content(files')) = View(Replayed, Content(files))
    <2>1. View(list, View(list, Content(files))) = View(list, Content(files))
      BY ViewTwice
    <2> QED
      BY <1>2, <1>3, <1>4, <2>1
  <1> QED
    BY <1>1, <1>2, <1>5, SameView

(* Nor does the removal of a log that was merged. *)
LEMMA RemovedLog ==
  ASSUME GoodStep, pc \in {"remove", "closed"}, log' = <<>>, UNCHANGED <<values, files>>
  PROVE  Durable' = Durable
  <1>1. values # None /\ Same(list, Replayed) /\ View(list, Content(files)) = Content(files)
    BY DEF GoodStep, Invariant, Kept, ValuesInv, ListInv, Later
  <1>2. Replayed' = {}
    BY EmptyLog DEF Replayed
  <1>3. View(Replayed', Content(files')) = Content(files)
    BY <1>2, EmptyList
  <1>4. View(Replayed, Content(files)) = View(list, Content(files))
    BY <1>1, SameViews
  <1>5. View(Replayed', Content(files')) = View(Replayed, Content(files))
    BY <1>1, <1>3, <1>4
  <1>6. values' = values
    OBVIOUS
  <1> QED
    BY <1>1, <1>5, <1>6, SameView

(* log_append's second write changes the key, and no other. *)
LEMMA WrittenMap ==
  ASSUME GoodStep, AppendRecord
  PROVE  /\ Durable' = [Durable EXCEPT ![op.key] = op.val] /\ pc' = "insert"
         /\ op.key \in Keys
  <1>1. /\ TypeInv /\ Kept /\ pc = "log" /\ pc' = "insert" /\ ~ (op.val # None /\ IsWide(op.off))
        /\ log' = log \o LogBytes /\ UNCHANGED <<values, files, process, history>>
    BY DEF GoodStep, Invariant, AppendRecord, Hazards
  <1>2. PICK e : IsWritten(e) /\ Replayed' = Insert(Replayed, e)
    BY <1>1, WrittenIsRead DEF GoodStep
  <1>3. values # None /\ values \in Seq(Byte) /\ op.key \in Keys /\ op.off \in Longs /\ log \in Seq(Byte)
    BY <1>1, NoneIsNoBytes DEF Kept, ValuesInv, Later, TypeInv, OpInv, Writing
  <1>4. PICK view, after : view = View(Replayed, Content(files)) /\ after = View(Replayed', Content(files))
    OBVIOUS
  <1>5. after = {x \in view : x.key # e.key} \cup Adds({e})
    BY <1>2, <1>4, InsertView
  <1>6. IsList(view)
    <2>1. IsList(Replayed)
      BY <1>3, LogReadIs DEF Replayed
    <2>2. IsList(Content(files)) /\ AllAdds(Content(files))
      BY <1>1, ContentIs DEF Kept
    <2> QED
      BY <1>4, <2>1, <2>2, ViewIs
  <1>7. Durable = ShownMap(values, view)
    BY <1>3, <1>4, DurableNow DEF GoodStep
  <1>8. Durable' = ShownMap(values, after)
    <2>1. values' = values /\ files' = files
      BY <1>1
    <2>2. Durable' = ShownMap(values', View(Replayed', Content(files')))
      BY <1>3, <2>1, DurableThen DEF GoodStep
    <2> QED
      BY <1>4, <2>1, <2>2
  <1>9. /\ e \in Entries /\ e.key = op.key /\ (e.opt = "ADD" <=> op.val # None)
        /\ (op.val # None => e.off = op.off)
    BY <1>1, <1>2, <1>3, WriteEntryIs DEF IsWritten
  <1>10. \A key \in Keys : Shown(values, after, key) =
           IF key # op.key THEN Shown(values, view, key)
           ELSE IF op.val # None THEN ReadValue(values, e.off) ELSE None
    BY <1>5, <1>6, <1>9, ShownInsert
  <1>11. op.val # None => ReadValue(values, e.off) = op.val
    <2> SUFFICES ASSUME op.val # None PROVE ReadValue(values, op.off) = op.val
      BY <1>9
    <2>1. ~ IsNegative(op.off) /\ IsIn(ValueOf(op.val), values, op.off)
      BY <1>1 DEF Kept, OpInv
    <2>2. op.val \in Values /\ op.off \in Nat
      BY <1>1 DEF TypeInv
    <2> QED
      BY <1>3, <2>1, <2>2, ValueIs
  <1>12. \A key \in Keys : Shown(values, after, key) = IF key = op.key THEN op.val ELSE Shown(values, view, key)
    BY <1>10, <1>11
  <1>13. Durable' = [Durable EXCEPT ![op.key] = op.val]
    BY <1>3, <1>7, <1>8, <1>12 DEF ShownMap
  <1> QED
    BY <1>1, <1>3, <1>13

-----------------------------------------------------------------------------
(* The refinement: a step of the map's, or none *)

CallNow == [key  |-> IF Writing THEN op.key ELSE None,
            val  |-> IF Writing THEN op.val ELSE None,
            done |-> pc = "insert"]
UpNow == Writing \/ pc = "ready"

Idle == [key |-> None, val |-> None, done |-> FALSE]

LEMMA IdleIs == ASSUME ~ Writing PROVE CallNow = Idle
  BY DEF CallNow, Idle, Writing

LEMMA IdleWillBe == ASSUME ~ Writing' PROVE CallNow' = Idle
  BY DEF CallNow, Idle, Writing

MapStays == UNCHANGED <<Durable, CallNow, UpNow>>

LEMMA StayIsStutter ==
  ASSUME MapStays
  PROVE  UNCHANGED Promise!vars
  BY DEF MapStays, Promise!vars, CallNow, UpNow

LEMMA StopIs ==
  ASSUME Durable' = Durable, pc' \notin {"ready", "value", "log", "insert"}
  PROVE  MapStays \/ Promise!Stop
  <1>1. ~ Writing' /\ UpNow' = FALSE
    BY DEF Writing, UpNow
  <1>2. CallNow' = Idle
    BY <1>1, IdleWillBe
  <1>3. CASE UpNow = TRUE
    <2>1. Promise!Stop
      BY <1>1, <1>2, <1>3 DEF Promise!Stop, Promise!NoCall, CallNow, UpNow, Idle
    <2> QED
      BY <2>1
  <1>4. CASE UpNow = FALSE
    <2>1. ~ Writing
      BY <1>4 DEF UpNow
    <2>2. CallNow = Idle
      BY <2>1, IdleIs
    <2> QED
      BY <1>1, <1>2, <1>4, <2>2 DEF MapStays
  <1>5. UpNow \in BOOLEAN
    BY DEF UpNow, Writing
  <1> QED
    BY <1>3, <1>4, <1>5

(* A step of the map, or none. *)
Follows == MapStays \/ Promise!Next

LEMMA EndFollows ==
  ASSUME Durable' = Durable, pc' \notin {"ready", "value", "log", "insert"}
  PROVE  Follows
  BY StopIs DEF Follows, Promise!Next

LEMMA OpenFollows ==
  ASSUME GoodStep, Open
  PROVE  Follows
  <1>1. CASE Start
    <2>1. Durable' = Durable /\ pc' = "values"
      BY <1>1, SameDisk DEF Start
    <2> QED
      BY <2>1, EndFollows
  <1>2. CASE OpenValues
    <2>1. UNCHANGED <<log, files>> /\ pc' \in {"magic", "recover", "nomagic"}
      BY <1>2 DEF OpenValues
    <2>2. CASE values = None /\ values' = <<>>
      <3>1. values' # None
        <4>1. <<>> \in Seq(Byte)
          OBVIOUS
        <4> QED
          BY <2>2, <4>1, NoneIsNoBytes
      <3>2. Durable' = Durable
        BY <2>1, <2>2, <3>1, CreatedValues
      <3> QED
        BY <2>1, <3>2, EndFollows
    <2>3. CASE UNCHANGED values
      <3>1. Durable' = Durable
        BY <2>1, <2>3, SameDisk DEF disk
      <3> QED
        BY <2>1, <3>1, EndFollows
    <2> QED
      BY <1>2, <2>2, <2>3 DEF OpenValues
  <1>3. CASE WriteMagic
    <2>1. /\ values = <<>> /\ values' = Magic /\ UNCHANGED <<log, files>> /\ pc' = "recover"
      BY <1>3 DEF WriteMagic, GoodStep, Invariant, Kept, ValuesInv
    <2>2. Durable' = Durable
      BY <2>1, MagicIs, CreatedValues
    <2> QED
      BY <2>1, <2>2, EndFollows
  <1>4. CASE LogRecovery
    <2>1. Durable' = Durable /\ pc' \in {"next", "torn", "merge"}
      BY <1>4, SameDisk DEF LogRecovery
    <2> QED
      BY <2>1, EndFollows
  <1>5. CASE MergeRecovered
    <2>1. pc = "merge" /\ SilopitMerge(list, "remove") /\ UNCHANGED <<values, log>>
      BY <1>5 DEF MergeRecovered
    <2>2. Durable' = Durable /\ pc' = "remove"
      BY <2>1, MergedMap DEF Hazards
    <2> QED
      BY <2>2, EndFollows
  <1>6. CASE RemoveLog
    <2>1. pc = "remove" /\ log' = <<>> /\ UNCHANGED <<values, files>> /\ pc' = "next"
      BY <1>6 DEF RemoveLog
    <2>2. Durable' = Durable
      BY <2>1, RemovedLog
    <2> QED
      BY <2>1, <2>2, EndFollows
  <1>7. CASE LogNext
    <2>1. pc = "next" /\ pc' = "ready" /\ UNCHANGED disk
      BY <1>7 DEF LogNext, disk, GoodStep, Invariant, Kept, ListInv
    <2>2. Durable' = Durable
      BY <2>1, SameDisk
    <2>3. ~ Writing /\ ~ Writing' /\ UpNow = FALSE /\ UpNow' = TRUE
      BY <2>1 DEF Writing, UpNow
    <2>4. CallNow = Idle /\ CallNow' = Idle
      BY <2>3, IdleIs, IdleWillBe
    <2>5. Promise!Start
      BY <2>2, <2>3, <2>4 DEF Promise!Start, CallNow, UpNow
    <2> QED
      BY <2>5 DEF Follows, Promise!Next
  <1> QED
    BY <1>1, <1>2, <1>3, <1>4, <1>5, <1>6, <1>7 DEF Open

LEMMA AddFollows ==
  ASSUME NEW key \in Keys, NEW val \in Values \cup {None}, Add(key, val)
  PROVE  Follows
  <1>1. /\ pc = "ready" /\ pc' = "value" /\ op' = [key |-> key, val |-> val, off |-> alloc]
        /\ UNCHANGED disk
    BY DEF Add
  <1>2. Durable' = Durable
    BY <1>1, SameDisk
  <1>3. ~ Writing /\ Writing' /\ UpNow = TRUE /\ UpNow' = TRUE
    BY <1>1 DEF Writing, UpNow
  <1>4. CallNow = Idle
    BY <1>3, IdleIs
  <1>5. CallNow' = [key |-> key, val |-> val, done |-> FALSE]
    BY <1>1, <1>3 DEF CallNow
  <1>6. Promise!Begin(key, val)
    BY <1>2, <1>3, <1>4, <1>5 DEF Promise!Begin, Promise!NoCall, CallNow, UpNow, Idle
  <1> QED
    BY <1>6 DEF Follows, Promise!Next

LEMMA AppendValueFollows ==
  ASSUME GoodStep, AppendValue
  PROVE  Follows
  <1>1. /\ pc = "value" /\ pc' = "log" /\ values' = values \o ValueBytes /\ op' = op /\ UNCHANGED <<log, files>>
    BY DEF AppendValue
  <1>2. ValueBytes \in Seq(Byte) /\ values # None
    BY <1>1, ValueBytesFit DEF GoodStep, Invariant, Kept, ValuesInv, Later, ValueBytesOK
  <1>3. Durable' = Durable
    BY <1>1, <1>2, LongerValues
  <1>4. CallNow' = CallNow /\ UpNow' = UpNow
    BY <1>1 DEF CallNow, UpNow, Writing
  <1> QED
    BY <1>3, <1>4 DEF Follows, MapStays

LEMMA ShortValueFollows ==
  ASSUME GoodStep, ShortValue
  PROVE  Follows
  <1>1. pc = "value" /\ pc' = "down" /\ UNCHANGED <<log, files>>
    BY DEF ShortValue, EndProcess
  <1>2. PICK n \in 0 .. Len(ValueBytes) - 1 : values' = values \o Take(ValueBytes, n)
    BY DEF ShortValue
  <1>3. PICK b : b = ValueBytes
    OBVIOUS
  <1>4. b \in Seq(Byte) /\ Len(b) \in Nat /\ values # None
    BY <1>1, <1>3, ValueBytesFit DEF GoodStep, Invariant, Kept, ValuesInv, Later, ValueBytesOK
  <1>5. n \in 0 .. Len(b)
    BY <1>2, <1>3, <1>4
  <1>6. Take(b, n) \in Seq(Byte)
    BY <1>4, <1>5, TakeIs
  <1>7. Durable' = Durable
    BY <1>1, <1>2, <1>3, <1>4, <1>6, LongerValues
  <1> QED
    BY <1>1, <1>7, EndFollows

LEMMA AppendRecordFollows ==
  ASSUME GoodStep, AppendRecord
  PROVE  Follows
  <1>1. pc = "log" /\ op' = op
    BY DEF AppendRecord, process
  <1>2. Durable' = [Durable EXCEPT ![op.key] = op.val] /\ pc' = "insert" /\ op.key \in Keys
    BY WrittenMap
  <1>3. Writing /\ Writing' /\ UpNow = TRUE /\ UpNow' = TRUE
    BY <1>1, <1>2 DEF Writing, UpNow
  <1>4. CallNow = [key |-> op.key, val |-> op.val, done |-> FALSE]
    BY <1>1, <1>3 DEF CallNow
  <1>5. CallNow' = [key |-> op.key, val |-> op.val, done |-> TRUE]
    BY <1>1, <1>2, <1>3 DEF CallNow
  <1>6. op.key # None
    BY <1>2, NoneIsNoBytes
  <1>7. CallNow # Idle
    BY <1>4, <1>6 DEF Idle
  <1>8. CallNow.key = op.key /\ CallNow.val = op.val /\ CallNow.done = FALSE
    BY <1>4
  <1>9. CallNow' = [CallNow EXCEPT !.done = TRUE]
    <2>1. PICK no, yes : no = FALSE /\ yes = TRUE
      OBVIOUS
    <2>2. [[key |-> op.key, val |-> op.val, done |-> no] EXCEPT !.done = yes] =
          [key |-> op.key, val |-> op.val, done |-> yes]
      OBVIOUS
    <2> QED
      BY <1>4, <1>5, <2>1, <2>2, Zenon
  <1>10. Durable' = [Durable EXCEPT ![CallNow.key] = CallNow.val]
    BY <1>2, <1>8
  <1>11. Promise!Apply
    BY <1>3, <1>7, <1>8, <1>9, <1>10 DEF Promise!Apply, Promise!NoCall, CallNow, UpNow, Idle
  <1> QED
    BY <1>11 DEF Follows, Promise!Next

LEMMA InsertKeyFollows ==
  ASSUME InsertKey
  PROVE  Follows
  <1>1. pc = "insert" /\ pc' = "ready" /\ UNCHANGED disk
    BY DEF InsertKey
  <1>2. Durable' = Durable
    BY <1>1, SameDisk
  <1>3. ~ Writing' /\ UpNow = TRUE /\ UpNow' = TRUE
    BY <1>1 DEF Writing, UpNow
  <1>4. CallNow' = Idle
    BY <1>3, IdleWillBe
  <1>5. CallNow.done = TRUE
    BY <1>1 DEF CallNow
  <1>6. Promise!Return
    BY <1>2, <1>3, <1>4, <1>5 DEF Promise!Return, Promise!NoCall, CallNow, UpNow, Idle
  <1> QED
    BY <1>6 DEF Follows, Promise!Next

LEMMA EndingFollows ==
  ASSUME GoodStep, ShortRecord \/ Close \/ Closed \/ Die
  PROVE  Follows
  <1>1. CASE ShortRecord
    <2>1. pc' = "down" /\ UNCHANGED <<values, files>>
      BY <1>1 DEF ShortRecord, EndProcess
    <2>2. LogRead(log') = LogRead(log)
      BY <1>1, ShortRecordKeeps DEF GoodStep
    <2>3. Durable' = Durable
      BY <2>1, <2>2 DEF Durable, Replayed
    <2> QED
      BY <2>1, <2>3, EndFollows
  <1>2. CASE Close
    <2>1. pc = "ready" /\ UNCHANGED <<values, log>>
      BY <1>2 DEF Close
    <2>2. CASE EndProcess /\ UNCHANGED files
      <3>1. Durable' = Durable /\ pc' = "down"
        BY <2>1, <2>2, SameDisk DEF EndProcess, disk
      <3> QED
        BY <3>1, EndFollows
    <2>3. CASE SilopitMerge(list, "closed")
      <3>1. Durable' = Durable /\ pc' = "closed"
        BY <2>1, <2>3, MergedMap DEF Hazards
      <3> QED
        BY <3>1, EndFollows
    <2> QED
      BY <1>2, <2>2, <2>3 DEF Close
  <1>3. CASE Closed
    <2>1. pc = "closed" /\ log' = <<>> /\ UNCHANGED <<values, files>> /\ pc' = "down"
      BY <1>3 DEF Closed, EndProcess
    <2>2. Durable' = Durable
      BY <2>1, RemovedLog
    <2> QED
      BY <2>1, <2>2, EndFollows
  <1>4. CASE Die
    <2>1. Durable' = Durable /\ pc' = "down"
      BY <1>4, SameDisk DEF Die, EndProcess
    <2> QED
      BY <2>1, EndFollows
  <1> QED
    BY <1>1, <1>2, <1>3, <1>4

LEMMA UnchangedFollows ==
  ASSUME UNCHANGED vars
  PROVE  Follows
  <1>1. UNCHANGED <<disk, op, pc>>
    BY DEF vars, process
  <1>2. Durable' = Durable
    BY <1>1, SameDisk
  <1>3. CallNow' = CallNow /\ UpNow' = UpNow
    BY <1>1 DEF CallNow, UpNow, Writing
  <1> QED
    BY <1>2, <1>3 DEF Follows, MapStays

(* Every step that meets no event is a step of the map or leaves it. *)
LEMMA NextFollows ==
  ASSUME Invariant, Invariant', [Next]_vars
  PROVE  [pc' \notin Hazards => Promise!Next]_(Promise!vars)
  <1>1. CASE pc' \in Hazards
    BY <1>1
  <1>2. CASE pc \in Hazards
    <2>1. CASE UNCHANGED vars
      BY <1>2, <2>1 DEF vars
    <2>2. CASE Next
      BY <1>2, <2>2 DEF Next, Open, Start, OpenValues, WriteMagic, LogRecovery, MergeRecovered, RemoveLog,
         LogNext, Add, AppendValue, ShortValue, AppendRecord, ShortRecord, InsertKey, Close, Closed, Die,
         Stuck, Quiet, Hazards, vars
    <2> QED
      BY <2>1, <2>2
  <1>3. CASE pc \notin Hazards /\ pc' \notin Hazards
    <2>1. GoodStep
      BY <1>3 DEF GoodStep
    <2>2. Follows
      <3>1. CASE Open
        BY <2>1, <3>1, OpenFollows
      <3>2. ASSUME NEW key \in Keys, NEW val \in Values \cup {None}, Add(key, val) PROVE Follows
        BY <3>2, AddFollows
      <3>3. CASE AppendValue \/ ShortValue \/ AppendRecord \/ InsertKey
        BY <2>1, <3>3, AppendValueFollows, ShortValueFollows, AppendRecordFollows, InsertKeyFollows
      <3>4. CASE ShortRecord \/ Close \/ Closed \/ Die
        BY <2>1, <3>4, EndingFollows
      <3>5. CASE Stuck \/ Quiet \/ UNCHANGED vars
        BY <3>5, UnchangedFollows DEF Stuck, Quiet
      <3> QED
        BY <3>1, <3>2, <3>3, <3>4, <3>5 DEF Next
    <2> QED
      BY <2>2, StayIsStutter DEF Follows
  <1> QED
    BY <1>1, <1>2, <1>3

LEMMA InitFollows ==
  ASSUME Init
  PROVE  Promise!Init
  <1>1. Durable = [key \in Keys |-> None] /\ ~ Writing /\ UpNow = FALSE
    BY DEF Init, Durable, Writing, UpNow
  <1>2. CallNow = Idle
    BY <1>1, IdleIs
  <1> QED
    BY <1>1, <1>2 DEF Promise!Init, Promise!NoCall, CallNow, UpNow, Idle

(* The bytes on disk are a durable map: a write changes its key at one     *)
(* step, when its record is in the log (log_append), and no merge, start,  *)
(* shutdown, death or short write changes any; until a named event.        *)
THEOREM ImplementsDurable == Spec => ImplementsDurableMap
  <1>1. Init => Promise!Init
    BY InitFollows
  <1>2. Invariant /\ Invariant' /\ [Next]_vars => [pc' \notin Hazards => Promise!Next]_(Promise!vars)
    BY NextFollows
  <1> QED
    BY <1>1, <1>2, AlwaysInvariant, PTL DEF Spec, ImplementsDurableMap
=============================================================================
