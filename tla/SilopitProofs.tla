--------------------------- MODULE SilopitProofs ---------------------------
(* Theorems about Silopit, for every set of keys, chunk size, number of    *)
(* merges, of deaths and of files, with lookups beside the merge or not.   *)
EXTENDS Silopit, FiniteSetTheorems, SequenceTheorems, TLAPS

-----------------------------------------------------------------------------
(* Numbers *)

(* A set of natural numbers has a least element: induction over numbers   *)
(* in a form that quantifies over sets.                                    *)
LEMMA LeastElement ==
  ASSUME NEW T, T \subseteq Nat, T # {}
  PROVE  \E n \in T : \A k \in T : n <= k
  <1>1. PICK n \in T : \A k \in T : ~ (<<k, n>> \in OpToRel(<, Nat))
    BY NatLessThanWellFounded, WFMin
  <1>2. \A k \in T : ~ k < n
    BY <1>1 DEF OpToRel
  <1> QED
    BY <1>2

(* A finite set of integers has a greatest element. *)
LEMMA GreatestElement ==
  ASSUME NEW S, S \subseteq Int, IsFiniteSet(S), S # {}
  PROVE  \E n \in S : \A k \in S : n >= k
  <1>1. PICK above : above = [n \in S |-> {k \in S : k > n}]
    OBVIOUS
  <1>2. PICK T : T = {above[n] : n \in S}
    OBVIOUS
  <1>3. T \subseteq FiniteSubsetsOf(S) /\ T # {}
    <2>1. \A t \in T : t \in SUBSET S
      BY <1>1, <1>2
    <2>2. \A t \in T : IsFiniteSet(t)
      BY <2>1, FS_Subset
    <2> QED
      BY <1>2, <2>1, <2>2 DEF FiniteSubsetsOf
  <1>4. PICK t \in T : \A u \in T : ~ (<<u, t>> \in StrictSubsetOrdering(S))
    BY <1>3, FS_StrictSubsetOrderingWellFounded, WFMin
  <1>5. PICK n \in S : t = above[n]
    BY <1>2, <1>4
  <1>6. ASSUME NEW k \in S, k > n PROVE FALSE
    <2>1. above[k] \subseteq above[n] /\ k \in above[n] /\ k \notin above[k]
      <3>1. above[k] = {u \in S : u > k} /\ above[n] = {u \in S : u > n}
        BY <1>1
      <3>2. ~ (k > k) /\ \A u \in S : u > k => u > n
        BY <1>6
      <3> QED
        BY <1>6, <3>1, <3>2
    <2>2. above[k] \in T /\ above[k] \subseteq S /\ above[n] \subseteq S
      BY <1>1, <1>2
    <2> QED
      BY <1>4, <1>5, <2>1, <2>2 DEF StrictSubsetOrdering
  <1> QED
    BY <1>6

-----------------------------------------------------------------------------
(* Lists *)

Rows == [Keys -> Nat \cup {Deleted}]

LEMMA KeysAreFinite ==
  /\ Keys \subseteq Nat /\ Keys \subseteq Int /\ Nil \notin Keys /\ IsFiniteSet(Keys)
  /\ \A S \in SUBSET Keys : IsFiniteSet(S) /\ Cardinality(S) \in Nat
  /\ \A S \in SUBSET Keys : S # {} => Cardinality(S) >= 1
  <1>1. Keys \subseteq Nat /\ Keys \subseteq Int /\ Nil \notin Keys /\ IsFiniteSet(Keys)
    BY SilopitAssumption DEF Nil
  <1>2. \A S \in SUBSET Keys : IsFiniteSet(S)
    BY <1>1, FS_Subset
  <1>3. \A S \in SUBSET Keys : Cardinality(S) \in Nat
    BY <1>2, FS_CardinalityType
  <1>4. ASSUME NEW S \in SUBSET Keys, S # {} PROVE Cardinality(S) >= 1
    <2>1. Cardinality(S) # 0
      BY <1>2, <1>4, FS_EmptySet
    <2> QED
      BY <1>3, <2>1
  <1> QED
    BY <1>1, <1>2, <1>3, <1>4

LEMMA NodesAreKeys ==
  ASSUME NEW t
  PROVE  Nodes(t) \subseteq Keys /\ Adds(t) \subseteq Nodes(t)
  BY DEF Nodes, Adds

(* The least of some keys. *)
LEMMA LeastKey ==
  ASSUME NEW S \in SUBSET Keys, S # {}
  PROVE  Min(S) \in S /\ \A k \in S : Min(S) <= k
  <1>1. \E k \in S : \A j \in S : k <= j
    BY KeysAreFinite, LeastElement
  <1> QED
    BY <1>1, Zenon DEF Min

LEMMA GreatestKey ==
  ASSUME NEW S \in SUBSET Keys, S # {}
  PROVE  Max(S) \in S /\ \A k \in S : Max(S) >= k
  <1>1. S \subseteq Int /\ IsFiniteSet(S)
    BY KeysAreFinite
  <1>2. \E k \in S : \A j \in S : k >= j
    BY <1>1, GreatestElement
  <1> QED
    BY <1>2, Zenon DEF Max

LEMMA AfterIsANode ==
  ASSUME NEW t, NEW k
  PROVE  After(t, k) = Nil \/ After(t, k) \in Nodes(t)
  <1> DEFINE later == {j \in Nodes(t) : j > k}
  <1>1. later \in SUBSET Keys
    BY NodesAreKeys
  <1> QED
    BY <1>1, LeastKey DEF After

LEMMA AListHasAFirst ==
  ASSUME NEW t, Nodes(t) # {}
  PROVE  After(t, Nil) \in Nodes(t)
  <1> DEFINE later == {j \in Nodes(t) : j > Nil}
  <1>1. \A k \in Keys : k > Nil
    BY SilopitAssumption DEF Nil
  <1>2. later = Nodes(t) /\ later \in SUBSET Keys
    BY <1>1, NodesAreKeys
  <1> QED
    BY <1>2, LeastKey DEF After

LEMMA OnlyKeeps ==
  ASSUME NEW t \in Rows, NEW S
  PROVE  /\ Only(t, S) \in Rows
         /\ Nodes(Only(t, S)) = Nodes(t) \cap S /\ Adds(Only(t, S)) = Adds(t) \cap S
  BY DEF Rows, Only, Nodes, Adds, Nil

LEMMA NotEmptyHasNodes ==
  ASSUME NEW t \in Rows
  PROVE  t # Empty <=> Nodes(t) # {}
  BY DEF Rows, Empty, Nodes

(* No more than n nodes are cut off, and one at least if one is wanted. *)
LEMMA FirstFew ==
  ASSUME NEW t, NEW n \in Nat
  PROVE  /\ First(t, n) \subseteq Nodes(t)
         /\ Cardinality(First(t, n)) <= n
         /\ n >= 1 /\ Nodes(t) # {} => First(t, n) # {}
  <1> DEFINE T == First(t, n)
  <1>1. T \subseteq Nodes(t) /\ T \in SUBSET Keys /\ Nodes(t) \in SUBSET Keys
    BY NodesAreKeys DEF First
  <1>2. Cardinality(T) <= n
    <2>1. CASE T = {}
      BY <2>1, FS_EmptySet
    <2>2. CASE T # {}
      <3>1. PICK k \in T : \A j \in T : k >= j
        <4> HIDE DEF T
        <4> QED
          BY <1>1, <2>2, GreatestKey
      <3> DEFINE U == {j \in Nodes(t) : j <= k}
      <3>2. U \in SUBSET Keys /\ Cardinality(U) <= n
        BY <1>1, <3>1 DEF First
      <3>3. T \subseteq U
        BY <1>1, <3>1, KeysAreFinite
      <3> HIDE DEF T, U
      <3>4. IsFiniteSet(U) /\ Cardinality(U) \in Nat /\ Cardinality(T) \in Nat
        BY <1>1, <3>2, KeysAreFinite
      <3>5. Cardinality(T) <= Cardinality(U)
        BY <3>3, <3>4, FS_Subset
      <3> QED
        BY <3>2, <3>4, <3>5
    <2> QED
      BY <2>1, <2>2
  <1>3. ASSUME n >= 1, Nodes(t) # {} PROVE T # {}
    <2>1. PICK k : k = Min(Nodes(t))
      OBVIOUS
    <2>2. k \in Nodes(t) /\ \A j \in Nodes(t) : k <= j
      BY <1>1, <1>3, <2>1, LeastKey
    <2>3. {j \in Nodes(t) : j <= k} = {k}
      <3>1. \A i, j \in Int : i <= j /\ j <= i => i = j
        OBVIOUS
      <3>2. k <= k /\ \A j \in Nodes(t) : j <= k => j = k
        BY <1>1, <2>2, <3>1, KeysAreFinite
      <3> QED
        BY <2>2, <3>2
    <2>4. Cardinality({k}) = 1
      BY FS_Singleton
    <2> QED
      BY <1>3, <2>2, <2>3, <2>4 DEF First
  <1> QED
    BY <1>1, <1>2, <1>3

(* A list of nodes is cut into chunks of one node at least, and of two     *)
(* chunks' nodes at most.                                                  *)
LEMMA ChunksAreSmall ==
  ASSUME NEW count \in Nat \ {0}
  PROVE  Chunks(count) \in Seq(1 .. 2 * MaxCount) /\ Chunks(count) # << >>
  <1>1. MaxCount \in Nat \ {0}
    BY SilopitAssumption
  <1>2. CASE count <= 2 * MaxCount
    <2>1. count \in 1 .. 2 * MaxCount
      BY <1>1, <1>2
    <2> QED
      BY <1>2, <2>1 DEF Chunks
  <1>3. CASE count > 2 * MaxCount
    <2> DEFINE mul == count \div MaxCount
               rem == count % MaxCount
    <2>1. mul \in Nat /\ mul >= 1 /\ rem \in 0 .. MaxCount - 1
      BY <1>1, <1>3, SMTT(30)
    <2> HIDE DEF mul, rem
    <2>2. MaxCount \in 1 .. 2 * MaxCount /\ MaxCount + rem \in 1 .. 2 * MaxCount
      BY <1>1, <2>1
    <2>3. Chunks(count) = [j \in 1 .. mul |-> IF j = mul THEN MaxCount + rem ELSE MaxCount]
      BY <1>1, <1>3 DEF Chunks, mul, rem
    <2>4. Chunks(count) \in [1 .. mul -> 1 .. 2 * MaxCount]
      BY <2>2, <2>3
    <2>5. Chunks(count) \in Seq(1 .. 2 * MaxCount) /\ Len(Chunks(count)) = mul
      <3>1. ASSUME NEW S, NEW f \in [1 .. mul -> S] PROVE f \in Seq(S) /\ Len(f) = mul
        BY <2>1
      <3> QED
        BY <2>4, <3>1
    <2> QED
      BY <2>1, <2>5
  <1> QED
    BY <1>1, <1>2, <1>3


-----------------------------------------------------------------------------
(* The binary search *)

(* One turn of its loop, with the rest of it left to f. *)
SearchFrom(nodes, key, f, b) ==
  IF b[1] >= b[2] THEN b[1]
  ELSE LET i == (b[2] - b[1]) \div 2 + b[1]
       IN CASE key = nodes[i + 1].end -> i
            [] key < nodes[i + 1].end -> f[<<b[1], i>>]
            [] OTHER                  -> f[<<i + 1, b[2]>>]

Pairs(nodes) == (0 .. Len(nodes)) \X (0 .. Len(nodes))

(* f searches right wherever no more than n nodes are left. *)
Searches(nodes, key, f, n) ==
  /\ f = [b \in Pairs(nodes) |-> f[b]]
  /\ \A b \in Pairs(nodes) : b[2] - b[1] <= n => f[b] = SearchFrom(nodes, key, f, b)

Sought(nodes, key) ==
  CHOOSE f : f = [b \in Pairs(nodes) |-> SearchFrom(nodes, key, f, b)]

LEMMA SearchIsSought ==
  ASSUME NEW nodes, NEW key
  PROVE  Search(nodes, key) = Sought(nodes, key)[<<0, Len(nodes)>>]
  BY DEF Search, Sought, SearchFrom, Pairs

LEMMA Middle ==
  ASSUME NEW left \in Nat, NEW right \in Nat, left < right
  PROVE  /\ (right - left) \div 2 + left \in left .. right - 1
         /\ (right - left) \div 2 + left \in Nat
  OBVIOUS

(* A turn asks f of fewer nodes only. *)
LEMMA TurnAsksLess ==
  ASSUME NEW nodes, Len(nodes) \in Nat, NEW key, NEW f, NEW g, NEW b \in Pairs(nodes),
         \A c \in Pairs(nodes) : c[2] - c[1] < b[2] - b[1] => f[c] = g[c]
  PROVE  SearchFrom(nodes, key, f, b) = SearchFrom(nodes, key, g, b)
  <1>1. b[1] \in 0 .. Len(nodes) /\ b[2] \in 0 .. Len(nodes)
    BY DEF Pairs
  <1>2. CASE b[1] >= b[2]
    BY <1>2 DEF SearchFrom
  <1>3. CASE b[1] < b[2]
    <2>1. PICK i : i = (b[2] - b[1]) \div 2 + b[1]
      OBVIOUS
    <2>2. i \in b[1] .. b[2] - 1 /\ i \in Nat
      BY <1>1, <1>3, <2>1, Middle
    <2>3. <<b[1], i>> \in Pairs(nodes) /\ <<i + 1, b[2]>> \in Pairs(nodes)
      BY <1>1, <2>2 DEF Pairs
    <2>4. i - b[1] < b[2] - b[1] /\ b[2] - (i + 1) < b[2] - b[1]
      BY <1>1, <2>2
    <2>5. f[<<b[1], i>>] = g[<<b[1], i>>] /\ f[<<i + 1, b[2]>>] = g[<<i + 1, b[2]>>]
      BY <2>3, <2>4
    <2>6. ~ (b[1] >= b[2])
      BY <1>1, <1>3
    <2> QED
      BY <2>1, <2>5, <2>6 DEF SearchFrom
  <1> QED
    BY <1>1, <1>2, <1>3

LEMMA SomethingSearches ==
  ASSUME NEW nodes, Len(nodes) \in Nat, NEW key
  PROVE  \A n \in Nat : \E f : Searches(nodes, key, f, n)
  <1> DEFINE Bad == {n \in Nat : ~ \E f : Searches(nodes, key, f, n)}
  <1>1. CASE Bad = {}
    BY <1>1
  <1>2. CASE Bad # {}
    <2>1. PICK n \in Bad : \A k \in Bad : n <= k
      <3>1. Bad \subseteq Nat
        OBVIOUS
      <3> HIDE DEF Bad
      <3> QED
        BY <1>2, <3>1, LeastElement
    <2>2. n # 0
      <3> DEFINE f == [b \in Pairs(nodes) |-> b[1]]
      <3>1. \A b \in Pairs(nodes) : b[2] - b[1] <= 0 => f[b] = SearchFrom(nodes, key, f, b)
        BY DEF SearchFrom, Pairs
      <3>2. f = [b \in Pairs(nodes) |-> f[b]]
        OBVIOUS
      <3> HIDE DEF f
      <3>3. Searches(nodes, key, f, 0)
        BY <3>1, <3>2 DEF Searches
      <3> QED
        BY <2>1, <3>3
    <2>3. n \in Nat /\ n - 1 \in Nat /\ n - 1 \notin Bad
      BY <2>1, <2>2
    <2>4. PICK f : Searches(nodes, key, f, n - 1)
      BY <2>3
    <2> DEFINE g == [b \in Pairs(nodes) |-> SearchFrom(nodes, key, f, b)]
    <2>5. g = [b \in Pairs(nodes) |-> g[b]]
      OBVIOUS
    <2>6. \A b \in Pairs(nodes) : g[b] = SearchFrom(nodes, key, f, b)
      OBVIOUS
    <2> HIDE DEF g
    <2>7. ASSUME NEW b \in Pairs(nodes), b[2] - b[1] <= n
          PROVE  g[b] = SearchFrom(nodes, key, g, b)
      <3>1. ASSUME NEW c \in Pairs(nodes), c[2] - c[1] < b[2] - b[1]
            PROVE  f[c] = g[c]
        <4>1. \A i, j, k \in Int : i < j /\ j <= k => i <= k - 1
          OBVIOUS
        <4>2. c[2] - c[1] \in Int /\ b[2] - b[1] \in Int
          BY DEF Pairs
        <4>3. c[2] - c[1] <= n - 1
          BY <2>3, <2>7, <3>1, <4>1, <4>2
        <4> QED
          BY <2>4, <2>6, <4>3 DEF Searches
      <3> QED
        BY <2>6, <3>1, TurnAsksLess
    <2>8. Searches(nodes, key, g, n)
      BY <2>5, <2>7 DEF Searches
    <2> QED
      BY <2>1, <2>8
  <1> QED
    BY <1>1, <1>2

LEMMA SoughtIs ==
  ASSUME NEW nodes, Len(nodes) \in Nat, NEW key, NEW b \in Pairs(nodes)
  PROVE  Sought(nodes, key)[b] = SearchFrom(nodes, key, Sought(nodes, key), b)
  <1>1. PICK f : Searches(nodes, key, f, Len(nodes))
    BY SomethingSearches
  <1>2. \A c \in Pairs(nodes) : f[c] = SearchFrom(nodes, key, f, c)
    <2>1. \A c \in Pairs(nodes) : c[2] - c[1] <= Len(nodes)
      BY DEF Pairs
    <2> QED
      BY <1>1, <2>1 DEF Searches
  <1>3. f = [c \in Pairs(nodes) |-> SearchFrom(nodes, key, f, c)]
    BY <1>1, <1>2, Zenon DEF Searches
  <1>4. PICK s : s = Sought(nodes, key)
    OBVIOUS
  <1>5. s = [c \in Pairs(nodes) |-> SearchFrom(nodes, key, s, c)]
    BY <1>3, <1>4, Zenon DEF Sought
  <1> QED
    BY <1>4, <1>5

(* What the search leaves behind it: a node that does not end before the   *)
(* key, and one that does, unless the key is an end itself.                *)
Between(nodes, key, b, i) ==
  /\ i \in b[1] .. b[2]
  /\ i = b[2] \/ key <= nodes[i + 1].end
  /\ i = b[1] \/ nodes[i].end < key \/ (i < b[2] /\ nodes[i + 1].end = key)

LEMMA SoughtIsBetween ==
  ASSUME NEW nodes, Len(nodes) \in Nat, NEW key \in Int,
         \A i \in 1 .. Len(nodes) : nodes[i].end \in Int
  PROVE  \A b \in Pairs(nodes) :
           b[1] <= b[2] => Between(nodes, key, b, Sought(nodes, key)[b])
  <1> DEFINE s == Sought(nodes, key)
             Wrong(b) == b[1] <= b[2] /\ ~ Between(nodes, key, b, s[b])
             Bad == {n \in Nat : \E b \in Pairs(nodes) : Wrong(b) /\ b[2] - b[1] = n}
  <1>0. \A b \in Pairs(nodes) : /\ b[1] \in 0 .. Len(nodes) /\ b[2] \in 0 .. Len(nodes)
                                /\ b[1] \in Nat /\ b[2] \in Nat /\ b[2] - b[1] \in Int
    BY DEF Pairs
  <1>1. CASE Bad = {}
    <2>1. ASSUME NEW b \in Pairs(nodes), b[1] <= b[2] PROVE b[2] - b[1] \in Nat
      BY <1>0, <2>1
    <2> QED
      BY <1>1, <2>1
  <1>2. CASE Bad # {}
    <2>1. PICK n \in Bad : \A k \in Bad : n <= k
      <3>1. Bad \subseteq Nat
        OBVIOUS
      <3> HIDE DEF Bad
      <3> QED
        BY <1>2, <3>1, LeastElement
    <2>2. PICK b \in Pairs(nodes) : Wrong(b) /\ b[2] - b[1] = n
      BY <2>1
    <2>3. ASSUME NEW c \in Pairs(nodes), c[1] <= c[2], c[2] - c[1] < n
          PROVE  Between(nodes, key, c, s[c])
      <3>1. c[2] - c[1] \in Nat
        BY <1>0, <2>3
      <3>2. c[2] - c[1] \notin Bad
        BY <2>1, <2>3, <3>1
      <3> QED
        BY <2>3, <3>1, <3>2
    <2> HIDE DEF Bad
    <2>4. s[b] = SearchFrom(nodes, key, s, b)
      BY SoughtIs
    <2> HIDE DEF s
    <2>5. ASSUME b[1] = b[2] PROVE Between(nodes, key, b, s[b])
      <3>1. s[b] = b[1]
        BY <1>0, <2>4, <2>5 DEF SearchFrom
      <3> QED
        BY <1>0, <2>5, <3>1 DEF Between
    <2>6. ASSUME b[1] < b[2] PROVE Between(nodes, key, b, s[b])
      <3>1. PICK i : i = (b[2] - b[1]) \div 2 + b[1]
        OBVIOUS
      <3>2. i \in b[1] .. b[2] - 1 /\ i \in Nat
        BY <1>0, <2>6, <3>1, Middle
      <3>3. i + 1 \in 1 .. Len(nodes) /\ nodes[i + 1].end \in Int
        BY <1>0, <3>2
      <3>4. s[b] = CASE key = nodes[i + 1].end -> i
                     [] key < nodes[i + 1].end -> s[<<b[1], i>>]
                     [] OTHER                  -> s[<<i + 1, b[2]>>]
        <4>1. ~ (b[1] >= b[2])
          BY <1>0, <2>6
        <4> QED
          BY <2>4, <3>1, <4>1 DEF SearchFrom
      <3>5. CASE key = nodes[i + 1].end
        <4>1. s[b] = i
          BY <3>4, <3>5
        <4> QED
          BY <1>0, <3>2, <3>3, <3>5, <4>1 DEF Between
      <3>6. CASE key < nodes[i + 1].end
        <4>1. s[b] = s[<<b[1], i>>]
          BY <3>3, <3>4, <3>6
        <4>2. <<b[1], i>> \in Pairs(nodes) /\ b[1] <= i /\ i - b[1] < n
          BY <1>0, <2>2, <3>2 DEF Pairs
        <4>3. Between(nodes, key, <<b[1], i>>, s[b])
          BY <2>3, <4>1, <4>2
        <4>4. s[b] \in b[1] .. i /\ (s[b] = i \/ key <= nodes[s[b] + 1].end)
              /\ (\/ s[b] = b[1] \/ nodes[s[b]].end < key
                  \/ s[b] < i /\ nodes[s[b] + 1].end = key)
          BY <4>3 DEF Between
        <4> QED
          BY <1>0, <3>2, <3>3, <3>6, <4>4 DEF Between
      <3>7. CASE key > nodes[i + 1].end
        <4>1. s[b] = s[<<i + 1, b[2]>>]
          BY <3>3, <3>4, <3>7
        <4>2. <<i + 1, b[2]>> \in Pairs(nodes) /\ i + 1 <= b[2] /\ b[2] - (i + 1) < n
          BY <1>0, <2>2, <3>2, <3>3 DEF Pairs
        <4>3. Between(nodes, key, <<i + 1, b[2]>>, s[b])
          BY <2>3, <4>1, <4>2
        <4>4. s[b] \in i + 1 .. b[2] /\ (s[b] = b[2] \/ key <= nodes[s[b] + 1].end)
              /\ (\/ s[b] = i + 1 \/ nodes[s[b]].end < key
                  \/ s[b] < b[2] /\ nodes[s[b] + 1].end = key)
          BY <4>3 DEF Between
        <4> QED
          BY <1>0, <3>2, <3>3, <3>7, <4>4 DEF Between
      <3> QED
        BY <3>3, <3>5, <3>6, <3>7
    <2>7. b[1] <= b[2] => b[1] = b[2] \/ b[1] < b[2]
      BY <1>0
    <2> QED
      BY <2>2, <2>5, <2>6, <2>7
  <1> QED
    BY <1>1, <1>2

(* The index of a node that does not end before the key, behind one that   *)
(* does; whether the ends ascend or not.                                   *)
LEMMA SearchFinds ==
  ASSUME NEW nodes, Len(nodes) \in Nat, NEW key \in Int,
         \A i \in 1 .. Len(nodes) : nodes[i].end \in Int
  PROVE  /\ Search(nodes, key) \in 0 .. Len(nodes)
         /\ Search(nodes, key) < Len(nodes) => key <= nodes[Search(nodes, key) + 1].end
         /\ Search(nodes, key) > 0 =>
              \/ nodes[Search(nodes, key)].end < key
              \/ /\ Search(nodes, key) < Len(nodes)
                 /\ nodes[Search(nodes, key) + 1].end = key
  <1> DEFINE b == <<0, Len(nodes)>>
  <1>1. b \in Pairs(nodes) /\ b[1] <= b[2]
    BY DEF Pairs
  <1>2. Between(nodes, key, b, Sought(nodes, key)[b])
    BY <1>1, SoughtIsBetween
  <1>3. PICK i : i = Search(nodes, key)
    OBVIOUS
  <1>4. Between(nodes, key, b, i)
    BY <1>2, <1>3, SearchIsSought
  <1>5. /\ i \in 0 .. Len(nodes)
        /\ i = Len(nodes) \/ key <= nodes[i + 1].end
        /\ i = 0 \/ nodes[i].end < key \/ (i < Len(nodes) /\ nodes[i + 1].end = key)
    BY <1>4 DEF Between
  <1> QED
    BY <1>3, <1>5


-----------------------------------------------------------------------------
(* The table *)

Node(end, file, lsn) == [end |-> end, name |-> file, lsn |-> lsn]

(* A node is put at an index, and the ones from there on move up. *)
LEMMA PuttingPuts ==
  ASSUME NEW S, NEW nodes \in Seq(S), NEW i \in 0 .. Len(nodes), NEW end, NEW file,
         Node(end, file, Len(nodes) + 1) \in S
  PROVE  /\ PutAt(nodes, i, end, file) \in Seq(S)
         /\ Len(PutAt(nodes, i, end, file)) = Len(nodes) + 1
         /\ \A j \in 1 .. Len(nodes) + 1 :
              PutAt(nodes, i, end, file)[j]
                = IF j <= i THEN nodes[j]
                  ELSE IF j = i + 1 THEN Node(end, file, Len(nodes) + 1)
                  ELSE nodes[j - 1]
  <1> DEFINE e == Node(end, file, Len(nodes) + 1)
             a == SubSeq(nodes, 1, i)
             b == SubSeq(nodes, i + 1, Len(nodes))
  <1>1. Len(nodes) \in Nat /\ i \in Nat /\ i <= Len(nodes)
    BY LenProperties
  <1>2. PutAt(nodes, i, end, file) = (a \o <<e>>) \o b
    <2>1. PICK k : k = (i + 1) - 1
      OBVIOUS
    <2>2. PutAt(nodes, i, end, file) = (SubSeq(nodes, 1, k) \o <<e>>) \o b
      BY <2>1, Zenon DEF PutAt, InsertAt, Node
    <2>3. k = i
      BY <1>1, <2>1
    <2> QED
      BY <2>2, <2>3
  <1>3. a \in Seq(S) /\ Len(a) = i /\ \A j \in 1 .. i : a[j] = nodes[j]
    BY <1>1, SubSeqProperties
  <1>4. b \in Seq(S) /\ Len(b) = Len(nodes) - i /\ \A j \in 1 .. Len(nodes) - i : b[j] = nodes[i + j]
    BY <1>1, SubSeqProperties
  <1>5. <<e>> \in Seq(S) /\ Len(<<e>>) = 1 /\ <<e>>[1] = e
    OBVIOUS
  <1> HIDE DEF a, b, e
  <1>6. PICK c : c = a \o <<e>>
    OBVIOUS
  <1>7. c \in Seq(S) /\ Len(c) = i + 1 /\ \A j \in 1 .. i + 1 : c[j] = IF j <= i THEN nodes[j] ELSE e
    <2>1. /\ c \in Seq(S) /\ Len(c) = Len(a) + Len(<<e>>)
          /\ \A j \in 1 .. Len(a) + Len(<<e>>) :
               c[j] = IF j <= Len(a) THEN a[j] ELSE <<e>>[j - Len(a)]
      BY <1>3, <1>5, <1>6, ConcatProperties
    <2>2. Len(a) = i /\ Len(<<e>>) = 1 /\ <<e>>[1] = e /\ i \in Nat
      BY <1>1, <1>3, <1>5
    <2>3. ASSUME NEW j \in 1 .. i + 1 PROVE c[j] = IF j <= i THEN nodes[j] ELSE e
      <3>1. CASE j <= i
        BY <1>3, <2>1, <2>2, <2>3, <3>1
      <3>2. CASE ~ j <= i
        <4>1. j - i = 1 /\ j \in 1 .. Len(a) + Len(<<e>>)
          BY <2>2, <2>3, <3>2
        <4> QED
          BY <2>1, <2>2, <3>2, <4>1
      <3> QED
        BY <3>1, <3>2
    <2> QED
      BY <2>1, <2>2, <2>3
  <1>8. PICK d : d = c \o b
    OBVIOUS
  <1>9. /\ d \in Seq(S) /\ Len(d) = Len(nodes) + 1
        /\ \A j \in 1 .. Len(nodes) + 1 : d[j] = IF j <= i + 1 THEN c[j] ELSE b[j - (i + 1)]
    <2>1. /\ d \in Seq(S) /\ Len(d) = Len(c) + Len(b)
          /\ \A j \in 1 .. Len(c) + Len(b) : d[j] = IF j <= Len(c) THEN c[j] ELSE b[j - Len(c)]
      BY <1>4, <1>7, <1>8, ConcatProperties
    <2> QED
      BY <1>1, <1>4, <1>7, <2>1
  <1>10. ASSUME NEW j \in 1 .. Len(nodes) + 1
         PROVE  d[j] = IF j <= i THEN nodes[j] ELSE IF j = i + 1 THEN e ELSE nodes[j - 1]
    <2>1. CASE j <= i + 1
      BY <1>1, <1>7, <1>9, <2>1
    <2>2. CASE j > i + 1
      <3>1. j - (i + 1) \in 1 .. Len(nodes) - i /\ i + (j - (i + 1)) = j - 1
            /\ ~ (j <= i + 1) /\ ~ (j <= i) /\ j # i + 1
        BY <1>1, <2>2
      <3>2. b[j - (i + 1)] = nodes[j - 1]
        BY <1>4, <3>1
      <3> QED
        BY <1>9, <3>1, <3>2
    <2> QED
      BY <1>1, <2>1, <2>2
  <1> QED
    BY <1>2, <1>6, <1>8, <1>9, <1>10 DEF e

LEMMA EntriesEnd ==
  ASSUME NEW nodes \in Seq(Entries)
  PROVE  /\ Len(nodes) \in Nat /\ DOMAIN nodes = 1 .. Len(nodes)
         /\ \A i \in 1 .. Len(nodes) :
              /\ nodes[i] \in Entries /\ nodes[i].end \in Keys /\ nodes[i].end \in Int
              /\ nodes[i].name \in Names /\ nodes[i].lsn \in Nat
  <1>1. Len(nodes) \in Nat /\ DOMAIN nodes = 1 .. Len(nodes)
    BY LenProperties
  <1>2. \A i \in 1 .. Len(nodes) : nodes[i] \in Entries
    BY <1>1, ElementOfSeq
  <1> QED
    BY <1>1, <1>2, KeysAreFinite DEF Entries

LEMMA NodesAreEntries ==
  ASSUME NEW nodes \in Seq(Entries), NEW end \in Keys, NEW file \in Names
  PROVE  Node(end, file, Len(nodes) + 1) \in Entries
  <1>1. Len(nodes) + 1 \in Nat \ {0}
    BY EntriesEnd
  <1> QED
    BY <1>1 DEF Node, Entries

LEMMA SearchIsAnIndex ==
  ASSUME NEW nodes \in Seq(Entries), NEW key \in Keys
  PROVE  Search(nodes, key) \in 0 .. Len(nodes)
  BY EntriesEnd, KeysAreFinite, SearchFinds

LEMMA MetaSetKeepsEntries ==
  ASSUME NEW nodes \in Seq(Entries), NEW end \in Keys, NEW file \in Names
  PROVE  MetaSet(nodes, end, file) \in Seq(Entries)
  BY SearchIsAnIndex, NodesAreEntries, PuttingPuts DEF MetaSet


-----------------------------------------------------------------------------
(* Loading *)

Loaded(fs, order) ==
  FoldLeft(LAMBDA nodes, n : MetaSet(nodes, fs[n].end, n), << >>, order)

(* One step of the fold over the files at the places s, the rest left to f. *)
FoldStep(fs, order, f, s) ==
  IF s = {} THEN << >>
  ELSE MetaSet(f[s \ {Max(s)}], fs[order[Max(s)]].end, order[Max(s)])

Places(order) == SUBSET DOMAIN order

Fold(fs, order) == CHOOSE f : f = [s \in Places(order) |-> FoldStep(fs, order, f, s)]

(* f folds any of the first n places. *)
FoldsTo(fs, order, f, n) ==
  /\ f = [s \in Places(order) |-> f[s]]
  /\ \A s \in Places(order) : s \subseteq 1 .. n => f[s] = FoldStep(fs, order, f, s)

LEMMA LoadedIsFold ==
  ASSUME NEW fs, NEW order
  PROVE  Loaded(fs, order) = Fold(fs, order)[DOMAIN order]
  BY DEF Loaded, FoldLeft, MapThenFoldSet, Fold, FoldStep, Places

LEMMA LastPlace ==
  ASSUME NEW N \in Nat, NEW s, s \subseteq 1 .. N, s # {}
  PROVE  /\ Max(s) \in s
         /\ \A n \in Nat : s \subseteq 1 .. n => s \ {Max(s)} \subseteq 1 .. n - 1
  <1>1. IsFiniteSet(1 .. N) /\ 1 .. N \subseteq Int
    BY FS_Interval
  <1>2. IsFiniteSet(s) /\ s \subseteq Int
    BY <1>1, FS_Subset
  <1>3. \E k \in s : \A j \in s : k >= j
    BY <1>2, GreatestElement
  <1>4. PICK k : k = Max(s)
    OBVIOUS
  <1>5. k \in s /\ \A j \in s : k >= j
    BY <1>3, <1>4, Zenon DEF Max
  <1>6. ASSUME NEW n \in Nat, s \subseteq 1 .. n PROVE s \ {k} \subseteq 1 .. n - 1
    <2>1. ASSUME NEW j \in s, j # k PROVE j \in 1 .. n - 1
      <3>1. j \in 1 .. n /\ k \in 1 .. n /\ k >= j
        BY <1>5, <1>6
      <3> QED
        BY <2>1, <3>1
    <2> QED
      BY <2>1
  <1> QED
    BY <1>4, <1>5, <1>6

LEMMA SomethingFolds ==
  ASSUME NEW N \in Nat, NEW fs, NEW order, DOMAIN order = 1 .. N
  PROVE  \A n \in Nat : \E f : FoldsTo(fs, order, f, n)
  <1> DEFINE Bad == {n \in Nat : ~ \E f : FoldsTo(fs, order, f, n)}
  <1>1. CASE Bad = {}
    BY <1>1
  <1>2. CASE Bad # {}
    <2>1. PICK n \in Bad : \A k \in Bad : n <= k
      <3>1. Bad \subseteq Nat
        OBVIOUS
      <3> HIDE DEF Bad
      <3> QED
        BY <1>2, <3>1, LeastElement
    <2>2. n # 0
      <3> DEFINE f == [s \in Places(order) |-> << >>]
      <3>1. \A s \in Places(order) : s \subseteq 1 .. 0 => f[s] = FoldStep(fs, order, f, s)
        BY DEF FoldStep
      <3>2. f = [s \in Places(order) |-> f[s]]
        OBVIOUS
      <3> HIDE DEF f
      <3>3. FoldsTo(fs, order, f, 0)
        BY <3>1, <3>2 DEF FoldsTo
      <3> QED
        BY <2>1, <3>3
    <2>3. n \in Nat /\ n - 1 \in Nat /\ n - 1 \notin Bad
      BY <2>1, <2>2
    <2>4. PICK f : FoldsTo(fs, order, f, n - 1)
      BY <2>3
    <2> DEFINE g == [s \in Places(order) |-> FoldStep(fs, order, f, s)]
    <2>5. g = [s \in Places(order) |-> g[s]]
      OBVIOUS
    <2>6. \A s \in Places(order) : g[s] = FoldStep(fs, order, f, s)
      OBVIOUS
    <2> HIDE DEF g
    <2>7. ASSUME NEW s \in Places(order), s \subseteq 1 .. n
          PROVE  g[s] = FoldStep(fs, order, g, s)
      <3>1. CASE s = {}
        BY <2>6, <3>1 DEF FoldStep
      <3>2. CASE s # {}
        <4>1. PICK u : u = s \ {Max(s)}
          OBVIOUS
        <4>2. u \in Places(order) /\ u \subseteq 1 .. n - 1
          BY <2>3, <2>7, <3>2, <4>1, LastPlace DEF Places
        <4>3. g[u] = f[u]
          BY <2>4, <2>6, <4>2 DEF FoldsTo
        <4> QED
          BY <2>6, <3>2, <4>1, <4>3 DEF FoldStep
      <3> QED
        BY <3>1, <3>2
    <2>8. FoldsTo(fs, order, g, n)
      BY <2>5, <2>7 DEF FoldsTo
    <2> QED
      BY <2>1, <2>8
  <1> QED
    BY <1>1, <1>2

LEMMA FoldIs ==
  ASSUME NEW N \in Nat, NEW fs, NEW order, DOMAIN order = 1 .. N, NEW s \in Places(order)
  PROVE  Fold(fs, order)[s] = FoldStep(fs, order, Fold(fs, order), s)
  <1>1. PICK f : FoldsTo(fs, order, f, N)
    BY SomethingFolds
  <1>2. \A u \in Places(order) : f[u] = FoldStep(fs, order, f, u)
    BY <1>1 DEF FoldsTo, Places
  <1>3. f = [u \in Places(order) |-> FoldStep(fs, order, f, u)]
    BY <1>1, <1>2, Zenon DEF FoldsTo
  <1>4. PICK g : g = Fold(fs, order)
    OBVIOUS
  <1>5. g = [u \in Places(order) |-> FoldStep(fs, order, g, u)]
    BY <1>3, <1>4, Zenon DEF Fold
  <1> QED
    BY <1>4, <1>5

(* The table after the first n files, and with the n-th put into a table. *)
Upto(fs, order, n) == Fold(fs, order)[1 .. n]
With(fs, order, nodes, n) == MetaSet(nodes, fs[order[n]].end, order[n])

LEMMA LoadingEnds ==
  ASSUME NEW N \in Nat, NEW fs, NEW order, DOMAIN order = 1 .. N
  PROVE  Loaded(fs, order) = Upto(fs, order, N) /\ Upto(fs, order, 0) = << >>
  <1>1. Loaded(fs, order) = Upto(fs, order, N)
    BY LoadedIsFold DEF Upto
  <1>2. Upto(fs, order, 0) = << >>
    <2>1. 1 .. 0 = {} /\ {} \in Places(order)
      BY DEF Places
    <2> QED
      BY <2>1, FoldIs DEF FoldStep, Upto
  <1> QED
    BY <1>1, <1>2

LEMMA LoadingIsOneByOne ==
  ASSUME NEW N \in Nat, NEW fs, NEW order, DOMAIN order = 1 .. N, NEW n \in 1 .. N
  PROVE  Upto(fs, order, n) = With(fs, order, Upto(fs, order, n - 1), n)
  <1>1. PICK s : s = 1 .. n
    OBVIOUS
  <1>2. s \in Places(order) /\ s # {}
    BY <1>1 DEF Places
  <1>3. Max(s) = n
    <2>1. PICK k : k = Max(s)
      OBVIOUS
    <2>2. \A j \in s : n >= j
      BY <1>1
    <2>3. n \in s
      BY <1>1
    <2>4. k \in s /\ \A j \in s : k >= j
      BY <2>1, <2>2, <2>3, Zenon DEF Max
    <2>5. k \in Int /\ k >= n /\ n >= k
      BY <1>1, <2>2, <2>3, <2>4
    <2> QED
      BY <2>1, <2>5
  <1>4. s \ {n} = 1 .. n - 1
    BY <1>1
  <1>5. Fold(fs, order)[s] = FoldStep(fs, order, Fold(fs, order), s)
    BY <1>2, FoldIs
  <1> QED
    BY <1>1, <1>2, <1>3, <1>4, <1>5 DEF FoldStep, Upto, With

(* Whatever files are loaded, in any order, the table is one of entries.   *)
LEMMA LoadedAreEntries ==
  ASSUME NEW N \in Nat, NEW fs, NEW order \in [1 .. N -> Names],
         \A n \in 1 .. N : fs[order[n]].end \in Keys
  PROVE  Loaded(fs, order) \in Seq(Entries)
  <1> DEFINE Bad == {n \in 0 .. N : Upto(fs, order, n) \notin Seq(Entries)}
  <1>1. /\ Loaded(fs, order) = Upto(fs, order, N)
        /\ Upto(fs, order, 0) = << >>
        /\ \A n \in 1 .. N : Upto(fs, order, n) = With(fs, order, Upto(fs, order, n - 1), n)
    <2>1. DOMAIN order = 1 .. N
      OBVIOUS
    <2> QED
      BY <2>1, LoadingEnds, LoadingIsOneByOne
  <1>2. CASE Bad = {}
    BY <1>1, <1>2
  <1>3. CASE Bad # {}
    <2>1. PICK n \in Bad : \A k \in Bad : n <= k
      <3>1. Bad \subseteq Nat
        OBVIOUS
      <3> HIDE DEF Bad
      <3> QED
        BY <1>3, <3>1, LeastElement
    <2>2. n # 0
      <3>1. << >> \in Seq(Entries)
        BY EmptySeq
      <3>2. Upto(fs, order, n) \notin Seq(Entries)
        BY <2>1
      <3> QED
        BY <1>1, <3>1, <3>2
    <2>3. n \in 1 .. N /\ n - 1 \in 0 .. N /\ n - 1 \notin Bad
      BY <2>1, <2>2
    <2>4. Upto(fs, order, n - 1) \in Seq(Entries)
      BY <2>3
    <2>5. fs[order[n]].end \in Keys /\ order[n] \in Names
      BY <2>3
    <2>6. With(fs, order, Upto(fs, order, n - 1), n) \in Seq(Entries)
      BY <2>4, <2>5, MetaSetKeepsEntries DEF With
    <2> QED
      BY <1>1, <2>1, <2>3, <2>6
  <1> QED
    BY <1>2, <1>3


-----------------------------------------------------------------------------
(* The invariant *)

Merges == [pc : MergePcs, list : Rows, cur : Keys \cup {Nil}, merge : Rows, info : Nat,
           at : Nat, lsn : Nat \cup {NoLsn}, rest : Rows, chunks : Seq(1 .. 2 * MaxCount),
           fresh : BOOLEAN, fd : Names \cup {NoName}, then : {"switch", "newlist", "done"}]
Reads  == [pc : ReadPcs, key : Keys \cup {Nil}, info : Nat, off : Nat]

(* Where a chunk is at work, and where silopit->name has been given. *)
Chunked == {"name", "announce", "lock", "open", "write", "grow", "place", "register"}
Written == {"write", "grow", "place", "register"}
Named   == {"read", "announce", "lock", "open", "unlock"} \cup Written

ChunkOf(s) == Only(s.rest, First(s.rest, Head(s.chunks)))

(* What a merge has at each of its steps: a node to go on with, an entry   *)
(* of the table, nodes to write, a chunk that is not all deletes.          *)
OnItsWay(s) ==
  /\ s.pc = "walk" => IF s.cur = Nil THEN s.merge # Empty ELSE s.cur \in Nodes(s.list)
  /\ s.pc = "walk" /\ s.merge # Empty => s.info >= 1
  /\ s.pc \in {"switch", "read"} => s.cur \in Nodes(s.list) /\ s.info >= 1
  /\ s.pc \in Chunked => s.chunks # << >>
  /\ s.pc \in Chunked \cup {"unlock"} /\ s.then # "done" => s.cur \in Nodes(s.list)
  /\ s.pc \in Chunked \cup {"unlock"} /\ s.then = "switch" => s.info >= 1
  /\ s.pc \in Written => Adds(ChunkOf(s)) # {}

HasName(s) == s.pc \in Named \/ s.merge # Empty

Blank == [end |-> Nil, name |-> NoName, lsn |-> 0]

FilesTyped == /\ files \in [Names -> Blocks]
              /\ \A n \in Names : files[n].state = "ok" => files[n].end \in Keys
TableTyped == /\ Table \in Seq(Entries)
              /\ m.pc = "place" => meta = Append(Table, Blank)
              /\ m.pc = "down" => meta = << >>
MergeTyped == /\ m \in Merges /\ OnItsWay(m)
              /\ m.info <= Len(Table) /\ m.at <= Len(Table)
              /\ HasName(m) => name \in Names
ReadTyped  == /\ r \in Reads /\ r.info <= Len(Table)
              /\ r.pc # "idle" => r.key \in Keys
              /\ r.pc \in {"name", "lsn"} => r.info >= 1
              /\ r.pc \in {"lsn", "lock", "read", "locked"} => name \in Names
RestTyped  == /\ name \in Names \cup {NoName} /\ lockLsn \in Nat \cup {NoLsn}
              /\ mutex \in {"free", "merge", "get"}
              /\ allowed \in [Keys -> SUBSET Nat] /\ merges \in Nat

IInv == FilesTyped /\ FilesAreSmall /\ TableTyped /\ MergeTyped /\ ReadTyped /\ RestTyped

(* The table, and the table with the empty node that meta_set begins with. *)
LEMMA FrontOfAppend ==
  ASSUME NEW nodes \in Seq(Entries)
  PROVE  /\ Front(Append(nodes, Blank)) = nodes
         /\ Len(Append(nodes, Blank)) = Len(nodes) + 1
         /\ \A i \in 1 .. Len(nodes) : Append(nodes, Blank)[i] = nodes[i]
         /\ Append(nodes, Blank)[Len(nodes) + 1] = Blank
  <1>1. Len(nodes) \in Nat
    BY LenProperties
  <1>2. PICK long : long = Append(nodes, Blank)
    OBVIOUS
  <1>3. PICK Wider : Wider = Entries \cup {Blank}
    OBVIOUS
  <1>4. nodes \in Seq(Wider) /\ Blank \in Wider
    <2>1. \A i \in 1 .. Len(nodes) : nodes[i] \in Wider
      BY <1>3, EntriesEnd
    <2>2. nodes \in [1 .. Len(nodes) -> Entries]
      BY LenProperties
    <2>3. nodes \in [1 .. Len(nodes) -> Wider]
      BY <2>1, <2>2
    <2> QED
      BY <1>1, <1>3, <2>3
  <1>5. /\ long \in Seq(Wider) /\ Len(long) = Len(nodes) + 1
        /\ \A i \in 1 .. Len(nodes) : long[i] = nodes[i]
        /\ long[Len(nodes) + 1] = Blank
    BY <1>2, <1>4, AppendProperties
  <1>6. PICK n : n = Len(long) - 1
    OBVIOUS
  <1>7. n = Len(nodes) /\ n \in Nat
    BY <1>1, <1>5, <1>6
  <1>8. Front(long) = SubSeq(long, 1, n)
    BY <1>6, Zenon DEF Front
  <1>9. SubSeq(long, 1, n) = nodes
    <2>1. PICK s : s = SubSeq(long, 1, n)
      OBVIOUS
    <2>2. s \in Seq(Wider) /\ Len(s) = n /\ \A i \in 1 .. n : s[i] = long[i]
      BY <1>1, <1>5, <1>7, <2>1, SubSeqProperties
    <2>3. \A i \in 1 .. Len(s) : s[i] = nodes[i]
      BY <1>5, <1>7, <2>2
    <2>4. s = nodes
      BY <1>4, <1>7, <2>2, <2>3, SeqEqual
    <2> QED
      BY <2>1, <2>4
  <1> QED
    BY <1>2, <1>5, <1>8, <1>9

LEMMA TableIsWhole ==
  ASSUME TableTyped
  PROVE  /\ Table \in Seq(Entries) /\ Len(Table) \in Nat /\ Len(meta) \in Nat
         /\ Len(Table) <= Len(meta)
         /\ \A i \in 1 .. Len(Table) : meta[i] = Table[i] /\ meta[i] \in Entries
         /\ \A i \in 1 .. Len(meta) : meta[i].end \in Int
         /\ m.pc # "place" => meta = Table
         /\ m.pc = "place" => Len(meta) = Len(Table) + 1 /\ meta[Len(meta)].end = Nil
  <1>1. Table \in Seq(Entries) /\ Len(Table) \in Nat
    BY EntriesEnd DEF TableTyped
  <1>2. m.pc # "place" => meta = Table
    BY DEF Table
  <1>3. \A i \in 1 .. Len(Table) : Table[i] \in Entries /\ Table[i].end \in Int
    BY <1>1, EntriesEnd
  <1>4. CASE m.pc # "place"
    BY <1>1, <1>2, <1>3, <1>4
  <1>5. CASE m.pc = "place"
    <2>1. meta = Append(Table, Blank)
      BY <1>5 DEF TableTyped
    <2>2. /\ Len(meta) = Len(Table) + 1
          /\ \A i \in 1 .. Len(Table) : meta[i] = Table[i]
          /\ meta[Len(Table) + 1] = Blank
      BY <1>1, <2>1, FrontOfAppend
    <2>3. Blank.end = Nil /\ Nil \in Int
      BY DEF Blank, Nil
    <2>4. \A i \in 1 .. Len(meta) : i \in 1 .. Len(Table) \/ i = Len(Table) + 1
      BY <1>1, <2>2
    <2> QED
      BY <1>1, <1>3, <1>5, <2>2, <2>3, <2>4
  <1> QED
    BY <1>4, <1>5

(* A key belongs to no node, or to one of the table; never to the empty one. *)
LEMMA MetaGetIsAnEntry ==
  ASSUME TableTyped, NEW key \in Keys
  PROVE  /\ MetaGet(key) \in 0 .. Len(Table) /\ MetaGet(key) \in Nat
         /\ MetaGet(key) # NULL =>
              MetaGet(key) >= 1 /\ meta[MetaGet(key)] = Table[MetaGet(key)]
  <1>1. /\ Len(Table) \in Nat /\ Len(meta) \in Nat /\ Len(Table) <= Len(meta)
        /\ \A i \in 1 .. Len(meta) : meta[i].end \in Int
        /\ \A i \in 1 .. Len(Table) : meta[i] = Table[i]
        /\ m.pc # "place" => meta = Table
        /\ m.pc = "place" => Len(meta) = Len(Table) + 1 /\ meta[Len(meta)].end = Nil
    BY TableIsWhole
  <1>2. PICK i : i = Search(meta, key)
    OBVIOUS
  <1>3. key \in Int /\ key > 0
    BY SilopitAssumption
  <1>4. i \in 0 .. Len(meta) /\ (i < Len(meta) => key <= meta[i + 1].end)
    BY <1>1, <1>2, <1>3, SearchFinds
  <1>5. i < Len(meta) => i + 1 \in 1 .. Len(Table)
    <2>1. CASE m.pc # "place"
      BY <1>1, <1>4, <2>1
    <2>2. CASE m.pc = "place"
      <3>1. i + 1 # Len(meta) \/ ~ i < Len(meta)
        BY <1>1, <1>3, <1>4, <2>2 DEF Nil
      <3> QED
        BY <1>1, <1>4, <2>2, <3>1
    <2> QED
      BY <2>1, <2>2
  <1>6. MetaGet(key) = IF i = Len(meta) THEN 0 ELSE i + 1
    BY <1>2 DEF MetaGet, NULL
  <1> QED
    BY <1>1, <1>4, <1>5, <1>6 DEF NULL

LEMMA TypesAreInTypeOK ==
  IInv => TypeOK /\ FilesAreSmall
  <1> SUFFICES ASSUME IInv PROVE TypeOK
    BY DEF IInv
  <1> USE DEF IInv
  <1>1. files \in [Names -> Blocks] /\ Table \in Seq(Entries)
    BY DEF FilesTyped, TableTyped
  <1>2. /\ name \in Names \cup {NoName} /\ lockLsn \in Nat \cup {NoLsn}
        /\ mutex \in {"free", "merge", "get"} /\ allowed \in [Keys -> SUBSET Nat]
    BY DEF RestTyped
  <1>3. m.pc \in MergePcs /\ r.pc \in ReadPcs /\ m.chunks \in Seq(1 .. 2 * MaxCount)
    BY DEF MergeTyped, ReadTyped, Merges, Reads
  <1>4. Rows \subseteq Lists
    BY DEF Rows, Lists, Deleted
  <1>5. {m.list, m.merge, m.rest} \subseteq Lists
    BY <1>4 DEF MergeTyped, Merges
  <1>6. Len(Table) \in Nat /\ Len(meta) \in Nat /\ Len(Table) <= Len(meta)
    BY TableIsWhole
  <1>7. m.info \in Nat /\ r.info \in Nat /\ m.info <= Len(Table) /\ r.info <= Len(Table)
    BY DEF MergeTyped, ReadTyped, Merges, Reads
  <1>8. m.info \in 0 .. Len(meta) /\ r.info \in 0 .. Len(meta)
    BY <1>6, <1>7
  <1> QED
    BY <1>1, <1>2, <1>3, <1>5, <1>8 DEF TypeOK


-----------------------------------------------------------------------------
(* What the merge's locals may become *)

LEMMA RowsHaveEmpty ==
  Empty \in Rows
  BY DEF Empty, Rows, Nil

LEMMA NoMergeIsTyped ==
  /\ NoMerge \in Merges /\ NoMerge.pc = "idle" /\ NoMerge.info = 0 /\ NoMerge.at = 0
  /\ [NoMerge EXCEPT !.pc = "down"] \in Merges
  /\ OnItsWay(NoMerge) /\ OnItsWay([NoMerge EXCEPT !.pc = "down"])
  /\ ~ HasName(NoMerge) /\ ~ HasName([NoMerge EXCEPT !.pc = "down"])
  <1>1. << >> \in Seq(1 .. 2 * MaxCount)
    BY EmptySeq
  <1>2. NoMerge \in Merges
    BY <1>1, RowsHaveEmpty DEF NoMerge, Merges, MergePcs, NULL, Nil, NoLsn, NoName
  <1>3. [NoMerge EXCEPT !.pc = "down"] \in Merges
    BY <1>2 DEF Merges, MergePcs
  <1>4. NoMerge.pc = "idle" /\ NoMerge.info = 0 /\ NoMerge.at = 0 /\ NoMerge.merge = Empty
    BY DEF NoMerge, NULL
  <1>5. /\ [NoMerge EXCEPT !.pc = "down"].pc = "down"
        /\ [NoMerge EXCEPT !.pc = "down"].merge = Empty
    BY DEF NoMerge
  <1>6. OnItsWay(NoMerge) /\ OnItsWay([NoMerge EXCEPT !.pc = "down"])
    BY <1>4, <1>5 DEF OnItsWay, Chunked, Written
  <1>7. ~ HasName(NoMerge) /\ ~ HasName([NoMerge EXCEPT !.pc = "down"])
    BY <1>4, <1>5 DEF HasName, Named, Written
  <1> QED
    BY <1>2, <1>3, <1>4, <1>6, <1>7

(* Some nodes to write make some chunks to write. *)
LEMMA FlushIsTyped ==
  ASSUME NEW s \in Merges, NEW nodes \in Rows, Nodes(nodes) # {},
         NEW lsn \in Nat \cup {NoLsn}, NEW fresh \in BOOLEAN,
         NEW then \in {"switch", "newlist", "done"},
         then # "done" => s.cur \in Nodes(s.list),
         then = "switch" => s.info >= 1,
         NEW f, f = Flush(s, nodes, lsn, fresh, then)
  PROVE  /\ f \in Merges /\ OnItsWay(f)
         /\ f.info = s.info /\ f.at = s.at /\ f.merge = s.merge
         /\ f.list = s.list /\ f.cur = s.cur
         /\ f.pc \in {"name", "announce", "open"} /\ (fresh => f.pc = "name")
  <1>1. PICK count : count = Cardinality(Nodes(nodes))
    OBVIOUS
  <1>2. count \in Nat \ {0}
    <2>1. Nodes(nodes) \in SUBSET Keys
      BY NodesAreKeys
    <2>2. count \in Nat /\ count >= 1
      BY <1>1, <2>1, KeysAreFinite
    <2> QED
      BY <2>2
  <1>3. PICK chunks : chunks = Chunks(count)
    OBVIOUS
  <1>4. chunks \in Seq(1 .. 2 * MaxCount) /\ chunks # << >>
    BY <1>2, <1>3, ChunksAreSmall
  <1>5. PICK pc : pc = IF fresh THEN "name" ELSE IF lsn # NoLsn THEN "announce" ELSE "open"
    OBVIOUS
  <1>6. f = [s EXCEPT !.pc = pc, !.rest = nodes, !.chunks = chunks, !.lsn = lsn,
                      !.fresh = fresh, !.then = then]
    BY <1>1, <1>3, <1>5 DEF Flush
  <1>7. pc \in {"name", "announce", "open"} /\ pc \in MergePcs /\ (fresh => pc = "name")
    BY <1>5 DEF MergePcs
  <1>8. /\ f \in Merges /\ f.pc = pc /\ f.chunks = chunks /\ f.then = then
        /\ f.info = s.info /\ f.at = s.at /\ f.merge = s.merge
        /\ f.list = s.list /\ f.cur = s.cur
    BY <1>4, <1>6, <1>7 DEF Merges
  <1>9. OnItsWay(f)
    BY <1>4, <1>7, <1>8 DEF OnItsWay, Chunked, Written
  <1> QED
    BY <1>7, <1>8, <1>9

LEMMA SomeAreLeft ==
  ASSUME m \in Merges, m.cur \in Nodes(m.list)
  PROVE  RestOfList \in Rows /\ Nodes(RestOfList) # {}
  <1> DEFINE later == {k \in Nodes(m.list) : k >= m.cur}
  <1>1. m.list \in Rows
    BY DEF Merges
  <1>2. PICK count : count = Cardinality(later)
    OBVIOUS
  <1>3. count \in Nat /\ count >= 1
    <2>1. later \in SUBSET Keys
      BY NodesAreKeys
    <2>2. m.cur \in later
      <3>1. m.cur \in Int
        BY NodesAreKeys, KeysAreFinite
      <3> QED
        BY <3>1
    <2> HIDE DEF later
    <2> QED
      BY <1>2, <2>1, <2>2, KeysAreFinite
  <1>4. First(m.list, count) \subseteq Nodes(m.list) /\ First(m.list, count) # {}
    BY <1>3, FirstFew
  <1>5. RestOfList = Only(m.list, First(m.list, count))
    BY <1>2 DEF RestOfList
  <1> QED
    BY <1>1, <1>4, <1>5, OnlyKeeps

(* What follows a chunk. *)
LEMMA ContinueIsTyped ==
  ASSUME m \in Merges, NEW s \in Merges, s.list = m.list, s.cur = m.cur,
         s.then # "done" => s.cur \in Nodes(s.list),
         s.then = "switch" => s.info >= 1
  PROVE  /\ Continue(s) \in Merges /\ OnItsWay(Continue(s))
         /\ Continue(s).info = s.info /\ Continue(s).at = s.at
         /\ Continue(s).pc \in {"name", "switch", "end"}
         /\ Continue(s).merge \in {s.merge, Empty}
  <1>1. CASE s.chunks # << >>
    <2>1. PICK n : n = [s EXCEPT !.pc = "name", !.fresh = TRUE]
      OBVIOUS
    <2>2. /\ n \in Merges /\ n.pc = "name" /\ n.chunks = s.chunks /\ n.then = s.then
          /\ n.info = s.info /\ n.at = s.at /\ n.merge = s.merge
          /\ n.list = s.list /\ n.cur = s.cur
      BY <2>1 DEF Merges, MergePcs
    <2>3. OnItsWay(n)
      BY <1>1, <2>2 DEF OnItsWay, Chunked, Written
    <2>4. Continue(s) = n
      BY <1>1, <2>1 DEF Continue
    <2> QED
      BY <2>2, <2>3, <2>4
  <1>2. CASE s.chunks = << >> /\ s.then = "switch"
    <2>1. PICK n : n = [s EXCEPT !.pc = "switch", !.merge = Empty]
      OBVIOUS
    <2>2. /\ n \in Merges /\ n.pc = "switch" /\ n.then = s.then
          /\ n.info = s.info /\ n.at = s.at /\ n.merge = Empty
          /\ n.list = s.list /\ n.cur = s.cur
      BY <2>1, RowsHaveEmpty DEF Merges, MergePcs
    <2>3. OnItsWay(n)
      BY <1>2, <2>2 DEF OnItsWay, Chunked, Written
    <2>4. Continue(s) = n
      BY <1>2, <2>1 DEF Continue
    <2> QED
      BY <2>2, <2>3, <2>4
  <1>3. CASE s.chunks = << >> /\ s.then = "newlist"
    <2>1. PICK n : n = [s EXCEPT !.merge = Empty]
      OBVIOUS
    <2>2. /\ n \in Merges /\ n.info = s.info /\ n.at = s.at /\ n.merge = Empty
      BY <2>1, RowsHaveEmpty DEF Merges
    <2>3. PICK rest : rest = RestOfList
      OBVIOUS
    <2>4. rest \in Rows /\ Nodes(rest) # {}
      BY <1>3, <2>3, SomeAreLeft
    <2>5. PICK f : f = Flush(n, rest, NoLsn, TRUE, "done")
      OBVIOUS
    <2>6. /\ f \in Merges /\ OnItsWay(f) /\ f.info = n.info /\ f.at = n.at
          /\ f.merge = n.merge /\ f.pc = "name"
      <3>1. PICK lsn, fresh, then : lsn = NoLsn /\ fresh = TRUE /\ then = "done"
        OBVIOUS
      <3>2. /\ lsn \in Nat \cup {NoLsn} /\ fresh \in BOOLEAN
            /\ then \in {"switch", "newlist", "done"} /\ then # "switch" /\ then = "done"
        BY <3>1
      <3>3. f = Flush(n, rest, lsn, fresh, then)
        BY <2>5, <3>1, Zenon
      <3>4. /\ f \in Merges /\ OnItsWay(f) /\ f.info = n.info /\ f.at = n.at
            /\ f.merge = n.merge /\ (fresh => f.pc = "name")
        BY <2>2, <2>4, <3>2, <3>3, FlushIsTyped
      <3> QED
        BY <3>1, <3>4
    <2>7. Continue(s) = f
      BY <1>3, <2>1, <2>3, <2>5 DEF Continue, FlushNewList
    <2> QED
      BY <2>2, <2>6, <2>7
  <1>4. CASE s.chunks = << >> /\ s.then = "done"
    <2>1. PICK n : n = [s EXCEPT !.pc = "end"]
      OBVIOUS
    <2>2. /\ n \in Merges /\ n.pc = "end" /\ n.then = s.then
          /\ n.info = s.info /\ n.at = s.at /\ n.merge = s.merge
      BY <2>1 DEF Merges, MergePcs
    <2>3. OnItsWay(n)
      BY <2>2 DEF OnItsWay, Chunked, Written
    <2>4. Continue(s) = n
      BY <1>4, <2>1 DEF Continue
    <2> QED
      BY <2>2, <2>3, <2>4
  <1>5. s.then \in {"switch", "newlist", "done"}
    BY DEF Merges
  <1> QED
    BY <1>1, <1>2, <1>3, <1>4, <1>5

LEMMA NothingToContinue ==
  ASSUME NEW s, ~ (s.pc \in Named), s.merge = Empty
  PROVE  ~ HasName(s)
  BY DEF HasName

(* The chunk at work: some of the nodes left, no more than it may have, one *)
(* of them its end.                                                        *)
LEMMA ChunkIsSmall ==
  ASSUME m \in Merges, m.chunks # << >>
  PROVE  /\ Chunk \in Rows
         /\ Cardinality(Nodes(Chunk)) <= 2 * MaxCount
         /\ Nodes(Chunk) # {} => EndOf(Chunk) \in Keys
         /\ Chunk = ChunkOf(m)
  <1>1. m.rest \in Rows /\ m.chunks \in Seq(1 .. 2 * MaxCount)
    BY DEF Merges
  <1>2. PICK n : n = Head(m.chunks)
    OBVIOUS
  <1>3. n \in 1 .. 2 * MaxCount
    BY <1>1, <1>2, HeadTailProperties
  <1>4. MaxCount \in Nat
    BY SilopitAssumption
  <1>5. n \in Nat /\ n <= 2 * MaxCount
    BY <1>3, <1>4
  <1>6. First(m.rest, n) \subseteq Nodes(m.rest) /\ Cardinality(First(m.rest, n)) <= n
    BY <1>5, FirstFew
  <1>7. Chunk = Only(m.rest, First(m.rest, n))
    BY <1>2 DEF Chunk
  <1>8. Chunk \in Rows /\ Nodes(Chunk) = First(m.rest, n)
    <2>1. PICK F : F = First(m.rest, n)
      OBVIOUS
    <2>2. /\ Only(m.rest, F) \in Rows
          /\ Nodes(Only(m.rest, F)) = Nodes(m.rest) \cap F
      BY <1>1, OnlyKeeps
    <2> QED
      BY <1>6, <1>7, <2>1, <2>2
  <1>9. Cardinality(First(m.rest, n)) \in Nat
    BY <1>6, NodesAreKeys, KeysAreFinite
  <1>10. Nodes(Chunk) # {} => EndOf(Chunk) \in Keys
    <2>1. Nodes(Chunk) \in SUBSET Keys
      BY NodesAreKeys
    <2> QED
      BY <2>1, GreatestKey DEF EndOf
  <1>11. Chunk = ChunkOf(m)
    BY DEF Chunk, ChunkOf
  <1> QED
    BY <1>4, <1>5, <1>6, <1>8, <1>9, <1>10, <1>11

LEMMA TypedAtTheStart ==
  Init => IInv
  <1> SUFFICES ASSUME Init PROVE IInv
    OBVIOUS
  <1> USE DEF Init
  <1>1. FilesTyped
    BY DEF FilesTyped, Absent, Empty, Blocks, Nil
  <1>2. FilesAreSmall
    BY DEF FilesAreSmall, Absent
  <1>3. NoMerge \in Merges /\ NoMerge.pc = "idle" /\ OnItsWay(NoMerge) /\ ~ HasName(NoMerge)
    BY NoMergeIsTyped
  <1>4. TableTyped /\ Len(Table) = 0
    BY <1>3, EmptySeq DEF TableTyped, Table
  <1>5. MergeTyped
    BY <1>3, <1>4 DEF MergeTyped, NoMerge, NULL
  <1>6. ReadTyped
    BY <1>4 DEF ReadTyped, NoRead, Reads, ReadPcs, NULL, Nil
  <1>7. RestTyped
    BY DEF RestTyped, NoName, NoLsn, Nil
  <1> QED
    BY <1>1, <1>2, <1>4, <1>5, <1>6, <1>7 DEF IInv


-----------------------------------------------------------------------------
(* What a step leaves alone *)

LEMMA FilesKept ==
  ASSUME IInv, files' = files
  PROVE  FilesTyped' /\ FilesAreSmall'
  BY DEF IInv, FilesTyped, FilesAreSmall

LEMMA TableKept ==
  ASSUME IInv, meta' = meta, m.pc # "place", m'.pc \notin {"place", "down"}
  PROVE  TableTyped' /\ Table' = Table /\ Len(Table) <= Len(Table')
  <1>1. Table' = Table /\ Table = meta
    BY DEF Table
  <1>2. Table \in Seq(Entries) /\ Len(Table) \in Nat
    BY TableIsWhole DEF IInv
  <1> QED
    BY <1>1, <1>2 DEF TableTyped

LEMMA ReadKept ==
  ASSUME IInv, r' = r, Len(Table') \in Nat, Len(Table) <= Len(Table'),
         name' = name \/ name' \in Names
  PROVE  ReadTyped'
  <1>1. /\ r' \in Reads /\ (r'.pc # "idle" => r'.key \in Keys)
        /\ (r'.pc \in {"name", "lsn"} => r'.info >= 1)
        /\ (r'.pc \in {"lsn", "lock", "read", "locked"} => name' \in Names)
    BY DEF IInv, ReadTyped
  <1>2. Len(Table) \in Nat
    BY TableIsWhole DEF IInv
  <1>3. r'.info \in Nat /\ r'.info <= Len(Table)
    BY DEF IInv, ReadTyped, Reads
  <1>4. r'.info <= Len(Table')
    BY <1>2, <1>3
  <1> QED
    BY <1>1, <1>4 DEF ReadTyped

LEMMA RestKept ==
  ASSUME IInv, name' = name \/ name' \in Names,
         lockLsn' = lockLsn \/ lockLsn' \in Nat \cup {NoLsn},
         mutex' = mutex \/ mutex' \in {"free", "merge", "get"},
         allowed' = allowed, merges' = merges
  PROVE  RestTyped'
  BY DEF IInv, RestTyped

(* A step of the merge: the table does not shrink. *)
LEMMA MergeStep ==
  ASSUME IInv, FilesTyped', FilesAreSmall', TableTyped', RestTyped',
         Len(Table) <= Len(Table'), r' = r,
         m' \in Merges, OnItsWay(m'), m'.info <= Len(Table'), m'.at <= Len(Table'),
         HasName(m') => name' \in Names, name' = name \/ name' \in Names
  PROVE  IInv'
  <1>1. Len(Table') \in Nat
    BY EntriesEnd DEF TableTyped
  <1>2. ReadTyped'
    BY <1>1, ReadKept
  <1>3. MergeTyped'
    BY DEF MergeTyped
  <1> QED
    BY <1>2, <1>3 DEF IInv

(* One that leaves the files and the table as they are. *)
LEMMA QuietMergeStep ==
  ASSUME IInv, files' = files, meta' = meta, r' = r, RestTyped',
         m.pc # "place", m'.pc \notin {"place", "down"},
         m' \in Merges, OnItsWay(m'), m'.info <= Len(Table), m'.at <= Len(Table),
         HasName(m') => name' \in Names, name' = name \/ name' \in Names
  PROVE  IInv'
  <1>1. TableTyped' /\ Table' = Table /\ Len(Table) <= Len(Table')
    BY TableKept
  <1> QED
    BY <1>1, FilesKept, MergeStep

LEMMA EndingTheProcess ==
  ASSUME IInv, NEW left, NEW named, EndProcess(left, named),
         FilesTyped', FilesAreSmall'
  PROVE  IInv'
  <1>1. /\ meta' = << >> /\ name' = NoName /\ lockLsn' = NoLsn /\ mutex' = "free"
        /\ m' = [NoMerge EXCEPT !.pc = "down"] /\ r' = NoRead
        /\ allowed' = allowed /\ merges' = merges
    BY DEF EndProcess
  <1>2. /\ m' \in Merges /\ OnItsWay(m') /\ ~ HasName(m')
        /\ m'.pc = "down" /\ m'.info = 0 /\ m'.at = 0
    <2>1. m' \in Merges /\ OnItsWay(m') /\ ~ HasName(m')
      BY <1>1, NoMergeIsTyped
    <2>2. m'.pc = "down" /\ m'.info = 0 /\ m'.at = 0
      BY <1>1 DEF NoMerge, NULL
    <2> QED
      BY <2>1, <2>2
  <1>3. TableTyped' /\ Len(Table') = 0
    BY <1>1, <1>2, EmptySeq DEF TableTyped, Table
  <1>4. MergeTyped'
    BY <1>2, <1>3 DEF MergeTyped
  <1>5. ReadTyped'
    BY <1>1, <1>3 DEF ReadTyped, NoRead, Reads, ReadPcs, NULL, Nil
  <1>6. RestTyped'
    BY <1>1 DEF IInv, RestTyped, NoLsn
  <1> QED
    BY <1>3, <1>4, <1>5, <1>6 DEF IInv

-----------------------------------------------------------------------------
(* The steps of the merge *)

(* What the merge's locals are worth. *)
LEMMA MergeIs ==
  ASSUME IInv
  PROVE  /\ m \in Merges /\ m.pc \in MergePcs
         /\ m.list \in Rows /\ m.merge \in Rows /\ m.rest \in Rows
         /\ m.info \in Nat /\ m.at \in Nat /\ m.info <= Len(Table) /\ m.at <= Len(Table)
         /\ m.cur \in Keys \cup {Nil} /\ m.fresh \in BOOLEAN
         /\ m.chunks \in Seq(1 .. 2 * MaxCount)
         /\ OnItsWay(m) /\ (HasName(m) => name \in Names)
         /\ Len(Table) \in Nat /\ Table \in Seq(Entries)
         /\ files \in [Names -> Blocks]
  BY TableIsWhole DEF IInv, MergeTyped, Merges, FilesTyped

LEMMA StartMergeTyped ==
  ASSUME IInv, NEW t \in Memtables, StartMerge(t)
  PROVE  IInv'
  <1>1. PICK list : list = [k \in Keys |-> CASE t[k] = "ADD" -> merges + 1
                                             [] t[k] = "DEL" -> Deleted
                                             [] OTHER        -> Nil]
    OBVIOUS
  <1>2. /\ m.pc = "idle" /\ merges' = merges + 1
        /\ m' = IF meta = << >> THEN FlushNewList([NoMerge EXCEPT !.list = list], list)
                ELSE [NoMerge EXCEPT !.list = list, !.pc = "walk", !.cur = After(list, Nil)]
        /\ files' = files /\ meta' = meta /\ name' = name /\ lockLsn' = lockLsn
        /\ mutex' = mutex /\ r' = r
    BY <1>1 DEF StartMerge, shared
  <1>3. merges \in Nat /\ allowed \in [Keys -> SUBSET Nat]
    BY DEF IInv, RestTyped
  <1>4. RestTyped'
    <2>1. allowed' = [k \in Keys |-> CASE t[k] = "ADD" -> allowed[k] \cup {merges + 1}
                                       [] t[k] = "DEL" -> allowed[k] \cup {Nil}
                                       [] OTHER        -> allowed[k]]
      BY DEF StartMerge
    <2>2. allowed' \in [Keys -> SUBSET Nat]
      BY <1>3, <2>1 DEF Nil
    <2> QED
      BY <1>2, <1>3, <2>2 DEF IInv, RestTyped
  <1>5. list \in Rows /\ Nodes(list) # {}
    <2>1. t \in [Keys -> {"ADD", "DEL", "NONE"}]
      BY SilopitAssumption
    <2>2. PICK k \in Keys : t[k] # "NONE"
      BY SilopitAssumption
    <2>3. list \in Rows
      BY <1>1, <1>3, <2>1 DEF Rows, Nil
    <2>4. list[k] # Nil
      BY <1>1, <1>3, <2>1, <2>2 DEF Nil, Deleted
    <2> QED
      BY <2>2, <2>3, <2>4 DEF Nodes
  <1>6. PICK s : s = [NoMerge EXCEPT !.list = list]
    OBVIOUS
  <1>7. s \in Merges /\ s.info = 0 /\ s.at = 0 /\ s.merge = Empty
    BY <1>5, <1>6, NoMergeIsTyped DEF Merges, NoMerge, NULL
  <1>8. Len(Table) \in Nat
    BY MergeIs
  <1>9. CASE meta = << >>
    <2>1. m' = Flush(s, list, NoLsn, TRUE, "done")
      BY <1>2, <1>6, <1>9 DEF FlushNewList
    <2>2. /\ m' \in Merges /\ OnItsWay(m') /\ m'.info = 0 /\ m'.at = 0
          /\ m'.merge = Empty /\ m'.pc = "name"
      <3>1. PICK lsn, fresh, then : lsn = NoLsn /\ fresh = TRUE /\ then = "done"
        OBVIOUS
      <3>2. /\ lsn \in Nat \cup {NoLsn} /\ fresh \in BOOLEAN
            /\ then \in {"switch", "newlist", "done"} /\ then # "switch" /\ then = "done"
        BY <3>1
      <3>3. m' = Flush(s, list, lsn, fresh, then)
        BY <2>1, <3>1, Zenon
      <3>4. /\ m' \in Merges /\ OnItsWay(m') /\ m'.info = 0 /\ m'.at = 0
            /\ m'.merge = Empty /\ (fresh => m'.pc = "name")
        BY <1>5, <1>7, <3>2, <3>3, FlushIsTyped
      <3> QED
        BY <3>1, <3>4
    <2>3. ~ HasName(m')
      BY <2>2 DEF HasName, Named, Written
    <2> QED
      BY <1>2, <1>4, <1>8, <2>2, <2>3, QuietMergeStep
  <1>10. CASE meta # << >>
    <2>1. m' = [s EXCEPT !.pc = "walk", !.cur = After(list, Nil)]
      BY <1>2, <1>6, <1>10 DEF NoMerge
    <2>2. After(list, Nil) \in Nodes(list) /\ Nodes(list) \subseteq Keys
      BY <1>5, AListHasAFirst, NodesAreKeys
    <2>3. /\ m' \in Merges /\ m'.info = 0 /\ m'.at = 0 /\ m'.merge = Empty
          /\ m'.pc = "walk" /\ m'.cur = After(list, Nil) /\ m'.list = list
      <3>1. After(list, Nil) \in Keys \cup {Nil}
        BY <2>2
      <3>2. s.list = list
        BY <1>6 DEF NoMerge
      <3> QED
        BY <1>7, <2>1, <3>1, <3>2 DEF Merges, MergePcs
    <2>4. m'.cur # Nil
      BY <2>2, <2>3, KeysAreFinite
    <2>5. OnItsWay(m')
      BY <2>2, <2>3, <2>4 DEF OnItsWay, Chunked, Written
    <2>6. ~ HasName(m')
      BY <2>3 DEF HasName, Named, Written
    <2> QED
      BY <1>2, <1>4, <1>8, <2>3, <2>5, <2>6, QuietMergeStep
  <1> QED
    BY <1>9, <1>10


LEMMA InsertedIsThere ==
  ASSUME m \in Merges, m.cur \in Nodes(m.list), NEW t \in Rows
  PROVE  Inserted(t) \in Rows /\ Inserted(t) # Empty
  <1>1. m.list \in Rows /\ m.cur \in Keys /\ m.list[m.cur] # Nil
    BY DEF Merges, Nodes
  <1>2. m.list[m.cur] \in Nat \cup {Deleted}
    BY <1>1 DEF Rows
  <1>3. Inserted(t) \in Rows /\ Inserted(t)[m.cur] = m.list[m.cur]
    BY <1>1, <1>2 DEF Inserted, Rows
  <1> QED
    BY <1>1, <1>3 DEF Empty

(* The list and the entry a flush goes on with. *)
LEMMA FlushStep ==
  ASSUME IInv, NEW s \in Merges, NEW nodes \in Rows, Nodes(nodes) # {},
         NEW lsn \in Nat \cup {NoLsn}, NEW fresh \in BOOLEAN,
         NEW then \in {"switch", "newlist", "done"},
         then # "done" => s.cur \in Nodes(s.list), then = "switch" => s.info >= 1,
         s.info <= Len(Table), s.at <= Len(Table),
         fresh = FALSE \/ s.merge # Empty => name \in Names,
         m.pc # "place", m' = Flush(s, nodes, lsn, fresh, then),
         UNCHANGED <<files, meta, shared, allowed, r, merges>>
  PROVE  IInv'
  <1>1. /\ m' \in Merges /\ OnItsWay(m') /\ m'.info = s.info /\ m'.at = s.at
        /\ m'.merge = s.merge /\ m'.pc \in {"name", "announce", "open"}
        /\ (fresh => m'.pc = "name")
    BY FlushIsTyped
  <1>2. /\ files' = files /\ meta' = meta /\ name' = name /\ lockLsn' = lockLsn
        /\ mutex' = mutex /\ allowed' = allowed /\ r' = r /\ merges' = merges
    BY DEF shared
  <1>3. m'.pc \notin {"place", "down"}
    BY <1>1
  <1>4. HasName(m') => name' \in Names
    <2>1. CASE fresh = FALSE \/ s.merge # Empty
      BY <1>2, <2>1
    <2>2. CASE fresh = TRUE /\ s.merge = Empty
      <3>1. m'.pc = "name"
        BY <1>1, <2>2, Zenon
      <3> QED
        BY <1>1, <2>2, <3>1 DEF HasName, Named, Written
    <2> QED
      BY <2>1, <2>2
  <1>5. RestTyped'
    BY <1>2, RestKept
  <1> QED
    BY <1>1, <1>2, <1>3, <1>4, <1>5, QuietMergeStep

LEMMA WalkTyped ==
  ASSUME IInv, Walk
  PROVE  IInv'
  <1>1. /\ m.pc = "walk" /\ m.cur # Nil
        /\ UNCHANGED <<files, meta, shared, allowed, r, merges>>
    BY DEF Walk, unchangedByMerge
  <1>2. /\ m \in Merges /\ m.list \in Rows /\ m.merge \in Rows
        /\ m.info \in Nat /\ m.at \in Nat /\ m.info <= Len(Table) /\ m.at <= Len(Table)
        /\ Len(Table) \in Nat /\ OnItsWay(m) /\ (HasName(m) => name \in Names)
    BY MergeIs
  <1>3. m.cur \in Nodes(m.list) /\ m.cur \in Keys
    BY <1>1, <1>2, NodesAreKeys DEF OnItsWay
  <1>4. PICK info : info = MetaGet(m.cur)
    OBVIOUS
  <1>5. /\ info \in Nat /\ info <= Len(Table)
        /\ info # NULL => info >= 1 /\ meta[info] = Table[info]
    <2>1. TableTyped
      BY DEF IInv
    <2> QED
      BY <1>2, <1>3, <1>4, <2>1, MetaGetIsAnEntry
  <1>6. m.merge # Empty => Nodes(m.merge) # {} /\ name \in Names
    BY <1>2, NotEmptyHasNodes DEF HasName
  <1>7. ASSUME info = NULL,
               m' = IF m.merge = Empty THEN FlushNewList(m, RestOfList)
                    ELSE Flush(m, m.merge, NoLsn, FALSE, "newlist")
        PROVE  IInv'
    <2>1. CASE m.merge = Empty
      <3>1. PICK rest : rest = RestOfList
        OBVIOUS
      <3>2. rest \in Rows /\ Nodes(rest) # {}
        BY <1>2, <1>3, <3>1, SomeAreLeft
      <3>3. PICK lsn, fresh, then : lsn = NoLsn /\ fresh = TRUE /\ then = "done"
        OBVIOUS
      <3>4. /\ lsn \in Nat \cup {NoLsn} /\ fresh \in BOOLEAN /\ fresh # FALSE
            /\ then \in {"switch", "newlist", "done"} /\ then # "switch" /\ then = "done"
        BY <3>3
      <3>5. m' = Flush(m, rest, lsn, fresh, then)
        BY <1>7, <2>1, <3>1, <3>3, Zenon DEF FlushNewList
      <3> QED
        BY <1>1, <1>2, <2>1, <3>2, <3>4, <3>5, FlushStep
    <2>2. CASE m.merge # Empty
      <3>1. PICK lsn, fresh, then : lsn = NoLsn /\ fresh = FALSE /\ then = "newlist"
        OBVIOUS
      <3>2. /\ lsn \in Nat \cup {NoLsn} /\ fresh \in BOOLEAN
            /\ then \in {"switch", "newlist", "done"} /\ then # "switch"
        BY <3>1
      <3>3. m' = Flush(m, m.merge, lsn, fresh, then)
        BY <1>7, <2>2, <3>1, Zenon
      <3> QED
        BY <1>1, <1>2, <1>3, <1>6, <2>2, <3>2, <3>3, FlushStep
    <2> QED
      BY <2>1, <2>2
  <1>8. ASSUME info # NULL, name = meta[info].name,
               m' = IF m.merge = Empty THEN [m EXCEPT !.pc = "read", !.info = info]
                    ELSE [m EXCEPT !.merge = Inserted(m.merge), !.info = info,
                                   !.cur = After(m.list, m.cur)]
        PROVE  IInv'
    <2>1. name \in Names
      BY <1>2, <1>5, <1>8, MergeIs, EntriesEnd
    <2>2. m' \in Merges /\ OnItsWay(m') /\ m'.pc \notin {"place", "down"} /\ m'.info = info /\ m'.at = m.at
      <3>1. CASE m.merge = Empty
        <4>1. m' = [m EXCEPT !.pc = "read", !.info = info]
          BY <1>8, <3>1
        <4>2. /\ m' \in Merges /\ m'.pc = "read" /\ m'.info = info /\ m'.at = m.at
              /\ m'.cur = m.cur /\ m'.list = m.list
          BY <1>2, <1>5, <4>1 DEF Merges, MergePcs
        <4>3. OnItsWay(m')
          BY <1>3, <1>5, <1>8, <4>2 DEF OnItsWay, Chunked, Written
        <4> QED
          BY <4>2, <4>3
      <3>2. CASE m.merge # Empty
        <4>1. PICK merge : merge = Inserted(m.merge)
          OBVIOUS
        <4>2. merge \in Rows /\ merge # Empty
          BY <1>2, <1>3, <4>1, InsertedIsThere
        <4>3. PICK cur : cur = After(m.list, m.cur)
          OBVIOUS
        <4>4. cur = Nil \/ cur \in Nodes(m.list)
          BY <4>3, AfterIsANode
        <4>5. cur \in Keys \cup {Nil}
          BY <4>4, NodesAreKeys
        <4>6. m' = [m EXCEPT !.merge = merge, !.info = info, !.cur = cur]
          BY <1>8, <3>2, <4>1, <4>3
        <4>7. /\ m' \in Merges /\ m'.pc = "walk" /\ m'.info = info /\ m'.at = m.at
              /\ m'.cur = cur /\ m'.list = m.list /\ m'.merge = merge
          BY <1>1, <1>2, <1>5, <4>2, <4>5, <4>6 DEF Merges
        <4>8. OnItsWay(m')
          BY <1>5, <1>8, <4>2, <4>4, <4>7 DEF OnItsWay, Chunked, Written
        <4> QED
          BY <4>7, <4>8
      <3> QED
        BY <3>1, <3>2
    <2>3. /\ files' = files /\ meta' = meta /\ name' = name /\ lockLsn' = lockLsn
          /\ mutex' = mutex /\ allowed' = allowed /\ r' = r /\ merges' = merges
      BY <1>1 DEF shared
    <2>4. RestTyped'
      BY <2>3, RestKept
    <2>5. m.pc # "place"
      BY <1>1
    <2> QED
      BY <1>2, <1>5, <2>1, <2>2, <2>3, <2>4, <2>5, QuietMergeStep
  <1>9. ASSUME info # NULL,
               m' = LET s == [m EXCEPT !.info = info]
                    IN IF m.merge = Empty THEN [s EXCEPT !.pc = "switch"]
                       ELSE Flush(s, m.merge, meta[info].lsn, FALSE, "switch")
        PROVE  IInv'
    <2>1. PICK s : s = [m EXCEPT !.info = info]
      OBVIOUS
    <2>2. /\ s \in Merges /\ s.info = info /\ s.at = m.at /\ s.list = m.list
          /\ s.cur = m.cur /\ s.merge = m.merge
      BY <1>2, <1>5, <2>1 DEF Merges
    <2>3. CASE m.merge = Empty
      <3>1. m' = [s EXCEPT !.pc = "switch"]
        BY <1>9, <2>1, <2>3
      <3>2. /\ m' \in Merges /\ m'.pc = "switch" /\ m'.info = info /\ m'.at = m.at
            /\ m'.cur = m.cur /\ m'.list = m.list /\ m'.merge = Empty
        BY <2>2, <2>3, <3>1 DEF Merges, MergePcs
      <3>3. OnItsWay(m') /\ ~ HasName(m')
        BY <1>3, <1>5, <1>9, <3>2 DEF OnItsWay, HasName, Named, Chunked, Written
      <3>4. /\ files' = files /\ meta' = meta /\ name' = name /\ lockLsn' = lockLsn
            /\ mutex' = mutex /\ allowed' = allowed /\ r' = r /\ merges' = merges
        BY <1>1 DEF shared
      <3>5. RestTyped'
        BY <3>4, RestKept
      <3>6. m.pc # "place" /\ m'.pc \notin {"place", "down"}
        BY <1>1, <3>2
      <3> QED
        BY <1>2, <1>5, <3>2, <3>3, <3>4, <3>5, <3>6, QuietMergeStep
    <2>4. CASE m.merge # Empty
      <3>1. PICK lsn, fresh, then : lsn = meta[info].lsn /\ fresh = FALSE /\ then = "switch"
        OBVIOUS
      <3>2. lsn \in Nat
        BY <1>2, <1>5, <1>9, <3>1, MergeIs, EntriesEnd
      <3>3. /\ lsn \in Nat \cup {NoLsn} /\ fresh \in BOOLEAN
            /\ then \in {"switch", "newlist", "done"}
        BY <3>1, <3>2
      <3>4. m' = Flush(s, m.merge, lsn, fresh, then)
        BY <1>9, <2>1, <2>4, <3>1, Zenon
      <3>5. s.cur \in Nodes(s.list) /\ s.info >= 1 /\ s.info <= Len(Table) /\ s.at <= Len(Table)
        BY <1>2, <1>3, <1>5, <1>9, <2>2
      <3>6. m.merge \in Rows /\ Nodes(m.merge) # {} /\ name \in Names /\ m.pc # "place"
        BY <1>1, <1>2, <1>6, <2>4
      <3> QED
        BY <1>1, <2>2, <3>3, <3>4, <3>5, <3>6, FlushStep
    <2> QED
      BY <2>3, <2>4
  <1>10. \/ /\ info = NULL
            /\ m' = IF m.merge = Empty THEN FlushNewList(m, RestOfList)
                    ELSE Flush(m, m.merge, NoLsn, FALSE, "newlist")
         \/ /\ info # NULL /\ name = meta[info].name
            /\ m' = IF m.merge = Empty THEN [m EXCEPT !.pc = "read", !.info = info]
                    ELSE [m EXCEPT !.merge = Inserted(m.merge), !.info = info,
                                   !.cur = After(m.list, m.cur)]
         \/ /\ info # NULL
            /\ m' = LET s == [m EXCEPT !.info = info]
                    IN IF m.merge = Empty THEN [s EXCEPT !.pc = "switch"]
                       ELSE Flush(s, m.merge, meta[info].lsn, FALSE, "switch")
    BY <1>4 DEF Walk
  <1> QED
    BY <1>7, <1>8, <1>9, <1>10


LEMMA WalkDoneTyped ==
  ASSUME IInv, WalkDone
  PROVE  IInv'
  <1>1. /\ m.pc = "walk" /\ m.cur = Nil
        /\ m' = Flush(m, m.merge, meta[m.info].lsn, FALSE, "done")
        /\ UNCHANGED <<files, meta, shared, allowed, r, merges>>
    BY DEF WalkDone, unchangedByMerge
  <1>2. /\ m \in Merges /\ m.merge \in Rows
        /\ m.info \in Nat /\ m.info <= Len(Table) /\ m.at <= Len(Table)
        /\ Len(Table) \in Nat /\ OnItsWay(m) /\ (HasName(m) => name \in Names)
    BY MergeIs
  <1>3. m.merge # Empty /\ m.info >= 1
    BY <1>1, <1>2 DEF OnItsWay
  <1>4. Nodes(m.merge) # {} /\ name \in Names
    BY <1>2, <1>3, NotEmptyHasNodes DEF HasName
  <1>5. PICK lsn, fresh, then : lsn = meta[m.info].lsn /\ fresh = FALSE /\ then = "done"
    OBVIOUS
  <1>6. lsn \in Nat
    <2>1. meta = Table
      BY <1>1 DEF Table
    <2> QED
      BY <1>2, <1>3, <1>5, <2>1, MergeIs, EntriesEnd
  <1>7. /\ lsn \in Nat \cup {NoLsn} /\ fresh \in BOOLEAN
        /\ then \in {"switch", "newlist", "done"} /\ then # "switch" /\ then = "done"
    BY <1>5, <1>6
  <1>8. m' = Flush(m, m.merge, lsn, fresh, then)
    BY <1>1, <1>5, Zenon
  <1>9. m.pc # "place"
    BY <1>1
  <1> QED
    BY <1>1, <1>2, <1>4, <1>7, <1>8, <1>9, FlushStep

(* A step that changes where the merge is, and at most the names and the   *)
(* lock it shares with the lookups.                                        *)
LEMMA PlainStep ==
  ASSUME IInv, NEW pc \in MergePcs, m' = [m EXCEPT !.pc = pc],
         UNCHANGED <<files, meta, allowed, r, merges>>,
         name' = name \/ name' \in Names,
         lockLsn' = lockLsn \/ lockLsn' \in Nat \cup {NoLsn},
         mutex' = mutex \/ mutex' \in {"free", "merge", "get"},
         m.pc # "place", pc \notin {"place", "walk", "unlock", "down"} \cup Written,
         pc \in {"switch", "read"} => m.cur \in Nodes(m.list) /\ m.info >= 1,
         pc \in Chunked => m.pc \in Chunked,
         pc \in Named \/ m.merge # Empty => name' \in Names
  PROVE  IInv'
  <1>1. /\ m \in Merges /\ m.info <= Len(Table) /\ m.at <= Len(Table) /\ OnItsWay(m)
    BY MergeIs
  <1>2. /\ m' \in Merges /\ m'.pc = pc /\ m'.info = m.info /\ m'.at = m.at
        /\ m'.cur = m.cur /\ m'.list = m.list /\ m'.merge = m.merge
        /\ m'.chunks = m.chunks /\ m'.then = m.then
    BY <1>1 DEF Merges
  <1>3. OnItsWay(m')
    BY <1>1, <1>2 DEF OnItsWay, Written
  <1>4. HasName(m') => name' \in Names
    BY <1>2 DEF HasName
  <1>5. RestTyped'
    BY RestKept
  <1>6. m'.pc \notin {"place", "down"}
    BY <1>2
  <1> QED
    BY <1>1, <1>2, <1>3, <1>4, <1>5, <1>6, QuietMergeStep

LEMMA SwitchTyped ==
  ASSUME IInv, Switch
  PROVE  IInv'
  <1>1. /\ m.pc = "switch" /\ name' = meta[m.info].name /\ m' = [m EXCEPT !.pc = "read"]
        /\ UNCHANGED <<files, meta, allowed, r, merges>>
        /\ lockLsn' = lockLsn /\ mutex' = mutex
    BY DEF Switch, unchangedByMerge
  <1>2. /\ m.info \in Nat /\ m.info <= Len(Table) /\ OnItsWay(m)
        /\ Len(Table) \in Nat /\ Table \in Seq(Entries)
    BY MergeIs
  <1>3. m.cur \in Nodes(m.list) /\ m.info >= 1
    BY <1>1, <1>2 DEF OnItsWay
  <1>4. name' \in Names
    <2>1. meta = Table
      BY <1>1 DEF Table
    <2> QED
      BY <1>1, <1>2, <1>3, <2>1, EntriesEnd
  <1>5. /\ m.pc # "place" /\ "read" \in MergePcs /\ "read" \notin Chunked
        /\ "read" \notin {"place", "walk", "unlock", "down"} \cup Written
    BY <1>1 DEF MergePcs, Chunked, Written
  <1> QED
    BY <1>1, <1>3, <1>4, <1>5, PlainStep

LEMMA ReadMmapTyped ==
  ASSUME IInv, ReadMmap
  PROVE  IInv'
  <1>1. CASE EndProcess(files, {})
    <2>1. FilesTyped' /\ FilesAreSmall'
      BY <1>1, FilesKept DEF EndProcess
    <2> QED
      BY <1>1, <2>1, EndingTheProcess
  <1>2. CASE /\ m.pc = "read"
             /\ m' = [m EXCEPT !.pc = "walk", !.cur = After(m.list, m.cur),
                        !.merge = Inserted(files[name].recs)]
             /\ UNCHANGED <<files, meta, shared, allowed, hazards, unchangedByMerge>>
    <2>1. /\ files' = files /\ meta' = meta /\ name' = name /\ lockLsn' = lockLsn
          /\ mutex' = mutex /\ allowed' = allowed /\ r' = r /\ merges' = merges
      BY <1>2 DEF shared, unchangedByMerge
    <2>2. /\ m \in Merges /\ m.info <= Len(Table) /\ m.at <= Len(Table) /\ OnItsWay(m)
          /\ (HasName(m) => name \in Names) /\ files \in [Names -> Blocks]
      BY MergeIs
    <2>3. name \in Names
      BY <1>2, <2>2 DEF HasName, Named
    <2>4. files[name].recs \in Rows
      BY <2>2, <2>3 DEF Blocks, Rows
    <2>5. m.cur \in Nodes(m.list) /\ m.info >= 1
      BY <1>2, <2>2 DEF OnItsWay
    <2>6. PICK merge : merge = Inserted(files[name].recs)
      OBVIOUS
    <2>7. merge \in Rows /\ merge # Empty
      BY <2>2, <2>4, <2>5, <2>6, InsertedIsThere
    <2>8. PICK cur : cur = After(m.list, m.cur)
      OBVIOUS
    <2>9. cur = Nil \/ cur \in Nodes(m.list)
      BY <2>8, AfterIsANode
    <2>10. cur \in Keys \cup {Nil}
      BY <2>9, NodesAreKeys
    <2>11. /\ m' \in Merges /\ m'.pc = "walk" /\ m'.info = m.info /\ m'.at = m.at
           /\ m'.cur = cur /\ m'.list = m.list /\ m'.merge = merge
      BY <1>2, <2>2, <2>6, <2>7, <2>8, <2>10 DEF Merges, MergePcs
    <2>12. OnItsWay(m')
      BY <2>5, <2>7, <2>9, <2>11 DEF OnItsWay, Chunked, Written
    <2>13. RestTyped'
      BY <2>1, RestKept
    <2>14. m.pc # "place" /\ m'.pc \notin {"place", "down"}
      BY <1>2, <2>11
    <2> QED
      BY <2>1, <2>2, <2>3, <2>11, <2>12, <2>13, <2>14, QuietMergeStep
  <1> QED
    BY <1>1, <1>2 DEF ReadMmap

LEMMA NameFileTyped ==
  ASSUME IInv, NameFile
  PROVE  IInv'
  <1>1. /\ m.pc = "name" /\ name' \in Names /\ m' = [m EXCEPT !.pc = "open"]
        /\ UNCHANGED <<files, meta, allowed, r, merges>>
        /\ lockLsn' = lockLsn /\ mutex' = mutex
    BY DEF NameFile, unchangedByMerge
  <1>2. /\ m.pc # "place" /\ "open" \in MergePcs /\ m.pc \in Chunked
        /\ "open" \notin {"place", "walk", "unlock", "down"} \cup Written
        /\ "open" \notin {"switch", "read"}
    BY <1>1 DEF MergePcs, Chunked, Written
  <1> QED
    BY <1>1, <1>2, PlainStep

LEMMA AnnounceTyped ==
  ASSUME IInv, Announce
  PROVE  IInv'
  <1>1. /\ m.pc = "announce" /\ lockLsn' = m.lsn /\ m' = [m EXCEPT !.pc = "lock"]
        /\ UNCHANGED <<files, meta, allowed, r, merges>>
        /\ name' = name /\ mutex' = mutex
    BY DEF Announce, unchangedByMerge
  <1>2. m \in Merges /\ (HasName(m) => name \in Names)
    BY MergeIs
  <1>3. name \in Names
    BY <1>1, <1>2 DEF HasName, Named
  <1>4. /\ m.pc # "place" /\ "lock" \in MergePcs /\ m.pc \in Chunked
        /\ "lock" \notin {"place", "walk", "unlock", "down"} \cup Written
        /\ "lock" \notin {"switch", "read"}
    BY <1>1 DEF MergePcs, Chunked, Written
  <1>5. lockLsn' \in Nat \cup {NoLsn}
    BY <1>1, <1>2 DEF Merges
  <1> QED
    BY <1>1, <1>3, <1>4, <1>5, PlainStep

LEMMA LockTyped ==
  ASSUME IInv, Lock
  PROVE  IInv'
  <1>1. /\ m.pc = "lock" /\ mutex' = "merge" /\ m' = [m EXCEPT !.pc = "open"]
        /\ UNCHANGED <<files, meta, allowed, r, merges>>
        /\ name' = name /\ lockLsn' = lockLsn
    BY DEF Lock, Take, unchangedByMerge
  <1>2. m \in Merges /\ (HasName(m) => name \in Names)
    BY MergeIs
  <1>3. name \in Names
    BY <1>1, <1>2 DEF HasName, Named
  <1>4. /\ m.pc # "place" /\ "open" \in MergePcs /\ m.pc \in Chunked
        /\ "open" \notin {"place", "walk", "unlock", "down"} \cup Written
        /\ "open" \notin {"switch", "read"}
    BY <1>1 DEF MergePcs, Chunked, Written
  <1> QED
    BY <1>1, <1>3, <1>4, PlainStep


(* A file that is torn, or written whole from a chunk. *)
LEMMA TornFileTyped ==
  ASSUME IInv, name \in Names, files' = [files EXCEPT ![name] = Torn]
  PROVE  FilesTyped' /\ FilesAreSmall'
  <1>1. files \in [Names -> Blocks] /\ \A n \in Names : files[n].state = "ok" => files[n].end \in Keys
    BY DEF IInv, FilesTyped
  <1>2. Torn \in Blocks /\ Torn.state # "ok"
    BY DEF Torn, Blocks, Empty, Nil
  <1>3. files' \in [Names -> Blocks]
    BY <1>1, <1>2
  <1>4. \A n \in Names : files'[n] = IF n = name THEN Torn ELSE files[n]
    BY <1>1
  <1>5. FilesTyped'
    BY <1>1, <1>2, <1>3, <1>4 DEF FilesTyped
  <1>6. FilesAreSmall'
    BY <1>2, <1>4 DEF IInv, FilesAreSmall
  <1> QED
    BY <1>5, <1>6

LEMMA OpenTyped ==
  ASSUME IInv, Open
  PROVE  IInv'
  <1>1. m.pc = "open"
    BY DEF Open
  <1>2. /\ m \in Merges /\ m.info <= Len(Table) /\ m.at <= Len(Table) /\ OnItsWay(m)
        /\ (HasName(m) => name \in Names) /\ Len(Table) \in Nat
    BY MergeIs
  <1>3. name \in Names /\ m.chunks # << >>
    BY <1>1, <1>2 DEF HasName, Named, OnItsWay, Chunked
  <1>4. CASE EndProcess([files EXCEPT ![name] = Torn], {"alldel"})
    <2>1. files' = [files EXCEPT ![name] = Torn]
      BY <1>4 DEF EndProcess
    <2> QED
      BY <1>3, <1>4, <2>1, TornFileTyped, EndingTheProcess
  <1>5. CASE /\ Adds(Chunk) # {}
             /\ files' = [files EXCEPT ![name] = Torn]
             /\ m' = [m EXCEPT !.pc = "write", !.fd = name]
             /\ UNCHANGED <<meta, shared, allowed, hazards, unchangedByMerge>>
    <2>1. /\ meta' = meta /\ name' = name /\ lockLsn' = lockLsn
          /\ mutex' = mutex /\ allowed' = allowed /\ r' = r /\ merges' = merges
      BY <1>5 DEF shared, unchangedByMerge
    <2>2. FilesTyped' /\ FilesAreSmall'
      BY <1>3, <1>5, TornFileTyped
    <2>3. /\ m' \in Merges /\ m'.pc = "write" /\ m'.info = m.info /\ m'.at = m.at
          /\ m'.cur = m.cur /\ m'.list = m.list /\ m'.then = m.then
          /\ m'.rest = m.rest /\ m'.chunks = m.chunks /\ m'.merge = m.merge
      BY <1>2, <1>3, <1>5 DEF Merges, MergePcs
    <2>4. Adds(ChunkOf(m')) # {}
      <3>1. Chunk = ChunkOf(m)
        BY DEF Chunk, ChunkOf
      <3>2. ChunkOf(m') = ChunkOf(m)
        BY <2>3 DEF ChunkOf
      <3> QED
        BY <1>5, <3>1, <3>2
    <2>5. OnItsWay(m')
      BY <1>1, <1>2, <2>3, <2>4 DEF OnItsWay, Chunked, Written
    <2>6. RestTyped'
      BY <2>1, RestKept
    <2>7. TableTyped' /\ Table' = Table /\ Len(Table) <= Len(Table')
      BY <1>1, <2>1, <2>3, TableKept
    <2> QED
      BY <1>2, <1>3, <2>1, <2>2, <2>3, <2>5, <2>6, <2>7, MergeStep
  <1> QED
    BY <1>4, <1>5 DEF Open

(* At each step from the writing on, the chunk has an addition in it, and  *)
(* the file a name.                                                        *)
LEMMA ChunkAtWork ==
  ASSUME IInv, m.pc \in Written
  PROVE  /\ Chunk \in Rows /\ Adds(Chunk) # {} /\ Nodes(Chunk) # {}
         /\ Cardinality(Nodes(Chunk)) <= 2 * MaxCount
         /\ EndOf(Chunk) \in Keys /\ name \in Names /\ m.chunks # << >>
  <1>1. m \in Merges /\ OnItsWay(m) /\ (HasName(m) => name \in Names)
    BY MergeIs
  <1>2. m.chunks # << >> /\ Adds(ChunkOf(m)) # {} /\ name \in Names
    BY <1>1 DEF OnItsWay, Chunked, Written, HasName, Named
  <1>3. /\ Chunk \in Rows /\ Chunk = ChunkOf(m) /\ Cardinality(Nodes(Chunk)) <= 2 * MaxCount
        /\ (Nodes(Chunk) # {} => EndOf(Chunk) \in Keys)
    BY <1>1, <1>2, ChunkIsSmall
  <1>4. Nodes(Chunk) # {}
    BY <1>2, <1>3, NodesAreKeys
  <1> QED
    BY <1>2, <1>3, <1>4

LEMMA WriteTyped ==
  ASSUME IInv, Write
  PROVE  IInv'
  <1>1. /\ m.pc = "write"
        /\ files' = [files EXCEPT ![m.fd] =
             [state |-> "ok", recs |-> Only(Chunk, Adds(Chunk)), end |-> EndOf(Chunk)]]
        /\ \E pc \in {"grow", "register"} : m' = [m EXCEPT !.pc = pc]
        /\ meta' = meta /\ name' = name /\ lockLsn' = lockLsn
        /\ mutex' = mutex /\ allowed' = allowed /\ r' = r /\ merges' = merges
    BY DEF Write, shared, unchangedByMerge
  <1>2. /\ m \in Merges /\ m.info <= Len(Table) /\ m.at <= Len(Table) /\ OnItsWay(m)
        /\ Len(Table) \in Nat
    BY MergeIs
  <1>3. /\ Chunk \in Rows /\ Adds(Chunk) # {} /\ Nodes(Chunk) # {}
        /\ Cardinality(Nodes(Chunk)) <= 2 * MaxCount
        /\ EndOf(Chunk) \in Keys /\ name \in Names
    BY <1>1, ChunkAtWork DEF Written
  <1>4. PICK file : file = [state |-> "ok", recs |-> Only(Chunk, Adds(Chunk)), end |-> EndOf(Chunk)]
    OBVIOUS
  <1>5. PICK recs : recs = Only(Chunk, Adds(Chunk))
    OBVIOUS
  <1>6. recs \in [Keys -> Nat]
    <2>1. recs = [k \in Keys |-> IF k \in Adds(Chunk) THEN Chunk[k] ELSE Nil]
      BY <1>5 DEF Only
    <2>2. \A k \in Adds(Chunk) : Chunk[k] \in Nat
      BY <1>3 DEF Adds, Rows
    <2> QED
      BY <2>1, <2>2 DEF Nil
  <1>7. file.state = "ok" /\ file.recs = recs /\ file.end \in Keys /\ file \in Blocks
    BY <1>3, <1>4, <1>5, <1>6 DEF Blocks
  <1>8. Cardinality(Nodes(recs)) \in 1 .. 2 * MaxCount
    <2>1. PICK S : S = Adds(Chunk)
      OBVIOUS
    <2>2. Nodes(recs) = Nodes(Chunk) \cap S
      BY <1>3, <1>5, <2>1, OnlyKeeps
    <2>3. Nodes(recs) \subseteq Nodes(Chunk) /\ Nodes(recs) # {}
      BY <1>3, <2>1, <2>2, NodesAreKeys
    <2>4. Nodes(Chunk) \in SUBSET Keys /\ Nodes(recs) \in SUBSET Keys
      BY NodesAreKeys
    <2>5. PICK a, b : a = Cardinality(Nodes(recs)) /\ b = Cardinality(Nodes(Chunk))
      OBVIOUS
    <2>6. a \in Nat /\ b \in Nat /\ a >= 1 /\ IsFiniteSet(Nodes(Chunk))
      BY <2>3, <2>4, <2>5, KeysAreFinite
    <2>7. a <= b
      <3>1. Nodes(recs) \in SUBSET Nodes(Chunk)
        BY <2>3
      <3> QED
        BY <2>5, <2>6, <3>1, FS_Subset
    <2>8. b <= 2 * MaxCount /\ MaxCount \in Nat
      BY <1>3, <2>5, SilopitAssumption
    <2> QED
      BY <2>5, <2>6, <2>7, <2>8
  <1>9. files \in [Names -> Blocks]
    BY MergeIs
  <1>10. \A n \in Names : files'[n] = IF n = m.fd THEN file ELSE files[n]
    BY <1>1, <1>4, <1>9
  <1>11. FilesTyped'
    <2>1. files' \in [Names -> Blocks]
      BY <1>1, <1>4, <1>7, <1>9
    <2>2. \A n \in Names : files[n].state = "ok" => files[n].end \in Keys
      BY DEF IInv, FilesTyped
    <2> QED
      BY <1>7, <1>10, <2>1, <2>2 DEF FilesTyped
  <1>12. FilesAreSmall'
    <2>1. \A n \in Names : files[n].state = "ok" =>
            Cardinality(Nodes(files[n].recs)) \in 1 .. 2 * MaxCount
      BY DEF IInv, FilesAreSmall
    <2> QED
      BY <1>7, <1>8, <1>10, <2>1 DEF FilesAreSmall
  <1>13. PICK pc \in {"grow", "register"} : m' = [m EXCEPT !.pc = pc]
    BY <1>1
  <1>14. /\ m' \in Merges /\ m'.pc = pc /\ m'.info = m.info /\ m'.at = m.at
         /\ m'.cur = m.cur /\ m'.list = m.list /\ m'.then = m.then
         /\ m'.rest = m.rest /\ m'.chunks = m.chunks
    <2>1. pc \in MergePcs
      BY DEF MergePcs
    <2> QED
      BY <1>2, <1>13, <2>1 DEF Merges
  <1>15. ChunkOf(m') = ChunkOf(m)
    BY <1>14 DEF ChunkOf
  <1>16. OnItsWay(m')
    BY <1>1, <1>2, <1>14, <1>15 DEF OnItsWay, Chunked, Written
  <1>17. RestTyped'
    BY <1>1, RestKept
  <1>18. m.pc # "place" /\ m'.pc \notin {"place", "down"}
    BY <1>1, <1>14
  <1>19. TableTyped' /\ Table' = Table /\ Len(Table) <= Len(Table')
    BY <1>1, <1>18, TableKept
  <1> QED
    BY <1>1, <1>2, <1>3, <1>11, <1>12, <1>14, <1>16, <1>17, <1>19, MergeStep

LEMMA GrowTyped ==
  ASSUME IInv, Grow
  PROVE  IInv'
  <1>1. /\ m.pc = "grow" /\ meta' = Append(meta, Blank)
        /\ m' = [m EXCEPT !.pc = "place", !.at = Search(meta, EndOf(Chunk))]
        /\ files' = files /\ name' = name /\ lockLsn' = lockLsn
        /\ mutex' = mutex /\ allowed' = allowed /\ r' = r /\ merges' = merges
    BY DEF Grow, Blank, shared, unchangedByMerge
  <1>2. /\ m \in Merges /\ m.info <= Len(Table) /\ OnItsWay(m)
        /\ Len(Table) \in Nat /\ Table \in Seq(Entries)
    BY MergeIs
  <1>3. EndOf(Chunk) \in Keys /\ name \in Names
    BY <1>1, ChunkAtWork DEF Written
  <1>4. meta = Table
    BY <1>1 DEF Table
  <1>5. PICK at : at = Search(meta, EndOf(Chunk))
    OBVIOUS
  <1>6. at \in Nat /\ at <= Len(Table)
    BY <1>2, <1>3, <1>4, <1>5, SearchIsAnIndex
  <1>7. /\ m' \in Merges /\ m'.pc = "place" /\ m'.info = m.info /\ m'.at = at
        /\ m'.cur = m.cur /\ m'.list = m.list /\ m'.then = m.then
        /\ m'.rest = m.rest /\ m'.chunks = m.chunks
    BY <1>1, <1>2, <1>5, <1>6 DEF Merges, MergePcs
  <1>8. Table' = Table
    <2>1. Table' = Front(meta')
      BY <1>7 DEF Table
    <2> QED
      BY <1>1, <1>2, <1>4, <2>1, FrontOfAppend
  <1>9. TableTyped'
    BY <1>1, <1>2, <1>4, <1>8 DEF TableTyped
  <1>10. ChunkOf(m') = ChunkOf(m)
    BY <1>7 DEF ChunkOf
  <1>11. OnItsWay(m')
    BY <1>1, <1>2, <1>7, <1>10 DEF OnItsWay, Chunked, Written
  <1>12. RestTyped'
    BY <1>1, RestKept
  <1>13. m'.info <= Len(Table') /\ m'.at <= Len(Table') /\ Len(Table) <= Len(Table')
    BY <1>2, <1>6, <1>7, <1>8
  <1> QED
    BY <1>1, <1>3, <1>7, <1>9, <1>11, <1>12, <1>13, FilesKept, MergeStep


(* After a chunk there is the next one, or what the flush was part of. *)
LEMMA AfterChunkIsTyped ==
  ASSUME IInv, m.pc \in {"place", "register"}
  PROVE  /\ AfterChunk \in Merges /\ OnItsWay(AfterChunk)
         /\ AfterChunk.info = m.info /\ AfterChunk.at = m.at /\ AfterChunk.pc \notin {"place", "down"}
  <1>1. /\ m \in Merges /\ OnItsWay(m) /\ m.rest \in Rows /\ m.chunks \in Seq(1 .. 2 * MaxCount)
    BY MergeIs
  <1>2. /\ m.chunks # << >>
        /\ m.then = "done" \/ m.cur \in Nodes(m.list)
        /\ m.then = "switch" => m.info >= 1
    BY <1>1 DEF OnItsWay, Chunked
  <1>3. PICK rest : rest = Only(m.rest, Nodes(m.rest) \ Nodes(Chunk))
    OBVIOUS
  <1>4. rest \in Rows
    BY <1>1, <1>3, OnlyKeeps
  <1>5. PICK chunks : chunks = Tail(m.chunks)
    OBVIOUS
  <1>6. chunks \in Seq(1 .. 2 * MaxCount)
    <2>1. m.chunks # << >>
      BY <1>1 DEF OnItsWay, Chunked
    <2> QED
      BY <1>1, <1>5, <2>1, HeadTailProperties
  <1>7. PICK s : s = [m EXCEPT !.rest = rest, !.chunks = chunks, !.fd = NoName]
    OBVIOUS
  <1>8. /\ s \in Merges /\ s.list = m.list /\ s.cur = m.cur /\ s.then = m.then
        /\ s.info = m.info /\ s.at = m.at /\ s.merge = m.merge
    BY <1>1, <1>4, <1>6, <1>7 DEF Merges
  <1>9. CASE AfterChunk = [s EXCEPT !.pc = "unlock"]
    <2>1. PICK n : n = [s EXCEPT !.pc = "unlock"]
      OBVIOUS
    <2>2. /\ n \in Merges /\ n.pc = "unlock" /\ n.list = m.list /\ n.cur = m.cur
          /\ n.then = m.then /\ n.info = m.info /\ n.at = m.at
      BY <1>8, <2>1 DEF Merges, MergePcs
    <2>3. OnItsWay(n)
      BY <1>2, <2>2 DEF OnItsWay, Chunked, Written
    <2> QED
      BY <1>9, <2>1, <2>2, <2>3
  <1>10. CASE AfterChunk = Continue(s)
    <2>1. /\ Continue(s) \in Merges /\ OnItsWay(Continue(s))
          /\ Continue(s).info = s.info /\ Continue(s).at = s.at
          /\ Continue(s).pc \in {"name", "switch", "end"}
      BY <1>1, <1>2, <1>8, ContinueIsTyped
    <2> QED
      BY <1>8, <1>10, <2>1
  <1>11. AfterChunk = IF m.lsn # NoLsn /\ ~ m.fresh THEN [s EXCEPT !.pc = "unlock"]
                      ELSE Continue(s)
    BY <1>3, <1>5, <1>7 DEF AfterChunk
  <1> QED
    BY <1>9, <1>10, <1>11

LEMMA PlaceTyped ==
  ASSUME IInv, Place
  PROVE  IInv'
  <1>1. /\ m.pc = "place" /\ meta' = PutAt(Front(meta), m.at, EndOf(Chunk), name)
        /\ m' = AfterChunk
        /\ files' = files /\ name' = name /\ lockLsn' = lockLsn
        /\ mutex' = mutex /\ allowed' = allowed /\ r' = r /\ merges' = merges
    BY DEF Place, shared, unchangedByMerge
  <1>2. /\ m.info <= Len(Table) /\ m.at \in Nat /\ m.at <= Len(Table) /\ m.info \in Nat
        /\ Len(Table) \in Nat /\ Table \in Seq(Entries)
    BY MergeIs
  <1>3. EndOf(Chunk) \in Keys /\ name \in Names
    BY <1>1, ChunkAtWork DEF Written
  <1>4. m' \in Merges /\ OnItsWay(m') /\ m'.info = m.info /\ m'.at = m.at /\ m'.pc \notin {"place", "down"}
    BY <1>1, AfterChunkIsTyped
  <1>5. Table' = meta'
    BY <1>4 DEF Table
  <1>6. PICK end : end = EndOf(Chunk)
    OBVIOUS
  <1>7. meta' = PutAt(Table, m.at, end, name)
    BY <1>1, <1>6 DEF Table
  <1>8. meta' \in Seq(Entries) /\ Len(meta') = Len(Table) + 1
    <2>1. Node(end, name, Len(Table) + 1) \in Entries
      BY <1>2, <1>3, <1>6, NodesAreEntries
    <2>2. m.at \in 0 .. Len(Table)
      BY <1>2
    <2> QED
      BY <1>2, <1>7, <2>1, <2>2, PuttingPuts
  <1>9. TableTyped'
    BY <1>4, <1>5, <1>8 DEF TableTyped
  <1>10. RestTyped'
    BY <1>1, RestKept
  <1>11. Len(Table) <= Len(Table') /\ m'.info <= Len(Table') /\ m'.at <= Len(Table')
    BY <1>2, <1>4, <1>5, <1>8
  <1> QED
    BY <1>1, <1>3, <1>4, <1>9, <1>10, <1>11, FilesKept, MergeStep

LEMMA MetaSetByNameIsTyped ==
  ASSUME meta \in Seq(Entries), NEW end \in Keys
  PROVE  MetaSetByName(end) \in Seq(Entries) /\ Len(MetaSetByName(end)) = Len(meta)
  <1> DEFINE same == {i \in DOMAIN meta : meta[i].name = name}
  <1>1. /\ Len(meta) \in Nat /\ DOMAIN meta = 1 .. Len(meta)
        /\ \A i \in 1 .. Len(meta) : meta[i] \in Entries
    BY EntriesEnd
  <1>2. CASE same = {}
    BY <1>2 DEF MetaSetByName
  <1>3. CASE same # {}
    <2>1. PICK i : i = Min(same)
      OBVIOUS
    <2>2. same \subseteq Nat
      BY <1>1
    <2>3. i \in same
      <3> HIDE DEF same
      <3>1. \E j \in same : \A k \in same : j <= k
        BY <1>3, <2>2, LeastElement
      <3> QED
        BY <2>1, <3>1, Zenon DEF Min
    <2>4. MetaSetByName(end) = [meta EXCEPT ![i].end = end]
      BY <1>3, <2>1 DEF MetaSetByName
    <2>5. i \in 1 .. Len(meta)
      BY <1>1, <2>3
    <2>6. [meta[i] EXCEPT !.end = end] \in Entries
      BY <1>1, <2>5 DEF Entries
    <2> HIDE DEF same
    <2>7. PICK e : e = [meta[i] EXCEPT !.end = end]
      OBVIOUS
    <2>8. MetaSetByName(end) = [meta EXCEPT ![i] = e]
      BY <2>4, <2>7
    <2>9. [meta EXCEPT ![i] = e] \in Seq(Entries) /\ Len([meta EXCEPT ![i] = e]) = Len(meta)
      BY <2>5, <2>6, <2>7, ExceptSeq
    <2> QED
      BY <2>8, <2>9
  <1> QED
    BY <1>2, <1>3

LEMMA RegisterTyped ==
  ASSUME IInv, Register
  PROVE  IInv'
  <1>1. /\ m.pc = "register" /\ meta' = IF m.fresh THEN meta ELSE MetaSetByName(EndOf(Chunk))
        /\ m' = AfterChunk
        /\ files' = files /\ name' = name /\ lockLsn' = lockLsn
        /\ mutex' = mutex /\ allowed' = allowed /\ r' = r /\ merges' = merges
    BY DEF Register, shared, unchangedByMerge
  <1>2. /\ m.info <= Len(Table) /\ m.at <= Len(Table)
        /\ Len(Table) \in Nat /\ Table \in Seq(Entries)
    BY MergeIs
  <1>3. EndOf(Chunk) \in Keys /\ name \in Names
    BY <1>1, ChunkAtWork DEF Written
  <1>4. m' \in Merges /\ OnItsWay(m') /\ m'.info = m.info /\ m'.at = m.at /\ m'.pc \notin {"place", "down"}
    BY <1>1, AfterChunkIsTyped
  <1>5. Table' = meta' /\ Table = meta
    BY <1>1, <1>4 DEF Table
  <1>6. meta' \in Seq(Entries) /\ Len(meta') = Len(Table)
    BY <1>1, <1>2, <1>3, <1>5, MetaSetByNameIsTyped
  <1>7. TableTyped'
    BY <1>4, <1>5, <1>6 DEF TableTyped
  <1>8. RestTyped'
    BY <1>1, RestKept
  <1>9. Len(Table) <= Len(Table') /\ m'.info <= Len(Table') /\ m'.at <= Len(Table')
    BY <1>2, <1>4, <1>5, <1>6
  <1> QED
    BY <1>1, <1>3, <1>4, <1>7, <1>8, <1>9, FilesKept, MergeStep

LEMMA UnlockTyped ==
  ASSUME IInv, Unlock
  PROVE  IInv'
  <1>1. /\ m.pc = "unlock" /\ mutex' = "free" /\ lockLsn' = NoLsn /\ m' = Continue(m)
        /\ files' = files /\ meta' = meta /\ name' = name
        /\ allowed' = allowed /\ r' = r /\ merges' = merges
    BY DEF Unlock, unchangedByMerge
  <1>2. /\ m \in Merges /\ OnItsWay(m) /\ m.info <= Len(Table) /\ m.at <= Len(Table)
        /\ (HasName(m) => name \in Names)
    BY MergeIs
  <1>3. name \in Names
    BY <1>1, <1>2 DEF HasName, Named
  <1>4. /\ m.then # "done" => m.cur \in Nodes(m.list)
        /\ m.then = "switch" => m.info >= 1
    BY <1>1, <1>2 DEF OnItsWay
  <1>5. /\ Continue(m) \in Merges /\ OnItsWay(Continue(m))
        /\ Continue(m).info = m.info /\ Continue(m).at = m.at
        /\ Continue(m).pc \in {"name", "switch", "end"}
    BY <1>2, <1>4, ContinueIsTyped
  <1>6. m' \in Merges /\ OnItsWay(m') /\ m'.info = m.info /\ m'.at = m.at /\ m'.pc \notin {"place", "down"}
    BY <1>1, <1>5
  <1>7. RestTyped'
    <2>1. mutex' \in {"free", "merge", "get"} /\ lockLsn' \in Nat \cup {NoLsn}
      BY <1>1
    <2> QED
      BY <1>1, <2>1, RestKept
  <1>8. m.pc # "place"
    BY <1>1
  <1> QED
    BY <1>1, <1>2, <1>3, <1>6, <1>7, <1>8, QuietMergeStep

LEMMA EndMergeTyped ==
  ASSUME IInv, EndMerge
  PROVE  IInv'
  <1>1. /\ m.pc = "end" /\ m' = NoMerge
        /\ files' = files /\ meta' = meta /\ name' = name /\ lockLsn' = lockLsn
        /\ mutex' = mutex /\ r' = r /\ merges' = merges
    BY DEF EndMerge, shared, unchangedByMerge
  <1>2. m.list \in Rows /\ Len(Table) \in Nat
    BY MergeIs
  <1>3. allowed' \in [Keys -> SUBSET Nat]
    <2>1. allowed' = [k \in Keys |-> CASE m.list[k] = Nil     -> allowed[k]
                                       [] m.list[k] = Deleted -> {Nil}
                                       [] OTHER               -> {m.list[k]}]
      BY DEF EndMerge
    <2>2. allowed \in [Keys -> SUBSET Nat]
      BY DEF IInv, RestTyped
    <2>3. \A k \in Keys : m.list[k] \in Nat \/ m.list[k] = Deleted
      BY <1>2 DEF Rows
    <2> QED
      BY <2>1, <2>2, <2>3 DEF Nil
  <1>4. RestTyped'
    BY <1>1, <1>3 DEF IInv, RestTyped
  <1>5. m' \in Merges /\ OnItsWay(m') /\ ~ HasName(m') /\ m'.pc = "idle" /\ m'.info = 0 /\ m'.at = 0
    BY <1>1, NoMergeIsTyped
  <1>6. m.pc # "place" /\ m'.pc \notin {"place", "down"}
    BY <1>1, <1>5
  <1> QED
    BY <1>1, <1>2, <1>4, <1>5, <1>6, QuietMergeStep


-----------------------------------------------------------------------------
(* The steps of a lookup *)

(* The merge and the table stand still; at most the name changes hands. *)
LEMMA ReadStep ==
  ASSUME IInv, UNCHANGED <<files, meta, lockLsn, m, allowed, merges>>,
         mutex' = mutex \/ mutex' \in {"free", "merge", "get"},
         name' = name \/ name' \in Names,
         r' \in Reads, r'.info <= Len(Table), r'.pc # "idle" => r'.key \in Keys,
         r'.pc \in {"name", "lsn"} => r'.info >= 1,
         r'.pc \in {"lsn", "lock", "read", "locked"} => name' \in Names
  PROVE  IInv'
  <1>1. Table' = Table
    BY DEF Table
  <1>2. TableTyped'
    BY <1>1 DEF IInv, TableTyped
  <1>3. MergeTyped'
    <2>1. HasName(m') => name' \in Names
      BY MergeIs
    <2> QED
      BY <1>1, <2>1 DEF IInv, MergeTyped
  <1>4. ReadTyped'
    BY <1>1 DEF ReadTyped
  <1>5. RestTyped'
    BY RestKept
  <1> QED
    BY <1>2, <1>3, <1>4, <1>5, FilesKept DEF IInv

LEMMA ReadIs ==
  ASSUME IInv
  PROVE  /\ r \in Reads /\ r.info \in Nat /\ r.info <= Len(Table)
         /\ (r.pc # "idle" => r.key \in Keys)
         /\ (r.pc \in {"name", "lsn"} => r.info >= 1)
         /\ (r.pc \in {"lsn", "lock", "read", "locked"} => name \in Names)
         /\ Len(Table) \in Nat /\ Table \in Seq(Entries)
  BY MergeIs DEF IInv, ReadTyped, Reads

LEMMA GetTyped ==
  ASSUME IInv, NEW k \in Keys, Get(k)
  PROVE  IInv'
  <1>1. PICK info : info = MetaGet(k)
    OBVIOUS
  <1>2. /\ r' = [NoRead EXCEPT !.pc = IF info = NULL THEN "got" ELSE "name",
                               !.key = k, !.info = info]
        /\ UNCHANGED <<files, meta, lockLsn, m, allowed, merges>>
        /\ name' = name /\ mutex' = mutex
    BY <1>1 DEF Get, unchangedByGet
  <1>3. info \in Nat /\ info <= Len(Table) /\ (info # NULL => info >= 1)
    <2>1. TableTyped /\ Len(Table) \in Nat
      BY MergeIs DEF IInv
    <2> QED
      BY <1>1, <2>1, MetaGetIsAnEntry
  <1>4. /\ r' \in Reads /\ r'.key = k /\ r'.info = info
        /\ r'.pc = IF info = NULL THEN "got" ELSE "name"
    BY <1>2, <1>3 DEF NoRead, Reads, ReadPcs, Nil, NULL
  <1> QED
    BY <1>2, <1>3, <1>4, ReadStep

LEMMA GetNameTyped ==
  ASSUME IInv, GetName
  PROVE  IInv'
  <1>1. /\ r.pc = "name" /\ name' = meta[r.info].name /\ r' = [r EXCEPT !.pc = "lsn"]
        /\ UNCHANGED <<files, meta, lockLsn, m, allowed, merges>> /\ mutex' = mutex
    BY DEF GetName, unchangedByGet
  <1>2. r \in Reads /\ r.info \in Nat /\ r.info >= 1 /\ r.info <= Len(Table) /\ r.key \in Keys
    BY <1>1, ReadIs
  <1>3. name' \in Names
    <2>1. r.info \in 1 .. Len(Table) /\ Table \in Seq(Entries)
      BY <1>2, ReadIs
    <2>2. meta[r.info] \in Entries
      BY <2>1, TableIsWhole DEF IInv
    <2> QED
      BY <1>1, <2>2 DEF Entries
  <1>4. r' \in Reads /\ r'.pc = "lsn" /\ r'.info = r.info /\ r'.key = r.key
    BY <1>1, <1>2 DEF Reads, ReadPcs
  <1> QED
    BY <1>1, <1>2, <1>3, <1>4, ReadStep

LEMMA GetLsnTyped ==
  ASSUME IInv, GetLsn
  PROVE  IInv'
  <1>1. /\ r.pc = "lsn"
        /\ UNCHANGED <<files, meta, lockLsn, m, allowed, merges>>
        /\ name' = name /\ mutex' = mutex
        /\ \E pc \in {"lock", "read"} : r' = [r EXCEPT !.pc = pc]
    BY DEF GetLsn, unchangedByGet
  <1>2. r \in Reads /\ r.info <= Len(Table) /\ r.key \in Keys /\ name \in Names
    BY <1>1, ReadIs
  <1>3. PICK pc \in {"lock", "read"} : r' = [r EXCEPT !.pc = pc]
    BY <1>1
  <1>4. r' \in Reads /\ r'.pc = pc /\ r'.info = r.info /\ r'.key = r.key
    BY <1>2, <1>3 DEF Reads, ReadPcs
  <1> QED
    BY <1>1, <1>2, <1>4, ReadStep

LEMMA GetLockTyped ==
  ASSUME IInv, GetLock
  PROVE  IInv'
  <1>1. /\ r.pc = "lock" /\ mutex' = "get" /\ r' = [r EXCEPT !.pc = "locked"]
        /\ UNCHANGED <<files, meta, lockLsn, m, allowed, merges>> /\ name' = name
    BY DEF GetLock, Take, unchangedByGet
  <1>2. r \in Reads /\ r.info <= Len(Table) /\ r.key \in Keys /\ name \in Names
    BY <1>1, ReadIs
  <1>3. r' \in Reads /\ r'.pc = "locked" /\ r'.info = r.info /\ r'.key = r.key
    BY <1>1, <1>2 DEF Reads, ReadPcs
  <1> QED
    BY <1>1, <1>2, <1>3, ReadStep

LEMMA GetReadTyped ==
  ASSUME IInv, GetRead
  PROVE  IInv'
  <1>1. r.pc \in {"read", "locked"}
    BY DEF GetRead
  <1>2. r \in Reads /\ r.info <= Len(Table) /\ r.key \in Keys /\ name \in Names
    BY <1>1, ReadIs
  <1>3. ASSUME NEW named, EndProcess(files, named) PROVE IInv'
    <2>1. FilesTyped' /\ FilesAreSmall'
      BY <1>3, FilesKept DEF EndProcess
    <2> QED
      BY <1>3, <2>1, EndingTheProcess
  <1>4. ASSUME r' = [r EXCEPT !.pc = "got", !.off = files[name].recs[r.key]],
               mutex' = IF r.pc = "locked" THEN "free" ELSE mutex,
               UNCHANGED <<name, unchangedByGet>>
        PROVE  IInv'
    <2>1. UNCHANGED <<files, meta, lockLsn, m, allowed, merges>> /\ name' = name
      BY <1>4 DEF unchangedByGet
    <2>2. files[name].recs[r.key] \in Nat
      BY <1>2, MergeIs DEF Blocks
    <2>3. r' \in Reads /\ r'.pc = "got" /\ r'.info = r.info /\ r'.key = r.key
      BY <1>2, <1>4, <2>2 DEF Reads, ReadPcs
    <2>4. mutex' = mutex \/ mutex' \in {"free", "merge", "get"}
      BY <1>4
    <2> QED
      BY <1>2, <2>1, <2>3, <2>4, ReadStep
  <1> QED
    BY <1>3, <1>4 DEF GetRead

LEMMA GetDoneTyped ==
  ASSUME IInv, GetDone
  PROVE  IInv'
  <1>1. /\ r' = NoRead /\ name' = name /\ mutex' = mutex
        /\ UNCHANGED <<files, meta, lockLsn, m, allowed, merges>>
    BY DEF GetDone, unchangedByGet
  <1>2. Len(Table) \in Nat
    BY MergeIs
  <1>3. r' \in Reads /\ r'.pc = "idle" /\ r'.info = 0
    BY <1>1 DEF NoRead, Reads, ReadPcs, NULL, Nil
  <1> QED
    BY <1>1, <1>2, <1>3, ReadStep


-----------------------------------------------------------------------------
(* Death and the load *)

LEMMA DieTyped ==
  ASSUME IInv, Die
  PROVE  IInv'
  <1>1. PICK named : EndProcess(files, named)
    BY DEF Die
  <1>2. FilesTyped' /\ FilesAreSmall'
    BY <1>1, FilesKept DEF EndProcess
  <1> QED
    BY <1>1, <1>2, EndingTheProcess

LEMMA LoadTyped ==
  ASSUME IInv, Load
  PROVE  IInv'
  <1>1. /\ m.pc = "down" /\ ~ IsTorn /\ m' = NoMerge
        /\ files' = files /\ name' = name /\ lockLsn' = lockLsn /\ mutex' = mutex
        /\ r' = r /\ allowed' = allowed /\ merges' = merges
    BY DEF Load, shared
  <1>2. PICK order \in SetToSeqs(Present) : meta' = Loaded(files, order)
    BY DEF Load, Loaded
  <1>3. PICK N : N = Cardinality(Present)
    OBVIOUS
  <1>4. order \in [1 .. N -> Present]
    BY <1>2, <1>3 DEF SetToSeqs
  <1>5. N \in Nat
    <2>1. Present \in SUBSET Names
      BY DEF Present
    <2>2. IsFiniteSet(Names)
      <3>1. 0 \in Int /\ MaxFiles - 1 \in Int
        BY SilopitAssumption
      <3>2. \A i, j \in Int : IsFiniteSet(i .. j)
        BY FS_Interval
      <3> QED
        BY <3>1, <3>2 DEF Names
    <2>3. IsFiniteSet(Present)
      BY <2>1, <2>2, FS_Subset
    <2> QED
      BY <1>3, <2>3, FS_CardinalityType
  <1>6. \A n \in Present : n \in Names /\ files[n].end \in Keys
    <2>1. ASSUME NEW n \in Present PROVE files[n].state = "ok" /\ n \in Names
      BY <1>1, MergeIs DEF Present, IsTorn, Blocks
    <2> QED
      BY <2>1 DEF IInv, FilesTyped
  <1>7. order \in [1 .. N -> Names] /\ \A n \in 1 .. N : files[order[n]].end \in Keys
    BY <1>4, <1>6
  <1>8. meta' \in Seq(Entries)
    BY <1>2, <1>5, <1>7, LoadedAreEntries
  <1>9. /\ m' \in Merges /\ OnItsWay(m') /\ ~ HasName(m') /\ m'.pc = "idle"
        /\ m'.info = 0 /\ m'.at = 0
    BY <1>1, NoMergeIsTyped
  <1>10. Table' = meta'
    BY <1>9 DEF Table
  <1>11. TableTyped'
    BY <1>8, <1>9, <1>10 DEF TableTyped
  <1>12. RestTyped'
    BY <1>1, RestKept
  <1>13. Len(Table') \in Nat /\ Len(Table) = 0
    <2>1. Len(Table') \in Nat
      BY <1>8, <1>10, LenProperties
    <2>2. meta = << >> /\ Table = meta
      BY <1>1 DEF IInv, TableTyped, Table
    <2> QED
      BY <2>1, <2>2
  <1>14. Len(Table) <= Len(Table') /\ m'.info <= Len(Table') /\ m'.at <= Len(Table')
    BY <1>9, <1>13
  <1> QED
    BY <1>1, <1>9, <1>11, <1>12, <1>14, FilesKept, MergeStep

-----------------------------------------------------------------------------
(* Every step *)

LEMMA StepsKeepTypes ==
  IInv /\ [Next]_vars => IInv'
  <1> SUFFICES ASSUME IInv, [Next]_vars PROVE IInv'
    OBVIOUS
  <1>1. ASSUME NEW t \in Memtables, StartMerge(t) PROVE IInv'
    BY <1>1, StartMergeTyped
  <1>2. CASE Merge
    BY <1>2, WalkTyped, WalkDoneTyped, SwitchTyped, ReadMmapTyped, NameFileTyped,
       AnnounceTyped, LockTyped, OpenTyped, WriteTyped, GrowTyped, PlaceTyped,
       RegisterTyped, UnlockTyped, EndMergeTyped DEF Merge
  <1>3. ASSUME NEW k \in Keys, Get(k) PROVE IInv'
    BY <1>3, GetTyped
  <1>4. CASE Getoff
    BY <1>4, GetNameTyped, GetLsnTyped, GetLockTyped, GetReadTyped, GetDoneTyped DEF Getoff
  <1>5. CASE Die
    BY <1>5, DieTyped
  <1>6. CASE Load
    BY <1>6, LoadTyped
  <1>7. CASE UNCHANGED vars
    <2>1. UNCHANGED <<files, meta, lockLsn, m, allowed, merges>> /\ name' = name
          /\ mutex' = mutex /\ r' = r
      BY <1>7 DEF vars, shared
    <2> QED
      BY <2>1, ReadIs, ReadStep
  <1> QED
    BY <1>1, <1>2, <1>3, <1>4, <1>5, <1>6, <1>7 DEF Next, Refused, Quiet

THEOREM InvariantHolds ==
  Spec => []IInv
  BY TypedAtTheStart, StepsKeepTypes, PTL DEF Spec

(* Every variable keeps its type (TypeOK): through merges, lookups that    *)
(* write the merge's file name under it, deaths and loads, the entries of  *)
(* the table name files and end in keys, whatever the order of the table;  *)
(* neither thread follows a pointer that is no entry, though a lookup may  *)
(* search the table while an empty node stands at its end; and a chunk to  *)
(* write is one of a node at least and two chunks' nodes at most           *)
(* (silopit.c, meta.c).                                                    *)
THEOREM TypeCorrect ==
  Spec => []TypeOK
  BY InvariantHolds, TypesAreInTypeOK, PTL

(* No file holds more than two chunks' records or none (FilesAreSmall),    *)
(* however many merges go through it: _flush_merge_list and                *)
(* _flush_new_list cut what they write (silopit.c:418-486), and a file's   *)
(* records are gone over in whole by _read_mmap and by silopit_getoff.     *)
THEOREM FilesStaySmall ==
  Spec => []FilesAreSmall
  BY InvariantHolds, TypesAreInTypeOK, PTL


-----------------------------------------------------------------------------
(* What keeps the table sorted.  The definitions take the files fs, the    *)
(* table of them, the merge's locals s and its file's name x.              *)

(* Nothing has happened that voids the promise. *)
Good == hazards \cap {"tail", "stale", "clobbered"} = {}

(* The keys a file holds, its footer's among them; a file all below or all *)
(* above some keys.                                                        *)
Oks(fs)         == {n \in Names : fs[n].state = "ok"}
Held(fs, n)     == Nodes(fs[n].recs) \cup {fs[n].end}
Below(fs, n, S) == \A k \in S : fs[n].end < k
Above(fs, n, S) == \A k \in S : \A j \in Held(fs, n) : k < j
Apart(fs, n, S) == Below(fs, n, S) \/ Above(fs, n, S)

FilesApart(fs) ==
  \A a \in Oks(fs) : /\ \A k \in Held(fs, a) : k <= fs[a].end
                     /\ \A b \in Oks(fs) \ {a} : Apart(fs, a, Held(fs, b))

Sorted(table) ==
  \A i, j \in 1 .. Len(table) :
    i < j => table[i].end < table[j].end /\ table[i].name # table[j].name

(* The files are numbered from 0. *)
Numbered(fs, N) == \A n \in Names : fs[n].state # "absent" <=> n < N

(* A file that is written over, which the table has with its old end; one  *)
(* that the table has not got yet; the keys in the merge's hands.          *)
Half(s)     == s.pc \in {"write", "register"} /\ ~ s.fresh
Extra(s)    == s.pc \in {"write", "grow", "place"} /\ s.fresh
Fresh(s, x) == IF Extra(s) THEN {x} ELSE {}
InHand(s)   == IF s.pc = "walk" THEN Nodes(s.merge)
               ELSE IF s.pc \in Chunked \cup {"unlock"} THEN Nodes(s.rest) ELSE {}

(* A list is merged with the file x, up to its first chunk. *)
Rewriting(s) == \/ s.pc = "walk" /\ s.merge # Empty
                \/ s.pc \in Chunked /\ ~ s.fresh

(* The table has the files, each with its end. *)
Has(fs, table, s, x) ==
  \A i \in 1 .. Len(table) :
    \/ Half(s) /\ table[i].name = x
    \/ /\ table[i].name \in Oks(fs) \ Fresh(s, x)
       /\ fs[table[i].name].end = table[i].end
Mirrors(fs, table, s, x) ==
  /\ Has(fs, table, s, x)
  /\ \A n \in Oks(fs) \ Fresh(s, x) : \E i \in 1 .. Len(table) : table[i].name = n
  /\ Numbered(fs, IF Extra(s) THEN Len(table) + 1 ELSE Len(table))

(* meta_get, of any table. *)
Found(table, key) ==
  LET i == Search(table, key) IN IF i = Len(table) THEN NULL ELSE i + 1

(* Where the merge stands. *)
Walks(s) ==
  /\ s.then # "newlist"
  /\ s.pc = "walk" => IF s.merge = Empty THEN s.cur = After(s.list, Nil)
                      ELSE s.cur = Nil \/ After(s.list, Nil) < s.cur
  /\ s.pc \in {"announce", "lock", "register"} => ~ s.fresh
  /\ s.pc \in {"name", "grow", "place"} => s.fresh
Stands(fs, table, s, x) ==
  /\ s.pc = "read" => x = table[s.info].name /\ s.info = Found(table, s.cur)
  /\ (s.pc = "open" /\ s.fresh) \/ Extra(s) => x = Len(table)
  /\ s.pc = "write" => s.fd = x /\ fs[x].state = "torn"
  /\ s.pc \in {"grow", "place", "register"} =>
       /\ x \in Oks(fs) /\ fs[x].end = EndOf(ChunkOf(s))
       /\ Held(fs, x) \subseteq Nodes(ChunkOf(s))
  /\ s.pc = "place" => s.at = Search(table, EndOf(ChunkOf(s)))

(* The keys in hand have a place of their own among the files: around the  *)
(* end that the table has of the file they are merged with, or between two *)
(* files.                                                                  *)
Around(fs, table, S, x) ==
  \E i \in 1 .. Len(table) :
    /\ x = table[i].name
    /\ \A k \in S : k <= table[i].end
    /\ \A n \in Oks(fs) \ {x} : Apart(fs, n, S \cup {table[i].end})
HandApart(fs, table, s, x) ==
  /\ Rewriting(s) => Around(fs, table, InHand(s), x)
  /\ s.pc \in Chunked \cup {"unlock"} /\ ~ Rewriting(s) =>
       \A n \in Oks(fs) \ Fresh(s, x) : Apart(fs, n, InHand(s))

InOrder(fs, table, s, x) ==
  /\ FilesApart(fs)
  /\ IF s.pc = "down" THEN \E N \in Nat : Numbered(fs, N)
     ELSE /\ Sorted(table) /\ Mirrors(fs, table, s, x)
          /\ Walks(s) /\ Stands(fs, table, s, x) /\ HandApart(fs, table, s, x)

OInv == Good => InOrder(files, Table, m, name)

(* In a sorted table the search parts the nodes that end before the key    *)
(* from the others.                                                        *)
LEMMA SearchParts ==
  ASSUME NEW table \in Seq(Entries), Sorted(table), NEW key \in Keys,
         NEW i, i = Search(table, key)
  PROVE  /\ i \in 0 .. Len(table)
         /\ \A j \in 1 .. Len(table) : j <= i => table[j].end < key
         /\ \A j \in 1 .. Len(table) : j > i => key <= table[j].end
  <1>1. /\ Len(table) \in Nat /\ key \in Int
        /\ \A j \in 1 .. Len(table) : table[j].end \in Int
    BY EntriesEnd, KeysAreFinite
  <1>2. /\ i \in 0 .. Len(table)
        /\ i < Len(table) => key <= table[i + 1].end
        /\ i > 0 => \/ table[i].end < key
                    \/ i < Len(table) /\ table[i + 1].end = key
    BY <1>1, SearchFinds
  <1>3. \A a, b \in 1 .. Len(table) : a < b => table[a].end < table[b].end
    BY DEF Sorted
  <1>4. i > 0 => table[i].end < key
    <2>1. CASE i > 0 /\ i < Len(table) /\ table[i + 1].end = key
      <3>1. i \in 1 .. Len(table) /\ i + 1 \in 1 .. Len(table) /\ i < i + 1
        BY <1>1, <1>2, <2>1
      <3> QED
        BY <1>3, <2>1, <3>1
    <2> QED
      BY <1>2, <2>1
  <1>5. ASSUME NEW j \in 1 .. Len(table), j <= i PROVE table[j].end < key
    <2>1. i > 0 /\ i \in 1 .. Len(table)
      BY <1>1, <1>2, <1>5
    <2>2. CASE j = i
      BY <1>4, <2>1, <2>2
    <2>3. CASE j < i
      <3>1. table[j].end < table[i].end
        BY <1>3, <2>1, <2>3
      <3> QED
        BY <1>1, <1>4, <2>1, <3>1
    <2> QED
      BY <1>2, <1>5, <2>2, <2>3
  <1>6. ASSUME NEW j \in 1 .. Len(table), j > i PROVE key <= table[j].end
    <2>1. i < Len(table) /\ i + 1 \in 1 .. Len(table)
      BY <1>1, <1>2, <1>6
    <2>2. CASE j = i + 1
      BY <1>2, <2>1, <2>2
    <2>3. CASE i + 1 < j
      <3>1. table[i + 1].end < table[j].end
        BY <1>3, <2>1, <2>3
      <3> QED
        BY <1>1, <1>2, <2>1, <3>1
    <2> QED
      BY <1>2, <1>6, <2>2, <2>3
  <1> QED
    BY <1>2, <1>5, <1>6

LEMMA FoundParts ==
  ASSUME NEW table \in Seq(Entries), Sorted(table), NEW key \in Keys,
         NEW i, i = Found(table, key)
  PROVE  /\ i = NULL => \A j \in 1 .. Len(table) : table[j].end < key
         /\ i # NULL => /\ i \in 1 .. Len(table) /\ key <= table[i].end
                        /\ \A j \in 1 .. Len(table) : j < i => table[j].end < key
                        /\ \A j \in 1 .. Len(table) : i < j => table[i].end < table[j].end
  <1>1. PICK n : n = Search(table, key)
    OBVIOUS
  <1>2. /\ n \in 0 .. Len(table) /\ Len(table) \in Nat
        /\ \A j \in 1 .. Len(table) : j <= n => table[j].end < key
        /\ \A j \in 1 .. Len(table) : j > n => key <= table[j].end
    BY <1>1, SearchParts, EntriesEnd
  <1>3. i = IF n = Len(table) THEN 0 ELSE n + 1
    BY <1>1 DEF Found, NULL
  <1>4. CASE n = Len(table)
    BY <1>2, <1>3, <1>4 DEF NULL
  <1>5. CASE n # Len(table)
    <2>1. i = n + 1 /\ i \in 1 .. Len(table) /\ i # NULL
      BY <1>2, <1>3, <1>5 DEF NULL
    <2> QED
      BY <1>2, <2>1 DEF Sorted
  <1> QED
    BY <1>4, <1>5

(* An end and a file that are not in the table; an end that the entry at i *)
(* may move down to.                                                       *)
NotIn(table, end, file) ==
  \A j \in 1 .. Len(table) : table[j].end # end /\ table[j].name # file
FitsAt(table, i, end) ==
  /\ end <= table[i].end
  /\ \A j \in 1 .. Len(table) : j < i => table[j].end < end

(* What a table becomes of that. *)
Put(table, new, end, file) ==
  /\ new \in Seq(Entries) /\ Len(new) = Len(table) + 1 /\ Sorted(new)
  /\ \A j \in 1 .. Len(new) :
       \/ new[j].name = file /\ new[j].end = end
       \/ \E k \in 1 .. Len(table) : new[j] = table[k]
  /\ \A k \in 1 .. Len(table) : \E j \in 1 .. Len(new) : new[j] = table[k]
  /\ \E j \in 1 .. Len(new) : new[j].name = file /\ new[j].end = end
Moved(table, new, i, end) ==
  /\ Len(new) = Len(table) /\ Sorted(new)
  /\ \A j \in 1 .. Len(table) :
       new[j].name = table[j].name /\ (new[j].end = IF j = i THEN end ELSE table[j].end)

(* A node whose end and file are not there yet goes where it belongs. *)
LEMMA PuttingSorts ==
  ASSUME NEW table \in Seq(Entries), Sorted(table), NEW end \in Keys, NEW file \in Names,
         NEW i, i = Search(table, end), NotIn(table, end, file),
         NEW new, new = PutAt(table, i, end, file)
  PROVE  Put(table, new, end, file)
  <1>1. /\ Len(table) \in Nat /\ i \in 0 .. Len(table) /\ end \in Int
        /\ \A j \in 1 .. Len(table) : table[j].end \in Int
        /\ \A j \in 1 .. Len(table) : j <= i => table[j].end < end
        /\ \A j \in 1 .. Len(table) : j > i => end < table[j].end
    <2>1. /\ i \in 0 .. Len(table)
          /\ \A j \in 1 .. Len(table) : j <= i => table[j].end < end
          /\ \A j \in 1 .. Len(table) : j > i => end <= table[j].end
      BY SearchParts
    <2>2. Len(table) \in Nat /\ end \in Int /\ \A j \in 1 .. Len(table) : table[j].end \in Int
      BY EntriesEnd, KeysAreFinite
    <2>3. ASSUME NEW j \in 1 .. Len(table), j > i PROVE end < table[j].end
      <3>1. end <= table[j].end /\ table[j].end # end /\ table[j].end \in Int
        BY <2>1, <2>2, <2>3 DEF NotIn
      <3> QED
        BY <2>2, <3>1
    <2> QED
      BY <2>1, <2>2, <2>3
  <1>2. PICK e : e = Node(end, file, Len(table) + 1)
    OBVIOUS
  <1>3. e \in Entries /\ e.end = end /\ e.name = file
    BY <1>2, NodesAreEntries DEF Node
  <1>4. new = PutAt(table, i, end, file)
    OBVIOUS
  <1>5. /\ new \in Seq(Entries) /\ Len(new) = Len(table) + 1
        /\ \A j \in 1 .. Len(table) + 1 :
             new[j] = IF j <= i THEN table[j] ELSE IF j = i + 1 THEN e ELSE table[j - 1]
    BY <1>1, <1>2, <1>3, <1>4, PuttingPuts
  <1>6. \A j \in 1 .. Len(table) : j <= i => new[j] = table[j]
    BY <1>1, <1>5
  <1>7. new[i + 1] = e /\ i + 1 \in 1 .. Len(new)
    BY <1>1, <1>5
  <1>8. \A j \in 1 .. Len(new) : j > i + 1 => new[j] = table[j - 1] /\ j - 1 \in 1 .. Len(table) /\ j - 1 > i
    BY <1>1, <1>5
  <1>9. \A j \in 1 .. Len(new) : j <= i => new[j] = table[j] /\ j \in 1 .. Len(table)
    BY <1>1, <1>5
  <1>10. ASSUME NEW a \in 1 .. Len(new), NEW b \in 1 .. Len(new), a < b
         PROVE  new[a].end < new[b].end /\ new[a].name # new[b].name
    <2>1. CASE b <= i
      <3>1. a <= i /\ a \in 1 .. Len(table) /\ b \in 1 .. Len(table)
        BY <1>1, <1>5, <1>10, <2>1
      <3> QED
        BY <1>9, <1>10, <2>1, <3>1 DEF Sorted
    <2>2. CASE b = i + 1
      <3>1. a <= i
        BY <1>1, <1>10, <2>2
      <3> QED
        BY <1>1, <1>3, <1>7, <1>9, <2>2, <3>1 DEF NotIn
    <2>3. CASE b > i + 1
      <3>1. new[b] = table[b - 1] /\ b - 1 \in 1 .. Len(table) /\ b - 1 > i
        BY <1>8, <2>3
      <3>2. CASE a <= i
        <4>1. new[a] = table[a] /\ a \in 1 .. Len(table) /\ a < b - 1
          BY <1>1, <1>9, <2>3, <3>2
        <4> QED
          BY <3>1, <4>1 DEF Sorted
      <3>3. CASE a = i + 1
        BY <1>1, <1>3, <1>7, <3>1, <3>3 DEF NotIn
      <3>4. CASE a > i + 1
        <4>1. new[a] = table[a - 1] /\ a - 1 \in 1 .. Len(table) /\ a - 1 < b - 1
          BY <1>8, <1>10, <3>4
        <4> QED
          BY <3>1, <4>1 DEF Sorted
      <3> QED
        BY <1>1, <3>2, <3>3, <3>4
    <2> QED
      BY <1>1, <2>1, <2>2, <2>3
  <1>11. Sorted(new)
    BY <1>10 DEF Sorted
  <1>12. ASSUME NEW j \in 1 .. Len(new)
         PROVE  \/ new[j].name = file /\ new[j].end = end
                \/ \E k \in 1 .. Len(table) : new[j] = table[k]
    <2>1. CASE j <= i
      BY <1>9, <2>1
    <2>2. CASE j = i + 1
      BY <1>3, <1>7, <2>2
    <2>3. CASE j > i + 1
      BY <1>8, <2>3
    <2> QED
      BY <1>1, <2>1, <2>2, <2>3
  <1>13. ASSUME NEW k \in 1 .. Len(table)
         PROVE  \E j \in 1 .. Len(new) : new[j] = table[k]
    <2>1. CASE k <= i
      <3>1. k \in 1 .. Len(new) /\ new[k] = table[k]
        BY <1>1, <1>5, <1>6, <2>1
      <3> QED
        BY <3>1
    <2>2. CASE k > i
      <3>1. k + 1 \in 1 .. Len(new) /\ k + 1 > i + 1 /\ (k + 1) - 1 = k
        BY <1>1, <1>5, <2>2
      <3>2. new[k + 1] = table[k]
        BY <1>8, <3>1
      <3> QED
        BY <3>1, <3>2
    <2> QED
      BY <1>1, <2>1, <2>2
  <1>14. \E j \in 1 .. Len(new) : new[j].name = file /\ new[j].end = end
    BY <1>3, <1>7
  <1> QED
    BY <1>4, <1>5, <1>11, <1>12, <1>13, <1>14 DEF Put

(* An end moves down, no further than the ends below it. *)
LEMMA MovingSorts ==
  ASSUME NEW table \in Seq(Entries), Sorted(table), NEW i \in 1 .. Len(table), NEW end \in Keys,
         FitsAt(table, i, end), NEW new, new = [table EXCEPT ![i].end = end]
  PROVE  Moved(table, new, i, end)
  <1>1. /\ Len(table) \in Nat /\ end \in Int /\ DOMAIN table = 1 .. Len(table)
        /\ \A j \in 1 .. Len(table) : table[j] \in Entries /\ table[j].end \in Int
    BY EntriesEnd, KeysAreFinite
  <1>2. PICK e : e = [table[i] EXCEPT !.end = end]
    OBVIOUS
  <1>3. e \in Entries /\ e.end = end /\ e.name = table[i].name
    BY <1>1, <1>2 DEF Entries
  <1>4. new = [table EXCEPT ![i] = e]
    BY <1>2
  <1>6. Len(new) = Len(table) /\ \A j \in 1 .. Len(table) : new[j] = IF j = i THEN e ELSE table[j]
    BY <1>3, <1>4, ExceptSeq
  <1>7. \A j \in 1 .. Len(table) :
          new[j].name = table[j].name /\ (new[j].end = IF j = i THEN end ELSE table[j].end)
    BY <1>3, <1>6
  <1>8. ASSUME NEW a \in 1 .. Len(table), NEW b \in 1 .. Len(table), a < b
        PROVE  new[a].end < new[b].end
    <2>1. table[a].end < table[b].end
      BY <1>8 DEF Sorted
    <2>2. CASE a = i
      <3>1. new[a].end = end /\ new[b].end = table[b].end
        BY <1>7, <1>8, <2>2
      <3>2. end <= table[i].end
        BY DEF FitsAt
      <3> QED
        BY <1>1, <2>1, <2>2, <3>1, <3>2
    <2>3. CASE b = i
      <3>1. new[a].end = table[a].end /\ new[b].end = end
        BY <1>7, <1>8, <2>3
      <3> QED
        BY <1>8, <2>3, <3>1 DEF FitsAt
    <2>4. CASE a # i /\ b # i
      BY <1>7, <2>1, <2>4
    <2> QED
      BY <2>2, <2>3, <2>4
  <1>9. \A a, b \in 1 .. Len(table) : a < b => new[a].name # new[b].name
    BY <1>7 DEF Sorted
  <1>10. Sorted(new)
    BY <1>6, <1>8, <1>9 DEF Sorted
  <1> QED
    BY <1>6, <1>7, <1>10 DEF Moved


-----------------------------------------------------------------------------
(* Chunks, and what the merge's locals become, in full *)

(* A chunk's nodes are the first of those left. *)
LEMMA FirstAreFirst ==
  ASSUME NEW t, NEW n \in Nat, NEW j \in First(t, n), NEW k \in Nodes(t) \ First(t, n)
  PROVE  j < k
  <1>1. j \in Nodes(t) /\ j \in Int /\ k \in Int
    BY NodesAreKeys, KeysAreFinite DEF First
  <1>2. CASE k <= j
    <2> DEFINE A == {i \in Nodes(t) : i <= k}
               B == {i \in Nodes(t) : i <= j}
    <2>1. A \in SUBSET Keys /\ B \in SUBSET Keys
      BY NodesAreKeys
    <2>2. A \subseteq B
      <3>1. \A i \in Nodes(t) : i \in Int
        BY NodesAreKeys, KeysAreFinite
      <3>2. \A i \in Nodes(t) : i <= k => i <= j
        BY <1>1, <1>2, <3>1
      <3> QED
        BY <3>2
    <2>3. Cardinality(B) <= n /\ ~ (Cardinality(A) <= n)
      BY DEF First
    <2> HIDE DEF A, B
    <2>4. IsFiniteSet(B) /\ Cardinality(B) \in Nat /\ Cardinality(A) \in Nat
      BY <2>1, KeysAreFinite
    <2>5. Cardinality(A) <= Cardinality(B)
      <3>1. A \in SUBSET B
        BY <2>2
      <3> QED
        BY <2>4, <3>1, FS_Subset
    <2> QED
      BY <2>3, <2>4, <2>5
  <1> QED
    BY <1>1, <1>2

LEMMA ChunkIs ==
  ASSUME m \in Merges, m.chunks # << >>
  PROVE  /\ Chunk = ChunkOf(m) /\ Chunk \in Rows
         /\ Nodes(Chunk) \subseteq Nodes(m.rest)
         /\ \A j \in Nodes(Chunk) : \A k \in Nodes(m.rest) \ Nodes(Chunk) : j < k
         /\ Nodes(Chunk) # {} => /\ EndOf(Chunk) \in Nodes(Chunk)
                                 /\ \A k \in Nodes(Chunk) : k <= EndOf(Chunk)
         /\ \A k \in Nodes(Chunk) : Chunk[k] = m.rest[k]
  <1>1. m.rest \in Rows /\ m.chunks \in Seq(1 .. 2 * MaxCount)
    BY DEF Merges
  <1>2. PICK n : n = Head(m.chunks)
    OBVIOUS
  <1>3. n \in Nat
    <2>1. n \in 1 .. 2 * MaxCount
      BY <1>1, <1>2, HeadTailProperties
    <2> QED
      BY <2>1
  <1>4. PICK F : F = First(m.rest, n)
    OBVIOUS
  <1>5. Chunk = Only(m.rest, F) /\ F \subseteq Nodes(m.rest)
    BY <1>2, <1>3, <1>4, FirstFew DEF Chunk
  <1>6. Chunk \in Rows /\ Nodes(Chunk) = F
    <2>1. Only(m.rest, F) \in Rows /\ Nodes(Only(m.rest, F)) = Nodes(m.rest) \cap F
      BY <1>1, OnlyKeeps
    <2> QED
      BY <1>5, <2>1
  <1>7. \A j \in F : \A k \in Nodes(m.rest) \ F : j < k
    BY <1>3, <1>4, FirstAreFirst
  <1>8. Nodes(Chunk) # {} => /\ EndOf(Chunk) \in Nodes(Chunk)
                             /\ \A k \in Nodes(Chunk) : k <= EndOf(Chunk)
    <2>1. Nodes(Chunk) \in SUBSET Keys
      BY NodesAreKeys
    <2>2. PICK e : e = EndOf(Chunk)
      OBVIOUS
    <2>3. Nodes(Chunk) # {} => e \in Nodes(Chunk) /\ \A k \in Nodes(Chunk) : e >= k
      BY <2>1, <2>2, GreatestKey DEF EndOf
    <2>4. \A k \in Nodes(Chunk) : k \in Int
      BY <2>1, KeysAreFinite
    <2> QED
      BY <2>2, <2>3, <2>4
  <1>9. \A k \in Nodes(Chunk) : Chunk[k] = m.rest[k]
    BY <1>5, <1>6, NodesAreKeys DEF Only
  <1>10. Chunk = ChunkOf(m)
    BY DEF Chunk, ChunkOf
  <1> QED
    BY <1>5, <1>6, <1>7, <1>8, <1>9, <1>10

LEMMA FlushShape ==
  ASSUME NEW s \in Merges, NEW nodes, NEW lsn, NEW fresh, NEW then,
         NEW f, f = Flush(s, nodes, lsn, fresh, then)
  PROVE  /\ f.pc = (IF fresh THEN "name" ELSE IF lsn # NoLsn THEN "announce" ELSE "open")
         /\ f.rest = nodes /\ f.chunks = Chunks(Cardinality(Nodes(nodes))) /\ f.lsn = lsn
         /\ f.fresh = fresh /\ f.then = then
         /\ f.list = s.list /\ f.cur = s.cur /\ f.merge = s.merge /\ f.info = s.info
  BY DEF Flush, Merges

LEMMA ContinueShape ==
  ASSUME NEW s \in Merges, s.then # "newlist", NEW c, c = Continue(s)
  PROVE  /\ c.list = s.list /\ c.cur = s.cur /\ c.then = s.then /\ c.rest = s.rest
         /\ c.chunks = s.chunks /\ c.info = s.info
         /\ c.pc \in {"name", "switch", "end"}
         /\ c.pc = "name" => c.fresh = TRUE /\ s.chunks # << >> /\ c.merge = s.merge
         /\ c.pc = "switch" => s.chunks = << >> /\ s.then = "switch" /\ c.merge = Empty
         /\ c.pc = "end" => s.chunks = << >> /\ s.then = "done" /\ c.merge = s.merge
  <1>1. CASE s.chunks # << >>
    <2>1. c = [s EXCEPT !.pc = "name", !.fresh = TRUE]
      BY <1>1 DEF Continue
    <2> QED
      BY <1>1, <2>1 DEF Merges
  <1>2. CASE s.chunks = << >> /\ s.then = "switch"
    <2>1. c = [s EXCEPT !.pc = "switch", !.merge = Empty]
      BY <1>2 DEF Continue
    <2> QED
      BY <1>2, <2>1 DEF Merges
  <1>3. CASE s.chunks = << >> /\ s.then = "done"
    <2>1. c = [s EXCEPT !.pc = "end"]
      BY <1>3 DEF Continue
    <2> QED
      BY <1>3, <2>1 DEF Merges
  <1>4. s.then \in {"switch", "newlist", "done"}
    BY DEF Merges
  <1> QED
    BY <1>1, <1>2, <1>3, <1>4

(* The nodes of the chunk are gone, and its flush goes on or has ended. *)
LEMMA AfterChunkShape ==
  ASSUME m \in Merges, m.chunks # << >>, m.then # "newlist", NEW c, c = AfterChunk
  PROVE  /\ c.list = m.list /\ c.cur = m.cur /\ c.then = m.then /\ c.info = m.info
         /\ Nodes(c.rest) = Nodes(m.rest) \ Nodes(Chunk)
         /\ \A k \in Nodes(c.rest) : c.rest[k] = m.rest[k]
         /\ c.rest \in Rows /\ c.chunks = Tail(m.chunks)
         /\ c.pc \in {"unlock", "name", "switch", "end"}
         /\ c.pc = "unlock" => c.merge = m.merge
         /\ c.pc = "name" => c.fresh = TRUE /\ c.chunks # << >> /\ c.merge = m.merge
         /\ c.pc = "switch" => c.chunks = << >> /\ m.then = "switch" /\ c.merge = Empty
         /\ c.pc = "end" => c.chunks = << >> /\ m.then = "done" /\ c.merge = m.merge
  <1>1. m.rest \in Rows /\ m.chunks \in Seq(1 .. 2 * MaxCount)
    BY DEF Merges
  <1>2. PICK S : S = Nodes(m.rest) \ Nodes(Chunk)
    OBVIOUS
  <1>3. PICK rest : rest = Only(m.rest, S)
    OBVIOUS
  <1>4. rest \in Rows /\ Nodes(rest) = S
    BY <1>1, <1>2, <1>3, OnlyKeeps
  <1>5. \A k \in S : rest[k] = m.rest[k]
    BY <1>2, <1>3, NodesAreKeys DEF Only
  <1>6. PICK chunks : chunks = Tail(m.chunks)
    OBVIOUS
  <1>7. chunks \in Seq(1 .. 2 * MaxCount)
    BY <1>1, <1>6, HeadTailProperties
  <1>8. PICK s : s = [m EXCEPT !.rest = rest, !.chunks = chunks, !.fd = NoName]
    OBVIOUS
  <1>9. /\ s \in Merges /\ s.list = m.list /\ s.cur = m.cur /\ s.then = m.then
        /\ s.info = m.info /\ s.merge = m.merge /\ s.rest = rest /\ s.chunks = chunks
    BY <1>1, <1>4, <1>7, <1>8 DEF Merges
  <1>10. c = IF m.lsn # NoLsn /\ ~ m.fresh THEN [s EXCEPT !.pc = "unlock"] ELSE Continue(s)
    BY <1>2, <1>3, <1>6, <1>8 DEF AfterChunk
  <1>11. CASE c = [s EXCEPT !.pc = "unlock"]
    <2>1. /\ c.pc = "unlock" /\ c.list = s.list /\ c.cur = s.cur /\ c.then = s.then
          /\ c.info = s.info /\ c.merge = s.merge /\ c.rest = s.rest /\ c.chunks = s.chunks
      BY <1>9, <1>11 DEF Merges
    <2> QED
      BY <1>2, <1>4, <1>5, <1>6, <1>9, <2>1
  <1>12. CASE c = Continue(s)
    <2>1. /\ c.list = s.list /\ c.cur = s.cur /\ c.then = s.then /\ c.rest = s.rest
          /\ c.chunks = s.chunks /\ c.info = s.info
          /\ c.pc \in {"name", "switch", "end"}
          /\ c.pc = "name" => c.fresh = TRUE /\ s.chunks # << >> /\ c.merge = s.merge
          /\ c.pc = "switch" => s.chunks = << >> /\ s.then = "switch" /\ c.merge = Empty
          /\ c.pc = "end" => s.chunks = << >> /\ s.then = "done" /\ c.merge = s.merge
      BY <1>9, <1>12, ContinueShape
    <2> QED
      BY <1>2, <1>4, <1>5, <1>6, <1>9, <2>1
  <1> QED
    BY <1>10, <1>11, <1>12


-----------------------------------------------------------------------------
(* The order of the files, step by step *)

LEMMA OrderAtTheStart ==
  Init => OInv
  <1> SUFFICES ASSUME Init PROVE InOrder(files, Table, m, name)
    BY DEF OInv
  <1>1. m = NoMerge /\ NoMerge.pc = "idle" /\ NoMerge.then = "done" /\ meta = << >>
    BY DEF Init, NoMerge
  <1>2. Table = << >>
    BY <1>1 DEF Table
  <1>3. \A n \in Names : files[n].state = "absent"
    BY DEF Init, Absent
  <1>4. Oks(files) = {}
    BY <1>3 DEF Oks
  <1>5. ~ Half(m) /\ ~ Extra(m) /\ ~ Rewriting(m)
    BY <1>1 DEF Half, Extra, Rewriting, Chunked
  <1>6. FilesApart(files)
    BY <1>4 DEF FilesApart
  <1>7. Sorted(Table)
    BY <1>2 DEF Sorted
  <1>8. Mirrors(files, Table, m, name)
    <2>1. Numbered(files, 0)
      <3>1. \A n \in Names : ~ (n < 0)
        BY SilopitAssumption DEF Names
      <3> QED
        BY <1>3, <3>1 DEF Numbered
    <2> QED
      BY <1>2, <1>4, <1>5, <2>1 DEF Mirrors, Has
  <1>9. Walks(m) /\ Stands(files, Table, m, name)
    BY <1>1, <1>5 DEF Walks, Stands
  <1>10. HandApart(files, Table, m, name)
    BY <1>1, <1>5 DEF HandApart, Chunked
  <1> QED
    BY <1>1, <1>6, <1>7, <1>8, <1>9, <1>10 DEF InOrder

LEMMA OrderIs ==
  ASSUME InOrder(files, Table, m, name), m.pc # "down"
  PROVE  /\ FilesApart(files) /\ Sorted(Table) /\ Mirrors(files, Table, m, name)
         /\ Walks(m) /\ Stands(files, Table, m, name) /\ HandApart(files, Table, m, name)
  BY DEF InOrder

LEMMA FewerAreApart ==
  ASSUME NEW fs, NEW n, NEW S, NEW T \in SUBSET S, Apart(fs, n, S)
  PROVE  Apart(fs, n, T)
  BY DEF Apart, Below, Above

LEMMA MetaGetIsFound ==
  ASSUME m.pc # "place", NEW key
  PROVE  MetaGet(key) = Found(Table, key)
  BY DEF MetaGet, Found, Table

(* No file is half written or missing from the table. *)
LEMMA TableHasFiles ==
  ASSUME InOrder(files, Table, m, name), m.pc \notin Written \cup {"down"}
  PROVE  /\ \A i \in 1 .. Len(Table) :
              Table[i].name \in Oks(files) /\ files[Table[i].name].end = Table[i].end
         /\ \A n \in Oks(files) : \E i \in 1 .. Len(Table) : Table[i].name = n
         /\ Numbered(files, Len(Table))
  <1>1. ~ Half(m) /\ ~ Extra(m)
    BY DEF Half, Extra, Written
  <1>2. Mirrors(files, Table, m, name) /\ Fresh(m, name) = {}
    BY <1>1, OrderIs DEF Fresh
  <1> QED
    BY <1>1, <1>2 DEF Mirrors, Has

(* A step of the merge that writes neither a file nor the table. *)
LEMMA QuietOrder ==
  ASSUME InOrder(files, Table, m, name), m.pc \notin Written \cup {"down"},
         files' = files, Table' = Table, m'.pc \notin Written \cup {"down"},
         Walks(m'), HandApart(files, Table, m', name'),
         m'.pc = "read" => name' = Table[m'.info].name /\ m'.info = Found(Table, m'.cur),
         m'.pc = "open" /\ m'.fresh => name' = Len(Table)
  PROVE  InOrder(files', Table', m', name')
  <1>1. ~ Half(m') /\ ~ Extra(m')
    BY DEF Half, Extra, Written
  <1>2. FilesApart(files) /\ Sorted(Table)
    BY OrderIs
  <1>3. Fresh(m', name') = {}
    BY <1>1 DEF Fresh
  <1>4. Mirrors(files, Table, m', name')
    BY <1>1, <1>3, TableHasFiles DEF Mirrors, Has
  <1>5. Stands(files, Table, m', name')
    BY <1>1 DEF Stands, Written
  <1> QED
    BY <1>2, <1>4, <1>5 DEF InOrder

(* Nothing in hand. *)
LEMMA NothingInHand ==
  ASSUME NEW fs, NEW table, NEW s, NEW x,
         s.pc \notin Chunked \cup {"unlock"}, s.pc = "walk" => s.merge = Empty
  PROVE  HandApart(fs, table, s, x)
  BY DEF HandApart, Rewriting

LEMMA AfterIsLater ==
  ASSUME NEW t, NEW k \in Keys
  PROVE  After(t, k) = Nil \/ k < After(t, k)
  <1> DEFINE later == {j \in Nodes(t) : j > k}
  <1>1. later \in SUBSET Keys
    BY NodesAreKeys
  <1>2. CASE later = {}
    BY <1>2 DEF After
  <1>3. CASE later # {}
    <2>1. PICK a : a = Min(later)
      OBVIOUS
    <2>2. a \in later
      <3> HIDE DEF later
      <3> QED
        BY <1>1, <1>3, <2>1, LeastKey
    <2>3. a \in Int /\ k \in Int /\ a > k
      BY <2>2, NodesAreKeys, KeysAreFinite
    <2> QED
      BY <1>3, <2>1, <2>3 DEF After
  <1> QED
    BY <1>2, <1>3

LEMMA TheFirstIsLeast ==
  ASSUME NEW t, NEW k \in Nodes(t)
  PROVE  After(t, Nil) <= k /\ After(t, Nil) \in Keys
  <1> DEFINE later == {j \in Nodes(t) : j > Nil}
  <1>1. \A j \in Keys : j > Nil
    BY SilopitAssumption DEF Nil
  <1>2. later = Nodes(t) /\ later \in SUBSET Keys
    BY <1>1, NodesAreKeys
  <1>3. PICK a : a = Min(later)
    OBVIOUS
  <1>4. a \in later /\ \A j \in later : a <= j
    <2>1. later # {}
      BY <1>2
    <2> HIDE DEF later
    <2> QED
      BY <1>2, <1>3, <2>1, LeastKey
  <1>5. After(t, Nil) = a
    BY <1>2, <1>3 DEF After
  <1> QED
    BY <1>2, <1>4, <1>5

(* All of a table's files are below keys that are beyond its ends. *)
LEMMA FilesAreBelow ==
  ASSUME IInv, InOrder(files, Table, m, name), m.pc \notin Written \cup {"down"},
         NEW key \in Keys, \A j \in 1 .. Len(Table) : Table[j].end < key,
         NEW S \in SUBSET Keys, \A k \in S : key <= k
  PROVE  \A n \in Oks(files) : Below(files, n, S)
  <1> SUFFICES ASSUME NEW n \in Oks(files), NEW k \in S
               PROVE  files[n].end < k
    BY DEF Below
  <1>1. PICK i \in 1 .. Len(Table) : Table[i].name = n /\ files[n].end = Table[i].end
    BY TableHasFiles
  <1>2. Table[i].end \in Int /\ key \in Int /\ k \in Int
    BY MergeIs, EntriesEnd, KeysAreFinite
  <1> QED
    BY <1>1, <1>2

(* A new list, beyond all the files there are. *)
LEMMA NewListIsApart ==
  ASSUME IInv, InOrder(files, Table, m, name), m.pc \notin Written \cup {"down"},
         \A n \in Oks(files) : Below(files, n, Nodes(m'.rest)),
         m'.pc = "name", m'.fresh = TRUE
  PROVE  HandApart(files, Table, m', name')
  <1>1. ~ Rewriting(m') /\ InHand(m') = Nodes(m'.rest)
    BY DEF Rewriting, InHand, Chunked
  <1> QED
    BY <1>1 DEF HandApart, Apart


(* A flush that begins. *)
LEMMA FlushOrder ==
  ASSUME InOrder(files, Table, m, name), m.pc \notin Written \cup {"down"},
         files' = files, Table' = Table, name' = name,
         NEW s \in Merges, NEW nodes, NEW lsn, NEW fresh \in BOOLEAN, NEW then,
         then # "newlist", m' = Flush(s, nodes, lsn, fresh, then),
         fresh => \A n \in Oks(files) : Apart(files, n, Nodes(nodes)),
         ~ fresh => Around(files, Table, Nodes(nodes), name)
  PROVE  InOrder(files', Table', m', name')
  <1>1. /\ m'.pc = (IF fresh THEN "name" ELSE IF lsn # NoLsn THEN "announce" ELSE "open")
        /\ m'.rest = nodes /\ m'.fresh = fresh /\ m'.then = then
    BY FlushShape
  <1>2. /\ m'.pc \in {"name", "announce", "open"} /\ (m'.pc = "name" <=> fresh)
        /\ m'.pc \in Chunked /\ m'.pc \notin Written \cup {"down"}
    BY <1>1 DEF Chunked, Written
  <1>3. Walks(m')
    BY <1>1, <1>2 DEF Walks
  <1>4. InHand(m') = Nodes(nodes) /\ (Rewriting(m') <=> ~ fresh)
    BY <1>1, <1>2 DEF InHand, Rewriting
  <1>5. HandApart(files, Table, m', name')
    BY <1>1, <1>2, <1>4 DEF HandApart
  <1> QED
    BY <1>1, <1>2, <1>3, <1>5, QuietOrder

LEMMA StartMergeOrder ==
  ASSUME IInv, InOrder(files, Table, m, name), NEW t \in Memtables, StartMerge(t)
  PROVE  InOrder(files', Table', m', name')
  <1>1. PICK list : list = [k \in Keys |-> CASE t[k] = "ADD" -> merges + 1
                                             [] t[k] = "DEL" -> Deleted
                                             [] OTHER        -> Nil]
    OBVIOUS
  <1>2. /\ m.pc = "idle"
        /\ m' = IF meta = << >> THEN FlushNewList([NoMerge EXCEPT !.list = list], list)
                ELSE [NoMerge EXCEPT !.list = list, !.pc = "walk", !.cur = After(list, Nil)]
        /\ files' = files /\ meta' = meta /\ name' = name
    BY <1>1 DEF StartMerge, shared
  <1>3. list \in Rows
    <2>1. t \in [Keys -> {"ADD", "DEL", "NONE"}]
      BY SilopitAssumption
    <2>2. merges \in Nat
      BY DEF IInv, RestTyped
    <2> QED
      BY <1>1, <2>1, <2>2 DEF Rows, Nil
  <1>4. PICK s : s = [NoMerge EXCEPT !.list = list]
    OBVIOUS
  <1>5. s \in Merges /\ s.merge = Empty /\ s.then = "done" /\ s.list = list
    BY <1>3, <1>4, NoMergeIsTyped DEF Merges, NoMerge
  <1>6. m.pc \notin Written \cup {"down"} /\ Table = meta
    BY <1>2 DEF Written, Table
  <1>7. CASE meta = << >>
    <2>1. Oks(files) = {}
      BY <1>6, <1>7, TableHasFiles
    <2>2. PICK lsn, fresh, then : lsn = NoLsn /\ fresh = TRUE /\ then = "done"
      OBVIOUS
    <2>3. fresh \in BOOLEAN /\ fresh # FALSE /\ then # "newlist"
      BY <2>2
    <2>4. m' = Flush(s, list, lsn, fresh, then)
      BY <1>2, <1>4, <1>7, <2>2, Zenon DEF FlushNewList
    <2>5. Table' = Table
      <3>1. m'.pc = (IF fresh THEN "name" ELSE IF lsn # NoLsn THEN "announce" ELSE "open")
        BY <1>5, <2>4, FlushShape
      <3>2. m'.pc # "place"
        BY <3>1
      <3> QED
        BY <1>2, <1>6, <3>2 DEF Table
    <2>6. \A n \in Oks(files) : Apart(files, n, Nodes(list))
      BY <2>1
    <2> QED
      BY <1>2, <1>5, <1>6, <2>3, <2>4, <2>5, <2>6, FlushOrder
  <1>8. CASE meta # << >>
    <2>1. m' = [s EXCEPT !.pc = "walk", !.cur = After(list, Nil)]
      BY <1>2, <1>4, <1>8 DEF NoMerge
    <2>2. /\ m'.pc = "walk" /\ m'.merge = Empty /\ m'.cur = After(m'.list, Nil)
          /\ m'.then = "done"
      BY <1>5, <2>1 DEF Merges
    <2>3. Table' = Table
      BY <1>2, <1>6, <2>2 DEF Table
    <2>4. Walks(m')
      BY <2>2 DEF Walks
    <2>5. HandApart(files, Table, m', name') /\ m'.pc \notin Written \cup {"down"}
      BY <2>2, NothingInHand DEF Chunked, Written
    <2> QED
      BY <1>2, <1>6, <2>2, <2>3, <2>4, <2>5, QuietOrder
  <1> QED
    BY <1>7, <1>8


LEMMA FewerAround ==
  ASSUME NEW fs, NEW table, NEW x, NEW S, NEW T \in SUBSET S, Around(fs, table, S, x)
  PROVE  Around(fs, table, T, x)
  <1>1. PICK i \in 1 .. Len(table) :
          /\ x = table[i].name
          /\ \A k \in S : k <= table[i].end
          /\ \A n \in Oks(fs) \ {x} : Apart(fs, n, S \cup {table[i].end})
    BY DEF Around
  <1>2. ASSUME NEW n \in Oks(fs) \ {x} PROVE Apart(fs, n, T \cup {table[i].end})
    <2>1. T \cup {table[i].end} \in SUBSET (S \cup {table[i].end})
      OBVIOUS
    <2> QED
      BY <1>1, <2>1, FewerAreApart
  <1> QED
    BY <1>1, <1>2 DEF Around

(* A key that belongs to the file is around its end too. *)
LEMMA OneMoreAround ==
  ASSUME IInv, InOrder(files, Table, m, name), m.pc \notin Written \cup {"down"},
         NEW key \in Keys, NEW info, info = Found(Table, key), info # NULL,
         NEW x, x = Table[info].name, NEW S \in SUBSET Keys, Around(files, Table, S, x)
  PROVE  Around(files, Table, S \cup {key}, x)
  <1>1. Table \in Seq(Entries) /\ Sorted(Table)
    BY OrderIs, MergeIs
  <1>2. /\ info \in 1 .. Len(Table) /\ key <= Table[info].end
        /\ \A j \in 1 .. Len(Table) : j < info => Table[j].end < key
        /\ \A j \in 1 .. Len(Table) : info < j => Table[info].end < Table[j].end
    BY <1>1, FoundParts
  <1>3. PICK i \in 1 .. Len(Table) :
          /\ x = Table[i].name
          /\ \A k \in S : k <= Table[i].end
          /\ \A n \in Oks(files) \ {x} : Apart(files, n, S \cup {Table[i].end})
    BY DEF Around
  <1>4. i = info
    <2>1. i \in Int /\ info \in Int
      BY <1>2
    <2>2. i < info \/ info < i \/ i = info
      BY <2>1
    <2> QED
      BY <1>1, <1>2, <1>3, <2>2 DEF Sorted
  <1>5. PICK end : end = Table[info].end
    OBVIOUS
  <1>6. /\ end \in Int /\ key \in Int /\ Len(Table) \in Nat
        /\ \A j \in 1 .. Len(Table) : Table[j].end \in Int
    BY <1>1, <1>2, <1>5, EntriesEnd, KeysAreFinite
  <1>7. ASSUME NEW n \in Oks(files) \ {x}
        PROVE  Apart(files, n, (S \cup {key}) \cup {end})
    <2>1. PICK j \in 1 .. Len(Table) : Table[j].name = n /\ files[n].end = Table[j].end
      BY <1>7, TableHasFiles
    <2>2. j # info
      BY <1>7, <2>1
    <2>3. Apart(files, n, S \cup {end})
      BY <1>3, <1>4, <1>5, <1>7
    <2>4. files[n].end \in Held(files, n)
      BY DEF Held
    <2>5. files[n].end \in Int
      BY <1>6, <2>1
    <2>6. CASE j < info
      <3>1. files[n].end < key
        BY <1>2, <2>1, <2>6
      <3>2. ~ (end < files[n].end)
        BY <1>2, <1>5, <1>6, <2>5, <3>1
      <3>3. Below(files, n, S \cup {end})
        BY <2>3, <2>4, <3>2 DEF Apart, Above
      <3>4. Below(files, n, (S \cup {key}) \cup {end})
        BY <3>1, <3>3 DEF Below
      <3> QED
        BY <3>4 DEF Apart
    <2>7. CASE info < j
      <3>1. end < files[n].end
        BY <1>2, <1>5, <2>1, <2>7
      <3>2. ~ (files[n].end < end)
        BY <1>6, <2>5, <3>1
      <3>3. Above(files, n, S \cup {end})
        BY <2>3, <3>2 DEF Apart, Below
      <3>4. ASSUME NEW h \in Held(files, n) PROVE key < h
        <4>1. end < h
          BY <3>3, <3>4 DEF Above
        <4>2. h \in Int
          <5>1. Nodes(files[n].recs) \subseteq Keys
            BY NodesAreKeys
          <5> QED
            BY <2>5, <3>4, <5>1, KeysAreFinite DEF Held
        <4> QED
          BY <1>2, <1>5, <1>6, <4>1, <4>2
      <3>5. Above(files, n, (S \cup {key}) \cup {end})
        BY <3>3, <3>4 DEF Above
      <3> QED
        BY <3>5 DEF Apart
    <2>8. j \in Int /\ info \in Int
      BY <1>2
    <2> QED
      BY <2>2, <2>6, <2>7, <2>8
  <1>8. \A k \in S \cup {key} : k <= end
    BY <1>2, <1>3, <1>4, <1>5
  <1> QED
    BY <1>2, <1>5, <1>7, <1>8 DEF Around

(* So are the records of the file. *)
LEMMA RecordsAround ==
  ASSUME InOrder(files, Table, m, name), m.pc \notin Written \cup {"down"},
         NEW i \in 1 .. Len(Table), NEW x, x = Table[i].name
  PROVE  Around(files, Table, Nodes(files[x].recs), x)
  <1>1. x \in Oks(files) /\ files[x].end = Table[i].end
    BY TableHasFiles
  <1>2. FilesApart(files)
    BY OrderIs
  <1>3. \A k \in Held(files, x) : k <= files[x].end
    BY <1>1, <1>2 DEF FilesApart
  <1>4. Held(files, x) = Nodes(files[x].recs) \cup {Table[i].end}
    BY <1>1 DEF Held
  <1>5. ASSUME NEW n \in Oks(files) \ {x}
        PROVE  Apart(files, n, Nodes(files[x].recs) \cup {Table[i].end})
    <2>1. x \in Oks(files) \ {n}
      BY <1>1, <1>5
    <2> QED
      BY <1>2, <1>4, <1>5, <2>1 DEF FilesApart
  <1> QED
    BY <1>1, <1>3, <1>4, <1>5 DEF Around


LEMMA WalkOrder ==
  ASSUME IInv, InOrder(files, Table, m, name), Good', Walk
  PROVE  InOrder(files', Table', m', name')
  <1>1. /\ m.pc = "walk" /\ m.cur # Nil
        /\ files' = files /\ meta' = meta /\ name' = name
    BY DEF Walk, shared
  <1>2. /\ m \in Merges /\ m.list \in Rows /\ m.merge \in Rows /\ OnItsWay(m)
        /\ Table \in Seq(Entries) /\ m.then \in {"switch", "newlist", "done"}
    BY MergeIs DEF Merges
  <1>3. m.cur \in Nodes(m.list) /\ m.cur \in Keys /\ m.cur \in Int
    BY <1>1, <1>2, NodesAreKeys, KeysAreFinite DEF OnItsWay
  <1>4. PICK first : first = After(m.list, Nil)
    OBVIOUS
  <1>5. first \in Keys /\ first \in Int /\ \A k \in Nodes(m.list) : first <= k
    BY <1>3, <1>4, TheFirstIsLeast, KeysAreFinite
  <1>6. /\ m.then # "newlist" /\ (m.merge = Empty => m.cur = first)
        /\ m.merge # Empty => first < m.cur
    BY <1>1, <1>4, OrderIs DEF Walks
  <1>7. m.pc \notin Written \cup {"down"} /\ Table = meta
    BY <1>1 DEF Written, Table
  <1>8. PICK info : info = MetaGet(m.cur)
    OBVIOUS
  <1>9. info = Found(Table, m.cur) /\ Sorted(Table)
    BY <1>1, <1>8, MetaGetIsFound, OrderIs
  <1>10. /\ info = NULL => \A j \in 1 .. Len(Table) : Table[j].end < m.cur
         /\ info # NULL => info \in 1 .. Len(Table)
    BY <1>2, <1>3, <1>9, FoundParts
  <1>11. m.merge # Empty => Around(files, Table, Nodes(m.merge), name)
    <2>1. InHand(m) = Nodes(m.merge) /\ (m.merge # Empty => Rewriting(m))
      BY <1>1 DEF InHand, Rewriting
    <2> QED
      BY <1>1, <2>1, OrderIs DEF HandApart
  <1>12. m'.pc # "place" => Table' = Table
    BY <1>1, <1>7 DEF Table
  <1>13. ASSUME info = NULL,
                m' = IF m.merge = Empty THEN FlushNewList(m, RestOfList)
                     ELSE Flush(m, m.merge, NoLsn, FALSE, "newlist"),
                hazards' = IF m.cur = After(m.list, Nil) THEN hazards
                           ELSE hazards \cup {"tail"}
         PROVE  InOrder(files', Table', m', name')
    <2>1. m.cur = first
      <3>1. "tail" \notin hazards'
        BY DEF Good
      <3> QED
        BY <1>4, <1>13, <3>1
    <2>2. m.merge = Empty
      BY <1>3, <1>6, <2>1
    <2>3. PICK rest : rest = RestOfList
      OBVIOUS
    <2>4. Nodes(rest) \subseteq Nodes(m.list) /\ Nodes(rest) \subseteq Keys
      <3>1. PICK S : S = First(m.list, Cardinality({k \in Nodes(m.list) : k >= m.cur}))
        OBVIOUS
      <3>2. rest = Only(m.list, S)
        BY <2>3, <3>1 DEF RestOfList
      <3> QED
        BY <1>2, <3>2, OnlyKeeps, NodesAreKeys
    <2>5. \A n \in Oks(files) : Apart(files, n, Nodes(rest))
      <3>1. Nodes(rest) \in SUBSET Keys /\ \A k \in Nodes(rest) : m.cur <= k
        BY <1>5, <2>1, <2>4
      <3>2. \A n \in Oks(files) : Below(files, n, Nodes(rest))
        BY <1>3, <1>7, <1>10, <1>13, <3>1, FilesAreBelow
      <3> QED
        BY <3>2 DEF Apart
    <2>6. PICK lsn, fresh, then : lsn = NoLsn /\ fresh = TRUE /\ then = "done"
      OBVIOUS
    <2>7. fresh \in BOOLEAN /\ fresh # FALSE /\ then # "newlist"
      BY <2>6
    <2>8. m' = Flush(m, rest, lsn, fresh, then)
      BY <1>13, <2>2, <2>3, <2>6, Zenon DEF FlushNewList
    <2>9. m'.pc # "place"
      <3>1. m'.pc = (IF fresh THEN "name" ELSE IF lsn # NoLsn THEN "announce" ELSE "open")
        BY <1>2, <2>8, FlushShape
      <3> QED
        BY <3>1
    <2> QED
      BY <1>1, <1>2, <1>7, <1>12, <2>5, <2>7, <2>8, <2>9, FlushOrder
  <1>14. ASSUME info # NULL, name = meta[info].name,
                m' = IF m.merge = Empty THEN [m EXCEPT !.pc = "read", !.info = info]
                     ELSE [m EXCEPT !.merge = Inserted(m.merge), !.info = info,
                                    !.cur = After(m.list, m.cur)]
         PROVE  InOrder(files', Table', m', name')
    <2>1. CASE m.merge = Empty
      <3>1. m' = [m EXCEPT !.pc = "read", !.info = info]
        BY <1>14, <2>1
      <3>2. m'.pc = "read" /\ m'.info = info /\ m'.cur = m.cur /\ m'.then = m.then
        BY <1>2, <3>1 DEF Merges
      <3>3. Walks(m') /\ HandApart(files, Table, m', name') /\ m'.pc \notin Written \cup {"down"}
        BY <1>6, <3>2, NothingInHand DEF Walks, Chunked, Written
      <3> QED
        BY <1>1, <1>7, <1>9, <1>12, <1>14, <3>2, <3>3, QuietOrder
    <2>2. CASE m.merge # Empty
      <3>1. PICK merge, cur : merge = Inserted(m.merge) /\ cur = After(m.list, m.cur)
        OBVIOUS
      <3>2. m' = [m EXCEPT !.merge = merge, !.info = info, !.cur = cur]
        BY <1>14, <2>2, <3>1
      <3>3. /\ m'.pc = "walk" /\ m'.merge = merge /\ m'.cur = cur /\ m'.then = m.then
            /\ m'.list = m.list
        BY <1>1, <1>2, <3>2 DEF Merges
      <3>4. merge # Empty
        BY <1>2, <1>3, <3>1, InsertedIsThere
      <3>5. cur = Nil \/ first < cur
        <4>1. cur = Nil \/ (m.cur < cur /\ cur \in Int)
          BY <1>3, <3>1, AfterIsLater, AfterIsANode, NodesAreKeys, KeysAreFinite
        <4> QED
          BY <1>3, <1>5, <1>6, <2>2, <4>1
      <3>6. Walks(m')
        BY <1>4, <1>6, <3>3, <3>4, <3>5 DEF Walks
      <3>7. Around(files, Table, Nodes(merge), name)
        <4>1. Around(files, Table, Nodes(m.merge) \cup {m.cur}, name)
          BY <1>3, <1>7, <1>9, <1>11, <1>14, <2>2, NodesAreKeys, OneMoreAround
        <4>2. Nodes(merge) \in SUBSET (Nodes(m.merge) \cup {m.cur})
          BY <1>2, <3>1 DEF Inserted, Nodes, Rows
        <4> QED
          BY <4>1, <4>2, FewerAround
      <3>8. HandApart(files, Table, m', name')
        <4>1. InHand(m') = Nodes(merge) /\ m'.pc \notin Chunked \cup {"unlock"}
          BY <3>3 DEF InHand, Chunked
        <4> QED
          BY <1>1, <3>7, <4>1 DEF HandApart
      <3>9. m'.pc \notin Written \cup {"down"}
        BY <3>3 DEF Written
      <3> QED
        BY <1>1, <1>7, <1>12, <3>3, <3>6, <3>8, <3>9, QuietOrder
    <2> QED
      BY <2>1, <2>2
  <1>15. ASSUME info # NULL,
                m' = LET s == [m EXCEPT !.info = info]
                     IN IF m.merge = Empty THEN [s EXCEPT !.pc = "switch"]
                        ELSE Flush(s, m.merge, meta[info].lsn, FALSE, "switch")
         PROVE  InOrder(files', Table', m', name')
    <2>1. PICK s : s = [m EXCEPT !.info = info]
      OBVIOUS
    <2>2. s \in Merges /\ s.merge = m.merge /\ s.then = m.then
      <3>1. info \in Nat
        BY <1>10, <1>15
      <3> QED
        BY <1>2, <2>1, <3>1 DEF Merges
    <2>3. CASE m.merge = Empty
      <3>1. m' = [s EXCEPT !.pc = "switch"]
        BY <1>15, <2>1, <2>3
      <3>2. m'.pc = "switch" /\ m'.then = m.then
        BY <2>2, <3>1 DEF Merges
      <3>3. Walks(m') /\ HandApart(files, Table, m', name') /\ m'.pc \notin Written \cup {"down"}
        BY <1>6, <3>2, NothingInHand DEF Walks, Chunked, Written
      <3> QED
        BY <1>1, <1>7, <1>12, <3>2, <3>3, QuietOrder
    <2>4. CASE m.merge # Empty
      <3>1. PICK lsn, fresh, then : lsn = meta[info].lsn /\ fresh = FALSE /\ then = "switch"
        OBVIOUS
      <3>2. fresh \in BOOLEAN /\ ~ fresh /\ then # "newlist"
        BY <3>1
      <3>3. m' = Flush(s, m.merge, lsn, fresh, then)
        BY <1>15, <2>1, <2>4, <3>1, Zenon
      <3>4. m'.pc # "place"
        <4>1. m'.pc = (IF fresh THEN "name" ELSE IF lsn # NoLsn THEN "announce" ELSE "open")
          BY <2>2, <3>3, FlushShape
        <4> QED
          BY <4>1
      <3> QED
        BY <1>1, <1>7, <1>11, <1>12, <2>2, <2>4, <3>2, <3>3, <3>4, FlushOrder
    <2> QED
      BY <2>3, <2>4
  <1> QED
    <2>1. \/ /\ info = NULL
             /\ m' = IF m.merge = Empty THEN FlushNewList(m, RestOfList)
                     ELSE Flush(m, m.merge, NoLsn, FALSE, "newlist")
             /\ hazards' = IF m.cur = After(m.list, Nil) THEN hazards
                           ELSE hazards \cup {"tail"}
          \/ /\ info # NULL /\ name = meta[info].name
             /\ m' = IF m.merge = Empty THEN [m EXCEPT !.pc = "read", !.info = info]
                     ELSE [m EXCEPT !.merge = Inserted(m.merge), !.info = info,
                                    !.cur = After(m.list, m.cur)]
          \/ /\ info # NULL
             /\ m' = LET s == [m EXCEPT !.info = info]
                     IN IF m.merge = Empty THEN [s EXCEPT !.pc = "switch"]
                        ELSE Flush(s, m.merge, meta[info].lsn, FALSE, "switch")
      BY <1>8 DEF Walk
    <2> QED
      BY <1>13, <1>14, <1>15, <2>1

LEMMA WalkDoneOrder ==
  ASSUME IInv, InOrder(files, Table, m, name), WalkDone
  PROVE  InOrder(files', Table', m', name')
  <1>1. /\ m.pc = "walk" /\ m.cur = Nil
        /\ m' = Flush(m, m.merge, meta[m.info].lsn, FALSE, "done")
        /\ files' = files /\ meta' = meta /\ name' = name
    BY DEF WalkDone, shared
  <1>2. m \in Merges /\ OnItsWay(m)
    BY MergeIs
  <1>3. m.merge # Empty
    BY <1>1, <1>2 DEF OnItsWay
  <1>4. m.pc \notin Written \cup {"down"} /\ Table = meta
    BY <1>1 DEF Written, Table
  <1>5. Around(files, Table, Nodes(m.merge), name)
    <2>1. InHand(m) = Nodes(m.merge) /\ Rewriting(m)
      BY <1>1, <1>3 DEF InHand, Rewriting
    <2> QED
      BY <1>1, <2>1, OrderIs DEF HandApart
  <1>6. PICK lsn, fresh, then : lsn = meta[m.info].lsn /\ fresh = FALSE /\ then = "done"
    OBVIOUS
  <1>7. fresh \in BOOLEAN /\ ~ fresh /\ then # "newlist"
    BY <1>6
  <1>8. m' = Flush(m, m.merge, lsn, fresh, then)
    BY <1>1, <1>6, Zenon
  <1>9. Table' = Table
    <2>1. m'.pc = (IF fresh THEN "name" ELSE IF lsn # NoLsn THEN "announce" ELSE "open")
      BY <1>2, <1>8, FlushShape
    <2>2. m'.pc # "place"
      BY <2>1
    <2> QED
      BY <1>1, <1>4, <2>2 DEF Table
  <1> QED
    BY <1>1, <1>2, <1>4, <1>5, <1>7, <1>8, <1>9, FlushOrder


LEMMA SwitchOrder ==
  ASSUME IInv, InOrder(files, Table, m, name), Good', Switch
  PROVE  InOrder(files', Table', m', name')
  <1>1. /\ m.pc = "switch" /\ name' = meta[m.info].name /\ m' = [m EXCEPT !.pc = "read"]
        /\ files' = files /\ meta' = meta
        /\ hazards' = IF m.info = MetaGet(m.cur) THEN hazards ELSE hazards \cup {"stale"}
    BY DEF Switch
  <1>2. m \in Merges
    BY MergeIs
  <1>3. m.pc \notin Written \cup {"down"} /\ Table = meta
    BY <1>1 DEF Written, Table
  <1>4. m'.pc = "read" /\ m'.info = m.info /\ m'.cur = m.cur /\ m'.then = m.then
    BY <1>1, <1>2 DEF Merges
  <1>5. m.info = Found(Table, m.cur)
    <2>1. "stale" \notin hazards'
      BY DEF Good
    <2>2. m.info = MetaGet(m.cur)
      BY <1>1, <2>1
    <2> QED
      BY <1>1, <2>2, MetaGetIsFound
  <1>6. Walks(m')
    BY <1>4, OrderIs, <1>3 DEF Walks
  <1>7. HandApart(files, Table, m', name') /\ m'.pc \notin Written \cup {"down"}
    BY <1>4, NothingInHand DEF Chunked, Written
  <1>8. Table' = Table
    BY <1>1, <1>3, <1>4 DEF Table
  <1> QED
    BY <1>1, <1>3, <1>4, <1>5, <1>6, <1>7, <1>8, QuietOrder

LEMMA ReadMmapOrder ==
  ASSUME IInv, InOrder(files, Table, m, name), ReadMmap
  PROVE  InOrder(files', Table', m', name')
  <1>1. m.pc = "read"
    BY DEF ReadMmap
  <1>2. m.pc \notin Written \cup {"down"} /\ Table = meta
    BY <1>1 DEF Written, Table
  <1>3. /\ m \in Merges /\ OnItsWay(m) /\ m.info \in Nat /\ m.info <= Len(Table)
        /\ Len(Table) \in Nat /\ files \in [Names -> Blocks]
    BY MergeIs
  <1>4. m.cur \in Nodes(m.list) /\ m.info \in 1 .. Len(Table)
    BY <1>1, <1>3 DEF OnItsWay
  <1>5. name = Table[m.info].name /\ m.info = Found(Table, m.cur)
    BY <1>1, OrderIs DEF Stands
  <1>6. name \in Oks(files)
    BY <1>2, <1>4, <1>5, TableHasFiles
  <1>7. /\ m' = [m EXCEPT !.pc = "walk", !.cur = After(m.list, m.cur),
                          !.merge = Inserted(files[name].recs)]
        /\ files' = files /\ meta' = meta /\ name' = name
    BY <1>6 DEF ReadMmap, Oks, shared
  <1>8. PICK recs : recs = files[name].recs
    OBVIOUS
  <1>9. recs \in Rows
    <2>1. files[name] \in Blocks
      BY <1>3, <1>6 DEF Oks
    <2>2. recs \in [Keys -> Nat]
      BY <1>8, <2>1 DEF Blocks
    <2> QED
      BY <2>2 DEF Rows
  <1>10. PICK cur, merge : cur = After(m.list, m.cur) /\ merge = Inserted(recs)
    OBVIOUS
  <1>11. m' = [m EXCEPT !.pc = "walk", !.cur = cur, !.merge = merge]
    BY <1>7, <1>8, <1>10
  <1>12. /\ m'.pc = "walk" /\ m'.cur = cur /\ m'.merge = merge /\ m'.list = m.list
         /\ m'.then = m.then
    BY <1>3, <1>11 DEF Merges
  <1>13. merge # Empty
    BY <1>3, <1>4, <1>9, <1>10, InsertedIsThere
  <1>14. cur = Nil \/ After(m.list, Nil) < cur
    <2>1. PICK first : first = After(m.list, Nil)
      OBVIOUS
    <2>2. first <= m.cur /\ first \in Int
      BY <1>4, <2>1, TheFirstIsLeast, KeysAreFinite
    <2>3. cur = Nil \/ (m.cur < cur /\ cur \in Int)
      BY <1>4, <1>10, AfterIsLater, AfterIsANode, NodesAreKeys, KeysAreFinite
    <2>4. m.cur \in Int
      BY <1>4, NodesAreKeys, KeysAreFinite
    <2> QED
      BY <2>1, <2>2, <2>3, <2>4
  <1>15. Walks(m')
    <2>1. m.then # "newlist"
      BY <1>2, OrderIs DEF Walks
    <2> QED
      BY <1>12, <1>13, <1>14, <2>1 DEF Walks
  <1>16. Around(files, Table, Nodes(merge), name)
    <2>1. Around(files, Table, Nodes(recs), name)
      BY <1>2, <1>4, <1>5, <1>8, RecordsAround
    <2>2. m.cur \in Keys /\ Nodes(recs) \in SUBSET Keys
      BY <1>4, NodesAreKeys
    <2>3. m.info # NULL
      BY <1>4 DEF NULL
    <2>4. Around(files, Table, Nodes(recs) \cup {m.cur}, name)
      BY <1>2, <1>5, <2>1, <2>2, <2>3, OneMoreAround
    <2>5. Nodes(merge) \in SUBSET (Nodes(recs) \cup {m.cur})
      BY <1>9, <1>10 DEF Inserted, Nodes, Rows
    <2> QED
      BY <2>4, <2>5, FewerAround
  <1>17. HandApart(files, Table, m', name')
    <2>1. InHand(m') = Nodes(merge) /\ m'.pc \notin Chunked \cup {"unlock"}
      BY <1>12 DEF InHand, Chunked
    <2> QED
      BY <1>7, <1>16, <2>1 DEF HandApart
  <1>18. m'.pc \notin Written \cup {"down"}
    BY <1>12 DEF Written
  <1>19. Table' = Table
    BY <1>2, <1>7, <1>12 DEF Table
  <1> QED
    BY <1>2, <1>7, <1>12, <1>15, <1>17, <1>18, <1>19, QuietOrder

(* A step from one line of a flush to the next, before anything is written. *)
LEMMA PlainOrder ==
  ASSUME IInv, InOrder(files, Table, m, name), NEW pc, m' = [m EXCEPT !.pc = pc],
         files' = files, meta' = meta, m.pc \in Chunked \ Written,
         pc \in {"open", "lock"}, pc = "lock" => ~ m.fresh,
         IF m.fresh THEN name' = Len(Table) ELSE name' = name
  PROVE  InOrder(files', Table', m', name')
  <1>1. m \in Merges
    BY MergeIs
  <1>2. /\ m'.pc = pc /\ m'.then = m.then /\ m'.fresh = m.fresh /\ m'.rest = m.rest
    BY <1>1 DEF Merges
  <1>3. m.pc \notin Written \cup {"down"} /\ Table = meta
    BY DEF Written, Table, Chunked
  <1>4. m'.pc \notin Written \cup {"down"} /\ m'.pc \in Chunked /\ m'.pc # "place"
    BY <1>2 DEF Written, Chunked
  <1>5. Table' = Table
    BY <1>3, <1>4 DEF Table
  <1>6. Walks(m')
    <2>1. m.then # "newlist"
      BY <1>3, OrderIs DEF Walks
    <2> QED
      BY <1>2, <2>1 DEF Walks
  <1>7. InHand(m') = InHand(m)
    BY <1>2, <1>4 DEF InHand, Chunked
  <1>8. (Rewriting(m') <=> ~ m.fresh) /\ (Rewriting(m) <=> ~ m.fresh)
    BY <1>2, <1>4 DEF Rewriting, Chunked
  <1>9. HandApart(files, Table, m', name')
    <2>1. HandApart(files, Table, m, name)
      BY <1>3, OrderIs
    <2>2. ~ Extra(m) /\ ~ Extra(m')
      BY <1>3, <1>4 DEF Extra, Written
    <2> QED
      BY <1>4, <1>7, <1>8, <2>1, <2>2 DEF HandApart, Fresh
  <1> QED
    BY <1>2, <1>3, <1>4, <1>5, <1>6, <1>9, QuietOrder

LEMMA NameFileOrder ==
  ASSUME IInv, InOrder(files, Table, m, name), NameFile
  PROVE  InOrder(files', Table', m', name')
  <1>1. /\ m.pc = "name" /\ name' = Len(meta) /\ m' = [m EXCEPT !.pc = "open"]
        /\ files' = files /\ meta' = meta
    BY DEF NameFile
  <1>2. m.fresh
    BY <1>1, OrderIs DEF Walks
  <1>3. m.pc \in Chunked \ Written /\ Table = meta
    BY <1>1 DEF Chunked, Written, Table
  <1> QED
    BY <1>1, <1>2, <1>3, PlainOrder

LEMMA AnnounceOrder ==
  ASSUME IInv, InOrder(files, Table, m, name), Announce
  PROVE  InOrder(files', Table', m', name')
  <1>1. /\ m.pc = "announce" /\ name' = name /\ m' = [m EXCEPT !.pc = "lock"]
        /\ files' = files /\ meta' = meta
    BY DEF Announce
  <1>2. ~ m.fresh
    BY <1>1, OrderIs DEF Walks
  <1>3. m.pc \in Chunked \ Written
    BY <1>1 DEF Chunked, Written
  <1> QED
    BY <1>1, <1>2, <1>3, PlainOrder

LEMMA LockOrder ==
  ASSUME IInv, InOrder(files, Table, m, name), Lock
  PROVE  InOrder(files', Table', m', name')
  <1>1. /\ m.pc = "lock" /\ name' = name /\ m' = [m EXCEPT !.pc = "open"]
        /\ files' = files /\ meta' = meta
    BY DEF Lock
  <1>2. ~ m.fresh
    BY <1>1, OrderIs DEF Walks
  <1>3. m.pc \in Chunked \ Written
    BY <1>1 DEF Chunked, Written
  <1> QED
    BY <1>1, <1>2, <1>3, PlainOrder

LEMMA EndMergeOrder ==
  ASSUME IInv, InOrder(files, Table, m, name), EndMerge
  PROVE  InOrder(files', Table', m', name')
  <1>1. m.pc = "end" /\ m' = NoMerge /\ files' = files /\ meta' = meta /\ name' = name
    BY DEF EndMerge, shared
  <1>2. m'.pc = "idle" /\ m'.then = "done" /\ m'.merge = Empty
    BY <1>1 DEF NoMerge
  <1>3. m.pc \notin Written \cup {"down"} /\ Table' = Table
    BY <1>1, <1>2 DEF Written, Table
  <1>4. m'.pc \notin Written \cup {"down"} /\ Walks(m') /\ HandApart(files, Table, m', name')
    BY <1>2, NothingInHand DEF Written, Walks, Chunked
  <1> QED
    BY <1>1, <1>2, <1>3, <1>4, QuietOrder

(* The process ends; its files are still numbered from 0. *)
LEMMA NumbersAre ==
  ASSUME InOrder(files, Table, m, name), Len(Table) \in Nat
  PROVE  \E N \in Nat : Numbered(files, N)
  <1>1. CASE m.pc = "down"
    BY <1>1 DEF InOrder
  <1>2. CASE m.pc # "down"
    <2>1. Mirrors(files, Table, m, name)
      BY <1>2, OrderIs
    <2>2. Len(Table) + 1 \in Nat
      OBVIOUS
    <2> QED
      BY <2>1, <2>2 DEF Mirrors
  <1> QED
    BY <1>1, <1>2

LEMMA EndProcessOrder ==
  ASSUME IInv, InOrder(files, Table, m, name), NEW named, EndProcess(files, named)
  PROVE  InOrder(files', Table', m', name')
  <1>1. files' = files /\ m'.pc = "down"
    BY DEF EndProcess, NoMerge
  <1>2. FilesApart(files) /\ Len(Table) \in Nat
    BY MergeIs DEF InOrder
  <1> QED
    BY <1>1, <1>2, NumbersAre DEF InOrder


LEMMA UnlockOrder ==
  ASSUME IInv, InOrder(files, Table, m, name), Unlock
  PROVE  InOrder(files', Table', m', name')
  <1>1. /\ m.pc = "unlock" /\ m' = Continue(m)
        /\ files' = files /\ meta' = meta /\ name' = name
    BY DEF Unlock
  <1>2. m \in Merges
    BY MergeIs
  <1>3. m.pc \notin Written \cup {"down"} /\ Table = meta
    BY <1>1 DEF Written, Table
  <1>4. m.then # "newlist"
    BY <1>3, OrderIs DEF Walks
  <1>5. /\ m'.then = m.then /\ m'.rest = m.rest /\ m'.pc \in {"name", "switch", "end"}
        /\ m'.pc = "name" => m'.fresh = TRUE
    BY <1>1, <1>2, <1>4, ContinueShape
  <1>6. Walks(m') /\ m'.pc \notin Written \cup {"down"}
    BY <1>4, <1>5 DEF Walks, Written
  <1>7. Table' = Table
    BY <1>1, <1>3, <1>5 DEF Table
  <1>8. HandApart(files, Table, m', name')
    <2>1. CASE m'.pc = "name"
      <3>1. ~ Rewriting(m') /\ ~ Rewriting(m) /\ ~ Extra(m)
        BY <1>1, <1>5, <2>1 DEF Rewriting, Extra, Chunked
      <3>2. InHand(m') = Nodes(m.rest) /\ InHand(m) = Nodes(m.rest)
        BY <1>1, <1>5, <2>1 DEF InHand, Chunked
      <3>3. \A n \in Oks(files) : Apart(files, n, InHand(m'))
        BY <1>1, <1>3, <3>1, <3>2, OrderIs DEF HandApart, Fresh
      <3> QED
        BY <3>1, <3>3 DEF HandApart
    <2>2. CASE m'.pc # "name"
      BY <1>5, <2>2, NothingInHand DEF Chunked
    <2> QED
      BY <2>1, <2>2
  <1> QED
    BY <1>1, <1>3, <1>5, <1>6, <1>7, <1>8, QuietOrder

(* A file that has not changed is where it was. *)
LEMMA SameFile ==
  ASSUME NEW fs, NEW gs, NEW n, gs[n] = fs[n]
  PROVE  Held(gs, n) = Held(fs, n)
  BY DEF Held

LEMMA StillApart ==
  ASSUME NEW fs, NEW gs, NEW n, NEW S, gs[n] = fs[n]
  PROVE  Apart(gs, n, S) <=> Apart(fs, n, S)
  BY SameFile DEF Apart, Below, Above

(* A file is truncated. *)
LEMMA TornIsApart ==
  ASSUME IInv, FilesApart(files), name \in Names, NEW fs, fs = [files EXCEPT ![name] = Torn]
  PROVE  /\ Oks(fs) = Oks(files) \ {name}
         /\ \A n \in Oks(fs) : fs[n] = files[n]
         /\ FilesApart(fs)
         /\ \A N \in Nat : Numbered(files, N) /\ name < N => Numbered(fs, N)
         /\ \A N \in Nat : Numbered(files, N) /\ name = N => Numbered(fs, N + 1)
  <1>1. \A n \in Names : fs[n] = IF n = name THEN Torn ELSE files[n]
    BY MergeIs
  <1>2. Torn.state = "torn"
    BY DEF Torn
  <1>3. Oks(fs) = Oks(files) \ {name}
    BY <1>1, <1>2 DEF Oks
  <1>4. \A n \in Oks(fs) : fs[n] = files[n]
    BY <1>1, <1>3 DEF Oks
  <1>5. FilesApart(fs)
    <2>1. \A n \in Oks(fs) : Held(fs, n) = Held(files, n)
      BY <1>4, SameFile
    <2>2. \A n \in Oks(fs) : \A S : Apart(fs, n, S) <=> Apart(files, n, S)
      BY <1>4, StillApart
    <2> QED
      BY <1>3, <1>4, <2>1, <2>2 DEF FilesApart
  <1>6. \A n \in Names : n \in Int
    BY SilopitAssumption DEF Names
  <1>7. ASSUME NEW N \in Nat, Numbered(files, N), name < N
        PROVE  Numbered(fs, N)
    BY <1>1, <1>2, <1>7 DEF Numbered
  <1>8. ASSUME NEW N \in Nat, Numbered(files, N), name = N
        PROVE  Numbered(fs, N + 1)
    <2>1. ASSUME NEW n \in Names PROVE fs[n].state # "absent" <=> n < N + 1
      <3>1. CASE n = name
        BY <1>1, <1>2, <1>8, <3>1
      <3>2. CASE n # name
        <4>1. fs[n] = files[n]
          BY <1>1, <3>2
        <4>2. files[n].state # "absent" <=> n < N
          BY <1>8 DEF Numbered
        <4>3. n < N <=> n < N + 1
          BY <1>6, <1>8, <3>2
        <4> QED
          BY <4>1, <4>2, <4>3
      <3> QED
        BY <3>1, <3>2
    <2> QED
      BY <2>1 DEF Numbered
  <1> QED
    BY <1>3, <1>4, <1>5, <1>7, <1>8

LEMMA OpenOrder ==
  ASSUME IInv, InOrder(files, Table, m, name), Open
  PROVE  InOrder(files', Table', m', name')
  <1>1. m.pc = "open" /\ files' = [files EXCEPT ![name] = Torn]
    BY DEF Open, EndProcess
  <1>2. /\ m \in Merges /\ Len(Table) \in Nat /\ (HasName(m) => name \in Names)
        /\ Table \in Seq(Entries) /\ files \in [Names -> Blocks]
    BY MergeIs
  <1>3. name \in Names /\ name \in Int
    BY <1>1, <1>2, SilopitAssumption DEF HasName, Named, Names
  <1>4. m.pc \notin Written \cup {"down"} /\ Table = meta
    BY <1>1 DEF Written, Table
  <1>5. /\ FilesApart(files) /\ Sorted(Table) /\ Walks(m)
        /\ Stands(files, Table, m, name) /\ HandApart(files, Table, m, name)
    BY <1>4, OrderIs
  <1>6. /\ \A i \in 1 .. Len(Table) :
             Table[i].name \in Oks(files) /\ files[Table[i].name].end = Table[i].end
        /\ \A n \in Oks(files) : \E i \in 1 .. Len(Table) : Table[i].name = n
        /\ Numbered(files, Len(Table))
    BY <1>4, TableHasFiles
  <1>7. PICK fs : fs = files'
    OBVIOUS
  <1>8. /\ Oks(fs) = Oks(files) \ {name}
        /\ \A n \in Oks(fs) : fs[n] = files[n]
        /\ FilesApart(fs)
        /\ name < Len(Table) => Numbered(fs, Len(Table))
        /\ name = Len(Table) => Numbered(fs, Len(Table) + 1)
    BY <1>1, <1>2, <1>3, <1>5, <1>6, <1>7, TornIsApart
  <1>9. InHand(m) = Nodes(m.rest) /\ (Rewriting(m) <=> ~ m.fresh) /\ ~ Extra(m)
    BY <1>1 DEF InHand, Rewriting, Extra, Chunked
  <1>10. m.fresh => /\ name = Len(Table) /\ name \notin Oks(files)
                    /\ \A n \in Oks(files) : Apart(files, n, Nodes(m.rest))
    <2>1. m.fresh => name = Len(Table)
      BY <1>1, <1>5 DEF Stands
    <2>2. name = Len(Table) => name \notin Oks(files)
      BY <1>2, <1>3, <1>6 DEF Numbered, Oks
    <2>3. m.fresh => \A n \in Oks(files) : Apart(files, n, Nodes(m.rest))
      BY <1>1, <1>5, <1>9 DEF HandApart, Fresh, Chunked
    <2> QED
      BY <2>1, <2>2, <2>3
  <1>11. ~ m.fresh => Around(files, Table, Nodes(m.rest), name)
    BY <1>5, <1>9 DEF HandApart
  <1>12. ~ m.fresh => name < Len(Table)
    <2>1. Around(files, Table, Nodes(m.rest), name) => name \in Oks(files)
      BY <1>6 DEF Around
    <2>2. name \in Oks(files) => files[name].state # "absent"
      BY DEF Oks
    <2> QED
      BY <1>3, <1>6, <1>11, <2>1, <2>2 DEF Numbered
  <1>13. CASE EndProcess([files EXCEPT ![name] = Torn], {"alldel"})
    <2>1. m'.pc = "down"
      BY <1>13 DEF EndProcess, NoMerge
    <2>2. \E N \in Nat : Numbered(fs, N)
      <3>1. Len(Table) + 1 \in Nat
        BY <1>2
      <3> QED
        BY <1>2, <1>8, <1>10, <1>12, <3>1
    <2> QED
      BY <1>7, <1>8, <2>1, <2>2 DEF InOrder
  <1>14. CASE /\ m' = [m EXCEPT !.pc = "write", !.fd = name]
              /\ UNCHANGED <<meta, shared, allowed, hazards, unchangedByMerge>>
    <2>1. meta' = meta /\ name' = name
      BY <1>14 DEF shared
    <2>2. /\ m'.pc = "write" /\ m'.fd = name /\ m'.then = m.then /\ m'.fresh = m.fresh
          /\ m'.rest = m.rest
      BY <1>2, <1>3, <1>14 DEF Merges
    <2>3. Table' = Table
      BY <1>4, <2>1, <2>2 DEF Table
    <2>4. /\ (Half(m') <=> ~ m.fresh) /\ (Extra(m') <=> m.fresh)
          /\ InHand(m') = Nodes(m.rest) /\ (Rewriting(m') <=> ~ m.fresh)
      BY <2>2 DEF Half, Extra, InHand, Rewriting, Chunked
    <2>5. Walks(m')
      BY <1>5, <2>2 DEF Walks
    <2>6. Stands(fs, Table, m', name)
      <3>1. fs[name].state = "torn"
        BY <1>1, <1>2, <1>3, <1>7 DEF Torn
      <3> QED
        BY <1>10, <2>2, <2>4, <3>1 DEF Stands
    <2>7. Mirrors(fs, Table, m', name)
      <3>1. Has(fs, Table, m', name)
        <4>1. CASE m.fresh
          <5>1. Fresh(m', name) = {name} /\ Oks(fs) = Oks(files) /\ name \notin Oks(files)
            BY <1>8, <1>10, <2>4, <4>1 DEF Fresh
          <5>2. ASSUME NEW i \in 1 .. Len(Table)
                PROVE  /\ Table[i].name \in Oks(fs) \ Fresh(m', name)
                       /\ fs[Table[i].name].end = Table[i].end
            BY <1>6, <1>8, <5>1
          <5> QED
            BY <5>2 DEF Has
        <4>2. CASE ~ m.fresh
          <5>1. Fresh(m', name) = {} /\ Half(m')
            BY <2>4, <4>2 DEF Fresh
          <5>2. ASSUME NEW i \in 1 .. Len(Table), Table[i].name # name
                PROVE  /\ Table[i].name \in Oks(fs) \ Fresh(m', name)
                       /\ fs[Table[i].name].end = Table[i].end
            BY <1>6, <1>8, <5>1, <5>2
          <5> QED
            BY <5>1, <5>2 DEF Has
        <4> QED
          BY <4>1, <4>2
      <3>2. \A n \in Oks(fs) : \E i \in 1 .. Len(Table) : Table[i].name = n
        BY <1>6, <1>8
      <3> QED
        BY <1>8, <1>10, <1>12, <2>4, <3>1, <3>2 DEF Mirrors
    <2>8. HandApart(fs, Table, m', name)
      <3>1. \A n \in Oks(fs) : \A S : Apart(fs, n, S) <=> Apart(files, n, S)
        BY <1>8, StillApart
      <3>2. CASE m.fresh
        BY <1>8, <1>10, <2>2, <2>4, <3>1, <3>2 DEF HandApart
      <3>3. CASE ~ m.fresh
        <4>1. Around(fs, Table, Nodes(m.rest), name)
          <5>1. PICK i \in 1 .. Len(Table) :
                  /\ name = Table[i].name
                  /\ \A k \in Nodes(m.rest) : k <= Table[i].end
                  /\ \A n \in Oks(files) \ {name} :
                       Apart(files, n, Nodes(m.rest) \cup {Table[i].end})
            BY <1>11, <3>3 DEF Around
          <5>2. \A n \in Oks(fs) \ {name} : Apart(fs, n, Nodes(m.rest) \cup {Table[i].end})
            BY <1>8, <3>1, <5>1
          <5> QED
            BY <5>1, <5>2 DEF Around
        <4> QED
          BY <2>4, <3>3, <4>1 DEF HandApart
      <3> QED
        BY <3>2, <3>3
    <2> QED
      BY <1>5, <1>7, <1>8, <2>1, <2>2, <2>3, <2>5, <2>6, <2>7, <2>8 DEF InOrder
  <1> QED
    BY <1>1, <1>13, <1>14 DEF Open


(* What is written in place of a torn file has the chunk's nodes, and its  *)
(* last one for its end.                                                   *)
LEMMA WrittenIs ==
  ASSUME IInv, m.pc \in Written, NEW c, c = Nodes(Chunk), NEW end, end = EndOf(Chunk)
  PROVE  /\ c \in SUBSET Nodes(m.rest) /\ c \in SUBSET Keys /\ end \in c /\ end \in Int
         /\ \A k \in c : k <= end
         /\ \A k \in c : \A j \in Nodes(m.rest) \ c : k < j
         /\ Nodes(Only(Chunk, Adds(Chunk))) \subseteq c
  <1>1. m \in Merges /\ m.chunks # << >> /\ Chunk \in Rows /\ Nodes(Chunk) # {}
    BY MergeIs, ChunkAtWork
  <1>2. /\ Nodes(Chunk) \subseteq Nodes(m.rest)
        /\ \A j \in Nodes(Chunk) : \A k \in Nodes(m.rest) \ Nodes(Chunk) : j < k
        /\ EndOf(Chunk) \in Nodes(Chunk) /\ \A k \in Nodes(Chunk) : k <= EndOf(Chunk)
    BY <1>1, ChunkIs
  <1>3. PICK S : S = Adds(Chunk)
    OBVIOUS
  <1>4. Nodes(Only(Chunk, S)) \subseteq Nodes(Chunk)
    BY <1>1, OnlyKeeps
  <1>5. end \in Keys /\ end \in Int
    BY <1>2, NodesAreKeys, KeysAreFinite
  <1> QED
    BY <1>2, <1>3, <1>4, <1>5, NodesAreKeys

(* Two files are apart from each other. *)
LEMMA ApartFromEachOther ==
  ASSUME NEW fs, NEW a, NEW b,
         \A k \in Held(fs, a) : k <= fs[a].end /\ k \in Int,
         \A k \in Held(fs, b) : k <= fs[b].end /\ k \in Int,
         Apart(fs, a, Held(fs, b))
  PROVE  Apart(fs, b, Held(fs, a))
  <1>1. fs[a].end \in Int /\ fs[b].end \in Int /\ fs[a].end \in Held(fs, a) /\ fs[b].end \in Held(fs, b)
    BY DEF Held
  <1>2. CASE Below(fs, a, Held(fs, b))
    <2>1. \A k \in Held(fs, a) : \A j \in Held(fs, b) : k < j
      BY <1>1, <1>2 DEF Below
    <2> QED
      BY <2>1 DEF Apart, Above
  <1>3. CASE Above(fs, a, Held(fs, b))
    <2>1. \A k \in Held(fs, a) : fs[b].end < k
      BY <1>1, <1>3 DEF Above
    <2> QED
      BY <2>1 DEF Apart, Below
  <1> QED
    BY <1>2, <1>3 DEF Apart

LEMMA HeldAreNumbers ==
  ASSUME IInv, NEW n \in Oks(files)
  PROVE  \A k \in Held(files, n) : k \in Keys /\ k \in Int
  <1>1. files[n].end \in Keys
    BY DEF IInv, FilesTyped, Oks
  <1> QED
    BY <1>1, NodesAreKeys, KeysAreFinite DEF Held

LEMMA WrittenIsApart ==
  ASSUME IInv, FilesApart(files), m.pc = "write", name \in Names \ Oks(files),
         \A n \in Oks(files) : Apart(files, n, Nodes(m.rest)),
         NEW fs, fs = [files EXCEPT ![name] =
                        [state |-> "ok", recs |-> Only(Chunk, Adds(Chunk)), end |-> EndOf(Chunk)]]
  PROVE  /\ Oks(fs) = Oks(files) \cup {name}
         /\ \A n \in Oks(files) : fs[n] = files[n]
         /\ fs[name].end = EndOf(Chunk) /\ Held(fs, name) \subseteq Nodes(Chunk)
         /\ FilesApart(fs)
         /\ \A N \in Nat : Numbered(files, N) /\ files[name].state = "torn" => Numbered(fs, N)
  <1>1. PICK c, end, recs : c = Nodes(Chunk) /\ end = EndOf(Chunk) /\ recs = Only(Chunk, Adds(Chunk))
    OBVIOUS
  <1>2. /\ c \in SUBSET Nodes(m.rest) /\ c \in SUBSET Keys /\ end \in c /\ end \in Int
        /\ \A k \in c : k <= end
        /\ Nodes(recs) \subseteq c
    BY <1>1, WrittenIs DEF Written
  <1>3. \A n \in Names : fs[n] = IF n = name THEN [state |-> "ok", recs |-> recs, end |-> end]
                                 ELSE files[n]
    BY <1>1, MergeIs
  <1>4. fs[name].state = "ok" /\ fs[name].end = end /\ fs[name].recs = recs
    BY <1>3
  <1>5. \A n \in Names \ {name} : fs[n] = files[n]
    BY <1>3
  <1>6. Oks(fs) = Oks(files) \cup {name} /\ \A n \in Oks(files) : n \in Names \ {name}
    BY <1>4, <1>5 DEF Oks
  <1>7. Held(fs, name) \subseteq c
    BY <1>2, <1>4 DEF Held
  <1>8. \A k \in Held(fs, name) : k <= fs[name].end /\ k \in Int
    BY <1>2, <1>4, <1>7, KeysAreFinite
  <1>9. ASSUME NEW n \in Oks(files)
        PROVE  /\ \A k \in Held(fs, n) : k <= fs[n].end /\ k \in Int
               /\ \A b \in Oks(files) \ {n} : Apart(fs, n, Held(fs, b))
               /\ Apart(fs, n, Held(fs, name)) /\ Apart(fs, name, Held(fs, n))
    <2>1. /\ Held(fs, n) = Held(files, n)
          /\ \A S : Apart(fs, n, S) <=> Apart(files, n, S)
      BY <1>5, <1>6, SameFile, StillApart
    <2>2. \A k \in Held(fs, n) : k <= fs[n].end /\ k \in Int
      BY <1>5, <1>6, <2>1, HeldAreNumbers DEF FilesApart
    <2>3. ASSUME NEW b \in Oks(files) \ {n} PROVE Apart(fs, n, Held(fs, b))
      <3>1. Held(fs, b) = Held(files, b)
        BY <1>5, <1>6, SameFile
      <3> QED
        BY <2>1, <3>1 DEF FilesApart
    <2>4. Apart(fs, n, Held(fs, name))
      <3>1. Apart(fs, n, Nodes(m.rest))
        BY <2>1
      <3>2. Held(fs, name) \in SUBSET Nodes(m.rest)
        BY <1>2, <1>7
      <3> QED
        BY <3>1, <3>2, FewerAreApart
    <2>5. Apart(fs, name, Held(fs, n))
      BY <1>8, <2>2, <2>4, ApartFromEachOther
    <2> QED
      BY <2>2, <2>3, <2>4, <2>5
  <1>10. FilesApart(fs)
    BY <1>6, <1>8, <1>9 DEF FilesApart
  <1>11. ASSUME NEW N \in Nat, Numbered(files, N), files[name].state = "torn"
         PROVE  Numbered(fs, N)
    <2>1. \A n \in Names : fs[n].state # "absent" <=> files[n].state # "absent"
      BY <1>4, <1>5, <1>11
    <2> QED
      BY <1>11, <2>1 DEF Numbered
  <1> QED
    BY <1>1, <1>4, <1>5, <1>6, <1>7, <1>10, <1>11


LEMMA WriteOrder ==
  ASSUME IInv, InOrder(files, Table, m, name), Write
  PROVE  InOrder(files', Table', m', name')
  <1>1. /\ m.pc = "write" /\ meta' = meta /\ name' = name
        /\ m' = [m EXCEPT !.pc = IF m.fresh /\ ~ IsRegistered(meta, EndOf(Chunk))
                                 THEN "grow" ELSE "register"]
    BY DEF Write, shared
  <1>2. m \in Merges /\ Len(Table) \in Nat /\ Table \in Seq(Entries)
    BY MergeIs
  <1>3. name \in Names /\ EndOf(Chunk) \in Keys
    BY <1>1, ChunkAtWork DEF Written
  <1>4. /\ FilesApart(files) /\ Sorted(Table) /\ Walks(m) /\ Mirrors(files, Table, m, name)
        /\ Stands(files, Table, m, name) /\ HandApart(files, Table, m, name)
    BY <1>1, OrderIs
  <1>5. m.fd = name /\ files[name].state = "torn" /\ (m.fresh => name = Len(Table))
    BY <1>1, <1>4 DEF Stands, Extra
  <1>6. name \in Names \ Oks(files)
    BY <1>3, <1>5 DEF Oks
  <1>7. /\ InHand(m) = Nodes(m.rest) /\ (Rewriting(m) <=> ~ m.fresh)
        /\ (Extra(m) <=> m.fresh) /\ (Half(m) <=> ~ m.fresh) /\ m.pc \in Chunked
    BY <1>1 DEF InHand, Rewriting, Extra, Half, Chunked
  <1>8. ~ m.fresh => Around(files, Table, Nodes(m.rest), name)
    BY <1>4, <1>7 DEF HandApart
  <1>9. \A n \in Oks(files) : Apart(files, n, Nodes(m.rest))
    <2>1. CASE m.fresh
      BY <1>4, <1>6, <1>7, <2>1 DEF HandApart, Fresh
    <2>2. CASE ~ m.fresh
      <3>1. PICK i \in 1 .. Len(Table) :
              \A n \in Oks(files) \ {name} : Apart(files, n, Nodes(m.rest) \cup {Table[i].end})
        BY <1>8, <2>2 DEF Around
      <3>2. Nodes(m.rest) \in SUBSET (Nodes(m.rest) \cup {Table[i].end})
        OBVIOUS
      <3>3. \A n \in Oks(files) \ {name} : Apart(files, n, Nodes(m.rest))
        BY <3>1, <3>2, FewerAreApart
      <3> QED
        BY <1>6, <3>3
    <2> QED
      BY <2>1, <2>2
  <1>10. PICK fs : fs = files'
    OBVIOUS
  <1>11. fs = [files EXCEPT ![name] =
                 [state |-> "ok", recs |-> Only(Chunk, Adds(Chunk)), end |-> EndOf(Chunk)]]
    BY <1>5, <1>10 DEF Write
  <1>12. /\ Oks(fs) = Oks(files) \cup {name}
         /\ \A n \in Oks(files) : fs[n] = files[n]
         /\ fs[name].end = EndOf(Chunk) /\ Held(fs, name) \subseteq Nodes(Chunk)
         /\ FilesApart(fs)
         /\ \A N \in Nat : Numbered(files, N) => Numbered(fs, N)
    BY <1>1, <1>4, <1>5, <1>6, <1>9, <1>11, WrittenIsApart
  <1>13. \A n \in Oks(files) : \A S : Apart(fs, n, S) <=> Apart(files, n, S)
    BY <1>12, StillApart
  <1>14. Table = meta
    BY <1>1 DEF Table
  <1>15. m.fresh => ~ IsRegistered(meta, EndOf(Chunk))
    <2>1. PICK end, i : end = EndOf(Chunk) /\ i = Search(Table, end)
      OBVIOUS
    <2>2. end \in Nodes(m.rest) /\ end \in Int
      BY <1>1, <2>1, WrittenIs DEF Written
    <2>3. i \in Nat
      BY <1>2, <1>3, <2>1, SearchIsAnIndex
    <2>4. ASSUME m.fresh, i < Len(Table), Table[i + 1].end = end PROVE FALSE
      <3>1. i + 1 \in 1 .. Len(Table)
        BY <1>2, <2>3, <2>4
      <3>2. PICK n : n = Table[i + 1].name
        OBVIOUS
      <3>3. n \in Oks(files) /\ files[n].end = end
        BY <1>4, <1>7, <2>4, <3>1, <3>2 DEF Mirrors, Has
      <3>4. Apart(files, n, Nodes(m.rest)) /\ end \in Held(files, n)
        BY <1>9, <3>3 DEF Held
      <3>5. ~ (end < end)
        BY <2>2
      <3> QED
        BY <2>2, <3>3, <3>4, <3>5 DEF Apart, Below, Above
    <2> QED
      BY <1>14, <2>1, <2>4 DEF IsRegistered
  <1>16. PICK pc : pc = IF m.fresh THEN "grow" ELSE "register"
    OBVIOUS
  <1>17. m' = [m EXCEPT !.pc = pc]
    BY <1>1, <1>15, <1>16
  <1>18. /\ m'.pc = pc /\ m'.then = m.then /\ m'.fresh = m.fresh /\ m'.rest = m.rest
         /\ m'.chunks = m.chunks
    BY <1>2, <1>17 DEF Merges
  <1>19. /\ (Half(m') <=> ~ m.fresh) /\ (Extra(m') <=> m.fresh)
         /\ InHand(m') = Nodes(m.rest) /\ (Rewriting(m') <=> ~ m.fresh)
         /\ m'.pc \notin {"walk", "name", "announce", "lock", "place", "write", "open", "read"}
    BY <1>16, <1>18 DEF Half, Extra, InHand, Rewriting, Chunked
  <1>20. Table' = Table
    BY <1>1, <1>14, <1>19 DEF Table
  <1>21. Walks(m')
    BY <1>4, <1>16, <1>18 DEF Walks
  <1>22. Stands(fs, Table, m', name)
    <2>1. Chunk = ChunkOf(m')
      BY <1>18 DEF Chunk, ChunkOf
    <2> QED
      BY <1>5, <1>12, <1>19, <2>1 DEF Stands
  <1>23. Mirrors(fs, Table, m', name)
    <2>1. Has(fs, Table, m', name)
      <3>1. Has(files, Table, m, name) /\ Fresh(m', name) = Fresh(m, name)
        BY <1>4, <1>7, <1>19 DEF Mirrors, Fresh
      <3>2. ASSUME NEW i \in 1 .. Len(Table), ~ (Half(m') /\ Table[i].name = name)
            PROVE  /\ Table[i].name \in Oks(fs) \ Fresh(m', name)
                   /\ fs[Table[i].name].end = Table[i].end
        <4>1. /\ Table[i].name \in Oks(files) \ Fresh(m, name)
              /\ files[Table[i].name].end = Table[i].end
          BY <1>7, <1>19, <3>1, <3>2 DEF Has
        <4> QED
          BY <1>12, <3>1, <4>1
      <3> QED
        BY <3>2 DEF Has
    <2>2. ~ m.fresh => \E i \in 1 .. Len(Table) : Table[i].name = name
      BY <1>8 DEF Around
    <2>3. \A n \in Oks(files) : \E i \in 1 .. Len(Table) : Table[i].name = n
      BY <1>4, <1>6 DEF Mirrors, Fresh
    <2>4. \A n \in Oks(fs) \ Fresh(m', name) : \E i \in 1 .. Len(Table) : Table[i].name = n
      BY <1>12, <1>19, <2>2, <2>3 DEF Fresh
    <2>5. Numbered(fs, IF Extra(m') THEN Len(Table) + 1 ELSE Len(Table))
      <3>1. Len(Table) + 1 \in Nat
        BY <1>2
      <3> QED
        BY <1>2, <1>4, <1>7, <1>12, <1>19, <3>1 DEF Mirrors
    <2> QED
      BY <2>1, <2>4, <2>5 DEF Mirrors
  <1>24. HandApart(fs, Table, m', name)
    <2>1. CASE m.fresh
      BY <1>9, <1>12, <1>13, <1>19, <2>1 DEF HandApart, Fresh
    <2>2. CASE ~ m.fresh
      <3>1. PICK i \in 1 .. Len(Table) :
              /\ name = Table[i].name
              /\ \A k \in Nodes(m.rest) : k <= Table[i].end
              /\ \A n \in Oks(files) \ {name} : Apart(files, n, Nodes(m.rest) \cup {Table[i].end})
        BY <1>8, <2>2 DEF Around
      <3>2. \A n \in Oks(fs) \ {name} : Apart(fs, n, Nodes(m.rest) \cup {Table[i].end})
        BY <1>12, <1>13, <3>1
      <3>3. Around(fs, Table, Nodes(m.rest), name)
        BY <3>1, <3>2 DEF Around
      <3> QED
        BY <1>19, <2>2, <3>3 DEF HandApart
    <2> QED
      BY <2>1, <2>2
  <1>25. m'.pc # "down"
    BY <1>16, <1>18
  <1> QED
    BY <1>1, <1>4, <1>10, <1>12, <1>20, <1>21, <1>22, <1>23, <1>24, <1>25 DEF InOrder

LEMMA GrowOrder ==
  ASSUME IInv, InOrder(files, Table, m, name), Grow
  PROVE  InOrder(files', Table', m', name')
  <1>1. /\ m.pc = "grow" /\ meta' = Append(meta, Blank)
        /\ m' = [m EXCEPT !.pc = "place", !.at = Search(meta, EndOf(Chunk))]
        /\ files' = files /\ name' = name
    BY DEF Grow, Blank, shared
  <1>2. m \in Merges /\ Len(Table) \in Nat /\ Table \in Seq(Entries)
    BY MergeIs
  <1>3. EndOf(Chunk) \in Keys
    BY <1>1, ChunkAtWork DEF Written
  <1>4. meta = Table
    BY <1>1 DEF Table
  <1>5. /\ FilesApart(files) /\ Sorted(Table) /\ Walks(m) /\ Mirrors(files, Table, m, name)
        /\ Stands(files, Table, m, name) /\ HandApart(files, Table, m, name)
    BY <1>1, OrderIs
  <1>6. PICK at : at = Search(meta, EndOf(Chunk))
    OBVIOUS
  <1>7. at \in Nat
    BY <1>2, <1>3, <1>4, <1>6, SearchIsAnIndex
  <1>8. /\ m'.pc = "place" /\ m'.at = at /\ m'.then = m.then /\ m'.fresh = m.fresh
        /\ m'.rest = m.rest /\ m'.chunks = m.chunks
    BY <1>1, <1>2, <1>6, <1>7 DEF Merges
  <1>9. Table' = Table
    <2>1. Table' = Front(meta')
      BY <1>8 DEF Table
    <2> QED
      BY <1>1, <1>2, <1>4, <2>1, FrontOfAppend
  <1>10. /\ Half(m') = Half(m) /\ Extra(m') = Extra(m) /\ InHand(m') = InHand(m)
         /\ Rewriting(m') = Rewriting(m) /\ Fresh(m', name) = Fresh(m, name)
         /\ m'.pc \in Chunked /\ m.pc \in Chunked
    BY <1>1, <1>8 DEF Half, Extra, InHand, Rewriting, Fresh, Chunked
  <1>11. Walks(m')
    BY <1>1, <1>5, <1>8 DEF Walks
  <1>12. ChunkOf(m') = ChunkOf(m) /\ Chunk = ChunkOf(m)
    BY <1>8 DEF ChunkOf, Chunk
  <1>13. Stands(files, Table, m', name)
    BY <1>1, <1>4, <1>5, <1>6, <1>8, <1>10, <1>12 DEF Stands
  <1>14. Mirrors(files, Table, m', name)
    BY <1>5, <1>10 DEF Mirrors, Has
  <1>15. HandApart(files, Table, m', name)
    BY <1>5, <1>10 DEF HandApart
  <1> QED
    BY <1>1, <1>5, <1>8, <1>9, <1>11, <1>13, <1>14, <1>15 DEF InOrder


(* A file that has been written is in the table with its new end. *)
LEMMA AfterChunkOrder ==
  ASSUME IInv, FilesApart(files), m.pc \in {"place", "register"}, m.then # "newlist",
         files' = files, name' = name, m' = AfterChunk,
         name \in Oks(files), files[name].end = EndOf(Chunk),
         \A n \in Oks(files) \ {name} : Apart(files, n, Nodes(m.rest)),
         NEW table, Table' = table, Sorted(table),
         \A i \in 1 .. Len(table) :
           table[i].name \in Oks(files) /\ files[table[i].name].end = table[i].end,
         \A n \in Oks(files) : \E i \in 1 .. Len(table) : table[i].name = n,
         Numbered(files, Len(table))
  PROVE  InOrder(files', Table', m', name')
  <1>1. m \in Merges /\ m.chunks # << >> /\ m.pc \in Written
    BY MergeIs, ChunkAtWork DEF Written
  <1>2. PICK c, end : c = Nodes(Chunk) /\ end = EndOf(Chunk)
    OBVIOUS
  <1>3. /\ m'.then = m.then /\ Nodes(m'.rest) = Nodes(m.rest) \ c
        /\ m'.pc \in {"unlock", "name", "switch", "end"}
        /\ m'.pc = "name" => m'.fresh = TRUE
    BY <1>1, <1>2, AfterChunkShape
  <1>4. end \in c /\ \A j \in Nodes(m.rest) \ c : end < j
    BY <1>1, <1>2, WrittenIs
  <1>5. ~ Half(m') /\ ~ Extra(m') /\ ~ Rewriting(m') /\ m'.pc # "down"
    BY <1>3 DEF Half, Extra, Rewriting, Chunked
  <1>6. Walks(m') /\ Stands(files, table, m', name)
    BY <1>3, <1>5 DEF Walks, Stands
  <1>7. Mirrors(files, table, m', name)
    BY <1>5 DEF Mirrors, Has, Fresh
  <1>8. HandApart(files, table, m', name)
    <2>1. CASE m'.pc \in {"unlock", "name"}
      <3>1. InHand(m') = Nodes(m.rest) \ c
        BY <1>3, <2>1 DEF InHand, Chunked
      <3>2. Below(files, name, Nodes(m.rest) \ c)
        BY <1>2, <1>4 DEF Below
      <3>3. Nodes(m.rest) \ c \in SUBSET Nodes(m.rest)
        OBVIOUS
      <3>4. \A n \in Oks(files) \ {name} : Apart(files, n, Nodes(m.rest) \ c)
        BY <3>3, FewerAreApart
      <3>5. \A n \in Oks(files) : Apart(files, n, InHand(m'))
        BY <3>1, <3>2, <3>4 DEF Apart
      <3> QED
        BY <1>5, <3>5 DEF HandApart
    <2>2. CASE m'.pc \in {"switch", "end"}
      BY <2>2, NothingInHand DEF Chunked
    <2> QED
      BY <1>3, <2>1, <2>2
  <1> QED
    BY <1>5, <1>6, <1>7, <1>8 DEF InOrder

LEMMA PlaceOrder ==
  ASSUME IInv, InOrder(files, Table, m, name), Place
  PROVE  InOrder(files', Table', m', name')
  <1>1. /\ m.pc = "place" /\ meta' = PutAt(Front(meta), m.at, EndOf(Chunk), name)
        /\ m' = AfterChunk /\ files' = files /\ name' = name
    BY DEF Place, shared
  <1>2. m \in Merges /\ Len(Table) \in Nat /\ Table \in Seq(Entries)
    BY MergeIs
  <1>3. PICK end : end = EndOf(Chunk)
    OBVIOUS
  <1>4. end \in Keys /\ end \in Nodes(m.rest) /\ end \in Int /\ name \in Names
    BY <1>1, <1>3, ChunkAtWork, WrittenIs, KeysAreFinite DEF Written
  <1>5. /\ FilesApart(files) /\ Sorted(Table) /\ Walks(m) /\ Mirrors(files, Table, m, name)
        /\ Stands(files, Table, m, name) /\ HandApart(files, Table, m, name)
    BY <1>1, OrderIs
  <1>6. m.fresh /\ m.then # "newlist"
    BY <1>1, <1>5 DEF Walks
  <1>7. /\ Extra(m) /\ ~ Half(m) /\ ~ Rewriting(m) /\ InHand(m) = Nodes(m.rest)
        /\ Fresh(m, name) = {name} /\ m.pc \in Chunked
    BY <1>1, <1>6 DEF Extra, Half, Rewriting, InHand, Fresh, Chunked
  <1>8. /\ m.at = Search(Table, end) /\ name \in Oks(files) /\ files[name].end = end
    <2>1. Chunk = ChunkOf(m)
      BY DEF Chunk, ChunkOf
    <2> QED
      BY <1>1, <1>3, <1>5, <2>1 DEF Stands
  <1>9. \A n \in Oks(files) \ {name} : Apart(files, n, Nodes(m.rest))
    BY <1>5, <1>7 DEF HandApart
  <1>10. \A j \in 1 .. Len(Table) :
           /\ Table[j].name \in Oks(files) \ {name}
           /\ files[Table[j].name].end = Table[j].end
    BY <1>5, <1>7 DEF Mirrors, Has
  <1>11. NotIn(Table, end, name)
    <2> SUFFICES ASSUME NEW j \in 1 .. Len(Table)
                 PROVE  Table[j].end # end /\ Table[j].name # name
      BY DEF NotIn
    <2>1. PICK n : n = Table[j].name
      OBVIOUS
    <2>2. /\ n # name /\ files[n].end = Table[j].end /\ Apart(files, n, Nodes(m.rest))
          /\ Table[j].end \in Held(files, n)
      BY <1>9, <1>10, <2>1 DEF Held
    <2>3. ~ (end < end)
      BY <1>4
    <2> QED
      BY <1>4, <2>1, <2>2, <2>3 DEF Apart, Below, Above
  <1>12. PICK new : new = PutAt(Table, m.at, end, name)
    OBVIOUS
  <1>13. /\ new \in Seq(Entries) /\ Len(new) = Len(Table) + 1 /\ Sorted(new)
         /\ \A j \in 1 .. Len(new) :
              \/ new[j].name = name /\ new[j].end = end
              \/ \E k \in 1 .. Len(Table) : new[j] = Table[k]
         /\ \A k \in 1 .. Len(Table) : \E j \in 1 .. Len(new) : new[j] = Table[k]
         /\ \E j \in 1 .. Len(new) : new[j].name = name /\ new[j].end = end
    <2>1. /\ Table \in Seq(Entries) /\ Sorted(Table) /\ end \in Keys /\ name \in Names
          /\ m.at = Search(Table, end)
      BY <1>2, <1>4, <1>5, <1>8
    <2>2. Put(Table, new, end, name)
      BY <1>11, <1>12, <2>1, PuttingSorts
    <2> QED
      BY <2>2 DEF Put
  <1>14. Table' = new
    <2>1. m'.pc # "place"
      BY <1>1, AfterChunkIsTyped
    <2> QED
      BY <1>1, <1>3, <1>12, <2>1 DEF Table
  <1>15. \A j \in 1 .. Len(new) :
           new[j].name \in Oks(files) /\ files[new[j].name].end = new[j].end
    <2> TAKE j \in 1 .. Len(new)
    <2>1. CASE new[j].name = name /\ new[j].end = end
      BY <1>8, <2>1
    <2>2. CASE \E k \in 1 .. Len(Table) : new[j] = Table[k]
      <3>1. PICK k \in 1 .. Len(Table) : new[j] = Table[k]
        BY <2>2
      <3> QED
        BY <1>10, <3>1
    <2> QED
      BY <1>13, <2>1, <2>2
  <1>16. ASSUME NEW n \in Oks(files) PROVE \E i \in 1 .. Len(new) : new[i].name = n
    <2>1. CASE n = name
      BY <1>13, <2>1
    <2>2. CASE n # name
      <3>1. PICK k \in 1 .. Len(Table) : Table[k].name = n
        BY <1>5, <1>7, <1>16, <2>2 DEF Mirrors
      <3> QED
        BY <1>13, <3>1
    <2> QED
      BY <2>1, <2>2
  <1>17. Numbered(files, Len(new))
    BY <1>5, <1>7, <1>13 DEF Mirrors
  <1> QED
    BY <1>1, <1>3, <1>5, <1>6, <1>8, <1>9, <1>13, <1>14, <1>15, <1>16, <1>17, AfterChunkOrder

(* The one entry that has the file's name gets its new end. *)
LEMMA SettingByName ==
  ASSUME meta \in Seq(Entries), Sorted(meta), NEW i \in 1 .. Len(meta), meta[i].name = name,
         NEW end
  PROVE  MetaSetByName(end) = [meta EXCEPT ![i].end = end]
  <1>1. Len(meta) \in Nat /\ DOMAIN meta = 1 .. Len(meta)
    BY EntriesEnd
  <1>2. PICK same : same = {j \in DOMAIN meta : meta[j].name = name}
    OBVIOUS
  <1>3. same = {i}
    <2>1. ASSUME NEW j \in 1 .. Len(meta), meta[j].name = name PROVE j = i
      <3>1. j < i \/ i < j \/ j = i
        BY <1>1
      <3> QED
        BY <2>1, <3>1 DEF Sorted
    <2> QED
      BY <1>1, <1>2, <2>1
  <1>4. Min(same) = i
    <2>1. i <= i
      BY <1>1
    <2>2. \E x \in same : \A y \in same : x <= y
      BY <1>3, <2>1
    <2>3. Min(same) \in same
      BY <2>2, Zenon DEF Min
    <2> QED
      BY <1>3, <2>3
  <1> QED
    BY <1>2, <1>3, <1>4 DEF MetaSetByName

LEMMA RegisterOrder ==
  ASSUME IInv, InOrder(files, Table, m, name), Register
  PROVE  InOrder(files', Table', m', name')
  <1>1. /\ m.pc = "register" /\ m' = AfterChunk /\ files' = files /\ name' = name
        /\ meta' = IF m.fresh THEN meta ELSE MetaSetByName(EndOf(Chunk))
    BY DEF Register, shared
  <1>2. m \in Merges /\ Len(Table) \in Nat /\ Table \in Seq(Entries)
    BY MergeIs
  <1>3. PICK end : end = EndOf(Chunk)
    OBVIOUS
  <1>4. end \in Keys /\ end \in Nodes(m.rest) /\ end \in Int /\ name \in Names
    BY <1>1, <1>3, ChunkAtWork, WrittenIs, KeysAreFinite DEF Written
  <1>5. /\ FilesApart(files) /\ Sorted(Table) /\ Walks(m) /\ Mirrors(files, Table, m, name)
        /\ Stands(files, Table, m, name) /\ HandApart(files, Table, m, name)
    BY <1>1, OrderIs
  <1>6. ~ m.fresh /\ m.then # "newlist" /\ Table = meta
    BY <1>1, <1>5 DEF Walks, Table
  <1>7. Half(m) /\ ~ Extra(m) /\ Rewriting(m) /\ InHand(m) = Nodes(m.rest)
    BY <1>1, <1>6 DEF Extra, Half, Rewriting, InHand, Chunked
  <1>8. name \in Oks(files) /\ files[name].end = end
    <2>1. Chunk = ChunkOf(m)
      BY DEF Chunk, ChunkOf
    <2> QED
      BY <1>1, <1>3, <1>5, <2>1 DEF Stands
  <1>9. PICK i \in 1 .. Len(Table) :
          /\ name = Table[i].name
          /\ \A k \in Nodes(m.rest) : k <= Table[i].end
          /\ \A n \in Oks(files) \ {name} : Apart(files, n, Nodes(m.rest) \cup {Table[i].end})
    BY <1>5, <1>7 DEF HandApart, Around
  <1>10. \A n \in Oks(files) \ {name} : Apart(files, n, Nodes(m.rest))
    <2>1. Nodes(m.rest) \in SUBSET (Nodes(m.rest) \cup {Table[i].end})
      OBVIOUS
    <2> QED
      BY <1>9, <2>1, FewerAreApart
  <1>11. ASSUME NEW j \in 1 .. Len(Table), j # i
         PROVE  /\ Table[j].name \in Oks(files) \ {name}
                /\ files[Table[j].name].end = Table[j].end
    <2>1. j < i \/ i < j
      BY <1>2, <1>11
    <2>2. Table[j].name # name
      BY <1>5, <1>9, <2>1 DEF Sorted
    <2> QED
      BY <1>5, <2>2 DEF Mirrors, Has
  <1>12. ASSUME NEW j \in 1 .. Len(Table), j < i PROVE Table[j].end < end
    <2>1. Table[j].end < Table[i].end /\ j # i
      BY <1>2, <1>5, <1>12 DEF Sorted
    <2>2. PICK n : n = Table[j].name
      OBVIOUS
    <2>3. /\ Apart(files, n, Nodes(m.rest) \cup {Table[i].end})
          /\ files[n].end = Table[j].end /\ Table[j].end \in Held(files, n)
      BY <1>9, <1>11, <2>1, <2>2 DEF Held
    <2>4. ~ (Table[i].end < Table[j].end)
      BY <1>2, <2>1, EntriesEnd
    <2> QED
      BY <1>4, <2>3, <2>4 DEF Apart, Above, Below
  <1>13. PICK new : new = [Table EXCEPT ![i].end = end]
    OBVIOUS
  <1>14. /\ Len(new) = Len(Table) /\ Sorted(new)
         /\ \A j \in 1 .. Len(Table) :
              new[j].name = Table[j].name /\ (new[j].end = IF j = i THEN end ELSE Table[j].end)
    <2>1. end <= Table[i].end
      BY <1>4, <1>9
    <2>2. FitsAt(Table, i, end)
      BY <1>12, <2>1 DEF FitsAt
    <2>3. Moved(Table, new, i, end)
      BY <1>2, <1>4, <1>5, <1>9, <1>13, <2>2, MovingSorts
    <2> QED
      BY <2>3 DEF Moved
  <1>15. Table' = new
    <2>1. m'.pc # "place"
      BY <1>1, AfterChunkIsTyped
    <2>2. MetaSetByName(end) = [meta EXCEPT ![i].end = end]
      BY <1>2, <1>5, <1>6, <1>9, SettingByName
    <2> QED
      BY <1>1, <1>3, <1>6, <1>13, <2>1, <2>2 DEF Table
  <1>16. \A j \in 1 .. Len(new) :
           new[j].name \in Oks(files) /\ files[new[j].name].end = new[j].end
    BY <1>8, <1>9, <1>11, <1>14
  <1>17. \A n \in Oks(files) : \E j \in 1 .. Len(new) : new[j].name = n
    BY <1>5, <1>7, <1>14 DEF Mirrors, Fresh
  <1>18. Numbered(files, Len(new))
    BY <1>5, <1>7, <1>14 DEF Mirrors
  <1> QED
    BY <1>1, <1>3, <1>5, <1>6, <1>8, <1>10, <1>14, <1>15, <1>16, <1>17, <1>18, AfterChunkOrder


(* Lookups change none of this, but for the file's name between merges. *)
LEMMA SameOrder ==
  ASSUME InOrder(files, Table, m, name),
         files' = files, meta' = meta, m' = m, name' = name
  PROVE  InOrder(files', Table', m', name')
  <1>1. Table' = Table
    BY DEF Table
  <1> QED
    BY <1>1

LEMMA GetOrder ==
  ASSUME InOrder(files, Table, m, name), NEW k \in Keys, Get(k)
  PROVE  InOrder(files', Table', m', name')
  <1>1. files' = files /\ meta' = meta /\ m' = m /\ name' = name
    BY DEF Get, unchangedByGet
  <1> QED
    BY <1>1, SameOrder

LEMMA GetNameOrder ==
  ASSUME IInv, InOrder(files, Table, m, name), Good', GetName
  PROVE  InOrder(files', Table', m', name')
  <1>1. /\ files' = files /\ meta' = meta /\ m' = m
        /\ hazards' = IF m.pc # "idle" /\ name' # name THEN hazards \cup {"clobbered"}
                      ELSE hazards
    BY DEF GetName, unchangedByGet
  <1>2. m.pc = "idle" \/ name' = name
    <2>1. "clobbered" \notin hazards'
      BY DEF Good
    <2> QED
      BY <1>1, <2>1
  <1>3. CASE m.pc = "idle"
    <2>1. m.pc \notin Written \cup {"down"} /\ HandApart(files, Table, m, name')
      BY <1>3, NothingInHand DEF Written, Chunked
    <2>2. Table' = Table /\ Walks(m)
      BY <1>1, <2>1, OrderIs DEF Table
    <2> QED
      BY <1>1, <1>3, <2>1, <2>2, QuietOrder
  <1>4. CASE name' = name
    BY <1>1, <1>4, SameOrder
  <1> QED
    BY <1>2, <1>3, <1>4

LEMMA GetReadOrder ==
  ASSUME IInv, InOrder(files, Table, m, name), GetRead
  PROVE  InOrder(files', Table', m', name')
  <1>1. \/ files' = files /\ meta' = meta /\ m' = m /\ name' = name
        \/ \E named : EndProcess(files, named)
    BY DEF GetRead, unchangedByGet
  <1> QED
    BY <1>1, SameOrder, EndProcessOrder

LEMMA GetoffOrder ==
  ASSUME IInv, InOrder(files, Table, m, name), Good', Getoff
  PROVE  InOrder(files', Table', m', name')
  <1>1. GetLsn \/ GetLock \/ GetDone => files' = files /\ meta' = meta /\ m' = m /\ name' = name
    BY DEF GetLsn, GetLock, GetDone, unchangedByGet
  <1> QED
    BY <1>1, SameOrder, GetNameOrder, GetReadOrder DEF Getoff

LEMMA DieOrder ==
  ASSUME IInv, InOrder(files, Table, m, name), Die
  PROVE  InOrder(files', Table', m', name')
  <1>1. \E named : EndProcess(files, named)
    BY DEF Die
  <1> QED
    BY <1>1, EndProcessOrder

-----------------------------------------------------------------------------
(* Loading *)

(* The first n files of the order are in the table, each with its end. *)
LoadedUpto(fs, order, table, n) ==
  /\ table \in Seq(Entries) /\ Len(table) = n /\ Sorted(table)
  /\ \A i \in 1 .. Len(table) : \E j \in 1 .. n :
       table[i].name = order[j] /\ table[i].end = fs[order[j]].end
  /\ \A j \in 1 .. n : \E i \in 1 .. Len(table) : table[i].name = order[j]

LEMMA NotYetRegistered ==
  ASSUME NEW table \in Seq(Entries), NEW end \in Keys,
         \A j \in 1 .. Len(table) : table[j].end # end
  PROVE  ~ IsRegistered(table, end)
  <1>1. PICK i : i = Search(table, end)
    OBVIOUS
  <1>2. i \in Nat /\ Len(table) \in Nat
    BY <1>1, SearchIsAnIndex, EntriesEnd
  <1>3. i < Len(table) => i + 1 \in 1 .. Len(table)
    BY <1>2
  <1> QED
    BY <1>1, <1>3 DEF IsRegistered

LEMMA OneMoreIsLoaded ==
  ASSUME NEW N \in Nat, NEW fs, NEW order \in [1 .. N -> Names],
         \A i, j \in 1 .. N : i # j => /\ order[i] # order[j]
                                       /\ fs[order[i]].end # fs[order[j]].end,
         \A i \in 1 .. N : fs[order[i]].end \in Keys,
         NEW n \in 1 .. N, NEW table, LoadedUpto(fs, order, table, n - 1)
  PROVE  LoadedUpto(fs, order, With(fs, order, table, n), n)
  <1>1. PICK end, file : end = fs[order[n]].end /\ file = order[n]
    OBVIOUS
  <1>2. end \in Keys /\ file \in Names /\ n - 1 \in Nat /\ (n - 1) + 1 = n
    BY <1>1
  <1>3. /\ table \in Seq(Entries) /\ Len(table) = n - 1 /\ Sorted(table)
        /\ \A i \in 1 .. Len(table) : \E j \in 1 .. n - 1 :
             table[i].name = order[j] /\ table[i].end = fs[order[j]].end
        /\ \A j \in 1 .. n - 1 : \E i \in 1 .. Len(table) : table[i].name = order[j]
    BY DEF LoadedUpto
  <1>4. \A j \in 1 .. n - 1 : j \in 1 .. N /\ j # n
    OBVIOUS
  <1>5. ASSUME NEW i \in 1 .. Len(table) PROVE table[i].end # end /\ table[i].name # file
    <2>1. PICK j \in 1 .. n - 1 : table[i].name = order[j] /\ table[i].end = fs[order[j]].end
      BY <1>3
    <2> QED
      BY <1>1, <1>4, <2>1
  <1>6. ~ IsRegistered(table, end)
    BY <1>2, <1>3, <1>5, NotYetRegistered
  <1>7. PICK i, new : i = Search(table, end) /\ new = PutAt(table, i, end, file)
    OBVIOUS
  <1>8. With(fs, order, table, n) = new
    BY <1>1, <1>6, <1>7 DEF With, MetaSet
  <1>9. /\ new \in Seq(Entries) /\ Len(new) = Len(table) + 1 /\ Sorted(new)
        /\ \A j \in 1 .. Len(new) :
             \/ new[j].name = file /\ new[j].end = end
             \/ \E k \in 1 .. Len(table) : new[j] = table[k]
        /\ \A k \in 1 .. Len(table) : \E j \in 1 .. Len(new) : new[j] = table[k]
        /\ \E j \in 1 .. Len(new) : new[j].name = file /\ new[j].end = end
    <2>1. i = Search(table, end) /\ new = PutAt(table, i, end, file)
      BY <1>7
    <2>2. NotIn(table, end, file)
      BY <1>5 DEF NotIn
    <2>3. table \in Seq(Entries) /\ Sorted(table) /\ end \in Keys /\ file \in Names
      BY <1>2, <1>3
    <2>4. Put(table, new, end, file)
      BY <2>1, <2>2, <2>3, PuttingSorts
    <2> QED
      BY <2>4 DEF Put
  <1>10. Len(new) = n
    BY <1>2, <1>3, <1>9
  <1>11. ASSUME NEW k \in 1 .. Len(new)
         PROVE  \E j \in 1 .. n : new[k].name = order[j] /\ new[k].end = fs[order[j]].end
    <2>1. CASE new[k].name = file /\ new[k].end = end
      <3>1. n \in 1 .. n
        OBVIOUS
      <3> QED
        BY <1>1, <2>1, <3>1
    <2>2. CASE \E l \in 1 .. Len(table) : new[k] = table[l]
      <3>1. PICK l \in 1 .. Len(table) : new[k] = table[l]
        BY <2>2
      <3>2. PICK j \in 1 .. n - 1 : table[l].name = order[j] /\ table[l].end = fs[order[j]].end
        BY <1>3, <3>1
      <3>3. j \in 1 .. n
        OBVIOUS
      <3> QED
        BY <3>1, <3>2, <3>3
    <2> QED
      BY <1>9, <2>1, <2>2
  <1>12. ASSUME NEW j \in 1 .. n
         PROVE  \E k \in 1 .. Len(new) : new[k].name = order[j]
    <2>1. CASE j = n
      BY <1>1, <1>9, <2>1
    <2>2. CASE j # n
      <3>1. j \in 1 .. n - 1
        BY <2>2
      <3>2. PICK l \in 1 .. Len(table) : table[l].name = order[j]
        BY <1>3, <3>1
      <3> QED
        BY <1>9, <3>2
    <2> QED
      BY <2>1, <2>2
  <1> QED
    <2>1. LoadedUpto(fs, order, new, n)
      BY <1>9, <1>10, <1>11, <1>12 DEF LoadedUpto
    <2> QED
      BY <1>8, <2>1

(* So all of them are, when none is left. *)
LEMMA AllAreLoaded ==
  ASSUME NEW N \in Nat, NEW fs, NEW order \in [1 .. N -> Names],
         \A i, j \in 1 .. N : i # j => /\ order[i] # order[j]
                                       /\ fs[order[i]].end # fs[order[j]].end,
         \A i \in 1 .. N : fs[order[i]].end \in Keys
  PROVE  LoadedUpto(fs, order, Loaded(fs, order), N)
  <1> DEFINE Bad == {n \in 0 .. N : ~ LoadedUpto(fs, order, Upto(fs, order, n), n)}
  <1>1. /\ Loaded(fs, order) = Upto(fs, order, N)
        /\ Upto(fs, order, 0) = << >>
        /\ \A n \in 1 .. N : Upto(fs, order, n) = With(fs, order, Upto(fs, order, n - 1), n)
    <2>1. DOMAIN order = 1 .. N
      OBVIOUS
    <2> QED
      BY <2>1, LoadingEnds, LoadingIsOneByOne
  <1>2. CASE Bad = {}
    BY <1>1, <1>2
  <1>3. CASE Bad # {}
    <2>1. PICK n \in Bad : \A k \in Bad : n <= k
      <3>1. Bad \subseteq Nat
        OBVIOUS
      <3> HIDE DEF Bad
      <3> QED
        BY <1>3, <3>1, LeastElement
    <2>2. n # 0
      <3>1. << >> \in Seq(Entries) /\ Len(<< >>) = 0
        BY EmptySeq
      <3>2. LoadedUpto(fs, order, << >>, 0)
        BY <3>1 DEF LoadedUpto, Sorted
      <3>3. ~ LoadedUpto(fs, order, Upto(fs, order, n), n)
        BY <2>1
      <3> QED
        BY <1>1, <3>2, <3>3
    <2>3. n \in 1 .. N /\ n - 1 \in 0 .. N /\ n - 1 \notin Bad
      BY <2>1, <2>2
    <2>4. PICK table : table = Upto(fs, order, n - 1)
      OBVIOUS
    <2>5. LoadedUpto(fs, order, table, n - 1)
      BY <2>3, <2>4
    <2>6. LoadedUpto(fs, order, With(fs, order, table, n), n)
      BY <2>3, <2>5, OneMoreIsLoaded
    <2>7. Upto(fs, order, n) = With(fs, order, table, n)
      BY <1>1, <2>3, <2>4
    <2> QED
      BY <2>1, <2>6, <2>7
  <1> QED
    BY <1>2, <1>3


(* Numbered files are as many as the number of the first that is not there. *)
LEMMA PresentAreNumbered ==
  ASSUME NEW N \in Nat, Numbered(files, N)
  PROVE  Cardinality(Present) \in Nat /\ IsFiniteSet(Present) /\ Numbered(files, Cardinality(Present))
  <1>1. MaxFiles \in Nat
    BY SilopitAssumption
  <1>2. PICK K : K = IF N <= MaxFiles THEN N ELSE MaxFiles
    OBVIOUS
  <1>3. K \in Nat /\ \A n \in Names : n \in Int /\ n >= 0 /\ (n < N <=> n < K)
    BY <1>1, <1>2 DEF Names
  <1>4. Numbered(files, K)
    BY <1>3 DEF Numbered
  <1>5. Present = 0 .. K - 1
    <2>1. \A n \in 0 .. K - 1 : n \in Names /\ n < K
      BY <1>1, <1>2 DEF Names
    <2>2. \A n \in Names : n < K => n \in 0 .. K - 1
      BY <1>3
    <2> QED
      BY <1>4, <2>1, <2>2 DEF Numbered, Present
  <1>6. IsFiniteSet(0 .. K - 1) /\ Cardinality(0 .. K - 1) = K
    <2>1. K - 1 \in Int /\ 0 \in Int
      BY <1>3
    <2>2. \A i, j \in Int : /\ IsFiniteSet(i .. j)
                            /\ Cardinality(i .. j) = IF i > j THEN 0 ELSE j - i + 1
      BY FS_Interval
    <2>3. Cardinality(0 .. K - 1) = IF 0 > K - 1 THEN 0 ELSE K - 1 - 0 + 1
      BY <2>1, <2>2
    <2> QED
      BY <1>3, <2>1, <2>2, <2>3
  <1> QED
    BY <1>3, <1>4, <1>5, <1>6

LEMMA LoadOrder ==
  ASSUME IInv, InOrder(files, Table, m, name), Load
  PROVE  InOrder(files', Table', m', name')
  <1>1. m.pc = "down" /\ ~ IsTorn /\ m' = NoMerge /\ files' = files
    BY DEF Load
  <1>2. PICK order \in SetToSeqs(Present) : meta' = Loaded(files, order)
    BY DEF Load, Loaded
  <1>3. PICK N : N = Cardinality(Present)
    OBVIOUS
  <1>4. order \in [1 .. N -> Present] /\ \A i, j \in 1 .. N : i # j => order[i] # order[j]
    BY <1>2, <1>3 DEF SetToSeqs
  <1>5. FilesApart(files) /\ \E K \in Nat : Numbered(files, K)
    BY <1>1 DEF InOrder
  <1>6. N \in Nat /\ IsFiniteSet(Present) /\ Numbered(files, N)
    BY <1>3, <1>5, PresentAreNumbered
  <1>7. \A n \in Present : n \in Names /\ n \in Oks(files)
    BY <1>1, MergeIs DEF Present, IsTorn, Blocks, Oks
  <1>8. \A n \in Oks(files) : n \in Present
    BY DEF Present, Oks
  <1>9. \A n \in Oks(files) : files[n].end \in Keys /\ files[n].end \in Held(files, n)
    BY DEF IInv, FilesTyped, Oks, Held
  <1>10. ASSUME NEW i \in 1 .. N, NEW j \in 1 .. N, i # j
         PROVE  files[order[i]].end # files[order[j]].end
    <2>1. PICK a, b : a = order[i] /\ b = order[j]
      OBVIOUS
    <2>2. a \in Oks(files) /\ b \in Oks(files) \ {a}
      BY <1>4, <1>7, <1>10, <2>1
    <2>3. Apart(files, a, Held(files, b))
      BY <1>5, <2>2 DEF FilesApart
    <2>4. files[a].end < files[b].end \/ files[b].end < files[a].end
      BY <1>9, <2>2, <2>3 DEF Apart, Below, Above
    <2>5. files[a].end \in Int /\ files[b].end \in Int
      BY <1>9, <2>2, KeysAreFinite
    <2> QED
      BY <2>1, <2>4, <2>5
  <1>11. order \in [1 .. N -> Names] /\ \A i \in 1 .. N : files[order[i]].end \in Keys
    BY <1>4, <1>7, <1>9
  <1>12. PICK table : table = Loaded(files, order)
    OBVIOUS
  <1>13. LoadedUpto(files, order, table, N)
    BY <1>4, <1>6, <1>10, <1>11, <1>12, AllAreLoaded
  <1>14. m'.pc = "idle" /\ m'.then = "done" /\ Table' = table
    <2>1. m'.pc = "idle" /\ m'.then = "done"
      BY <1>1 DEF NoMerge
    <2> QED
      BY <1>2, <1>12, <2>1 DEF Table
  <1>15. ~ Half(m') /\ ~ Extra(m') /\ Fresh(m', name') = {}
    BY <1>14 DEF Half, Extra, Fresh
  <1>16. \A n \in Present : \E j \in 1 .. N : order[j] = n
    <2>1. order \in Injection(1 .. N, Present)
      BY <1>4 DEF Injection, IsInjective
    <2>2. Cardinality(1 .. N) = N
      <3>1. \A i, j \in Int : Cardinality(i .. j) = IF i > j THEN 0 ELSE j - i + 1
        BY FS_Interval
      <3>2. Cardinality(1 .. N) = IF 1 > N THEN 0 ELSE N - 1 + 1
        BY <1>6, <3>1
      <3> QED
        BY <1>6, <3>2
    <2>3. order \in Surjection(1 .. N, Present)
      BY <1>3, <1>6, <2>1, <2>2, FS_Injection
    <2> QED
      BY <2>3 DEF Surjection
  <1>17. Mirrors(files, table, m', name')
    <2>1. Has(files, table, m', name')
      BY <1>4, <1>7, <1>13, <1>15 DEF Has, LoadedUpto
    <2>2. ASSUME NEW n \in Oks(files) PROVE \E i \in 1 .. Len(table) : table[i].name = n
      <3>1. PICK j \in 1 .. N : order[j] = n
        BY <1>8, <1>16
      <3> QED
        BY <1>13, <3>1 DEF LoadedUpto
    <2>3. Len(table) = N
      BY <1>13 DEF LoadedUpto
    <2> QED
      BY <1>6, <1>15, <2>1, <2>2, <2>3 DEF Mirrors
  <1>18. Walks(m') /\ Stands(files, table, m', name') /\ HandApart(files, table, m', name')
    BY <1>14, <1>15, NothingInHand DEF Walks, Stands, Chunked
  <1>19. Sorted(table)
    BY <1>13 DEF LoadedUpto
  <1> QED
    BY <1>1, <1>5, <1>14, <1>17, <1>18, <1>19 DEF InOrder

-----------------------------------------------------------------------------
(* Every step *)

LEMMA HazardsStay ==
  ASSUME [Next]_vars
  PROVE  hazards \subseteq hazards'
  <1>1. ASSUME NEW left, NEW named, EndProcess(left, named) PROVE hazards \subseteq hazards'
    BY <1>1 DEF EndProcess
  <1>2. Merge => hazards \subseteq hazards'
    BY <1>1 DEF Merge, Walk, WalkDone, Switch, ReadMmap, NameFile, Announce, Lock, Open, Write,
         Grow, Place, Register, Unlock, EndMerge
  <1>3. Getoff => hazards \subseteq hazards'
    BY <1>1 DEF Getoff, GetName, GetLsn, GetLock, GetRead, GetDone, unchangedByGet
  <1>4. Die \/ Load \/ Refused \/ Quiet => hazards \subseteq hazards'
    BY <1>1 DEF Die, Load, Refused, Quiet, vars
  <1>5. \A t \in Memtables : StartMerge(t) => hazards \subseteq hazards'
    BY DEF StartMerge
  <1>6. \A k \in Keys : Get(k) => hazards \subseteq hazards'
    BY DEF Get
  <1>7. UNCHANGED vars => hazards \subseteq hazards'
    BY DEF vars
  <1> QED
    BY <1>2, <1>3, <1>4, <1>5, <1>6, <1>7 DEF Next

LEMMA MergeKeepsOrder ==
  ASSUME IInv, InOrder(files, Table, m, name), Good', Merge
  PROVE  InOrder(files', Table', m', name')
  BY WalkOrder, WalkDoneOrder, SwitchOrder, ReadMmapOrder, NameFileOrder, AnnounceOrder,
     LockOrder, OpenOrder, WriteOrder, GrowOrder, PlaceOrder, RegisterOrder, UnlockOrder,
     EndMergeOrder DEF Merge

LEMMA StepsKeepOrder ==
  IInv /\ OInv /\ [Next]_vars => OInv'
  <1> SUFFICES ASSUME IInv, OInv, [Next]_vars, Good'
               PROVE  InOrder(files', Table', m', name')
    BY DEF OInv
  <1>1. InOrder(files, Table, m, name)
    <2>1. Good
      BY HazardsStay DEF Good
    <2> QED
      BY <2>1 DEF OInv
  <1>2. UNCHANGED vars => InOrder(files', Table', m', name')
    BY <1>1, SameOrder DEF vars, shared
  <1>3. Refused \/ Quiet => UNCHANGED vars
    BY DEF Refused, Quiet
  <1> QED
    BY <1>1, <1>2, <1>3, StartMergeOrder, GetOrder, MergeKeepsOrder, GetoffOrder, DieOrder,
       LoadOrder DEF Next

(* The ends of the table ascend and no file is in it twice: at each step   *)
(* meta_set and meta_set_byname (meta.c:64-100) put an end where the search *)
(* will look for it, unless one of the named events has happened.          *)
THEOREM TableStaysSorted ==
  Spec => []TableIsSorted
  <1>1. Init => OInv
    BY OrderAtTheStart
  <1>2. IInv /\ OInv /\ [Next]_vars => OInv'
    BY StepsKeepOrder
  <1>3. IInv /\ OInv => TableIsSorted
    <2> SUFFICES ASSUME IInv, OInv, Good PROVE Sorted(Table) /\ DOMAIN Table = 1 .. Len(Table)
      BY DEF TableIsSorted, Good, Sorted
    <2>1. DOMAIN Table = 1 .. Len(Table) /\ Table \in Seq(Entries)
      BY MergeIs, EntriesEnd
    <2>2. CASE m.pc = "down"
      <3>1. Table = << >>
        BY <2>2 DEF IInv, TableTyped, Table
      <3> QED
        BY <2>1, <3>1 DEF Sorted
    <2>3. CASE m.pc # "down"
      BY <2>1, <2>3, OrderIs DEF OInv
    <2> QED
      BY <2>2, <2>3
  <1> QED
    BY <1>1, <1>2, <1>3, InvariantHolds, PTL DEF Spec
=============================================================================
