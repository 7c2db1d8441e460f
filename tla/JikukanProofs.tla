--------------------------- MODULE JikukanProofs ---------------------------
(* Theorems about Jikukan, for every set of keys, size and number of levels. *)
EXTENDS Jikukan, FiniteSetTheorems, TLAPS

(* The inductive invariant.  Behind says of a node u that the search may   *)
(* leave level l at it: u is before the key and its successor is not.      *)
Behind(l, u) ==
  /\ u \in Places
  /\ u < call.key
  /\ l <= Top(u)
  /\ forward[u][l] = NIL \/ forward[u][l] >= call.key

Shape ==
  /\ \A n \in nodes : height[n] <= level
  /\ \A n \in nodes : data[n] \in Entries
  /\ IsFiniteSet(nodes)
  /\ count = Cardinality(nodes)

Search ==
  /\ pc # "idle" => call.op \in {"insert", "lookup"}
  /\ pc # "idle" /\ call.op = "insert" => count < Size
  /\ pc = "search" =>
       /\ x \in Places /\ x < call.key
       /\ i <= Top(x) /\ i <= level
       /\ \A l \in Levels : i < l /\ l <= level => Behind(l, update[l])
  /\ pc = "found" =>
       /\ x = update[0]
       /\ \A l \in Levels : l <= level => Behind(l, update[l])

IInv == TypeOK /\ ChainsAreSorted /\ Shape /\ Search

(* Keys and levels as numbers. *)
LEMMA Numbers ==
  /\ \A k \in Keys : k \in Nat /\ k \in Int /\ k # NIL /\ NIL < k
  /\ \A k \in Keys \cup {NIL} : k \in Nat /\ k \in Int
  /\ \A l \in Levels : l \in Nat /\ l \in Int /\ 0 <= l /\ l <= MAXLEVEL
  /\ \A t \in Levels : \A l \in 0 .. t : l \in Levels /\ l <= t
  /\ MAXLEVEL \in Levels /\ NIL \in Levels /\ MAXLEVEL \in Nat
  BY JikukanAssumption DEF NIL, Levels

LEMMA TypedNumbers ==
  ASSUME TypeOK
  PROVE  /\ \A m \in nodes : m \in Keys /\ m \in Int /\ m > NIL
                             /\ height[m] \in Levels /\ height[m] \in Int
         /\ \A m \in Places : m \in Keys \cup {NIL} /\ m \in Int /\ m >= NIL
                              /\ Top(m) \in Levels /\ Top(m) \in Int
         /\ \A m \in Keys \cup {NIL} : \A l \in Levels :
              forward[m][l] \in Keys \cup {NIL} /\ forward[m][l] \in Int
         /\ level \in Levels /\ level \in Int
         /\ pc # "idle" => call.key \in Keys /\ call.key \in Int /\ call.key > NIL
  <1>1. \A m \in nodes : m \in Keys /\ height[m] \in Levels
    BY DEF TypeOK
  <1>2. \A m \in Places : m \in Keys \cup {NIL} /\ Top(m) \in Levels
    BY <1>1, Numbers DEF Places, Top
  <1>3. \A m \in Keys \cup {NIL} : \A l \in Levels : forward[m][l] \in Keys \cup {NIL}
    BY DEF TypeOK
  <1>4. level \in Levels /\ (pc # "idle" => call.key \in Keys)
    BY DEF TypeOK
  <1>5. NIL \in Int /\ \A m \in Keys \cup {NIL} : m \in Int /\ m >= NIL /\ (m \in Keys => m > NIL)
    BY JikukanAssumption DEF NIL
  <1>6. \A l \in Levels : l \in Int
    BY Numbers
  <1> QED
    BY <1>1, <1>2, <1>3, <1>4, <1>5, <1>6

LEMMA InitIInv == Init => IInv
  <1> SUFFICES ASSUME Init PROVE IInv
    OBVIOUS
  <1> USE JikukanAssumption DEF Init, NIL, Levels
  <1>1. TypeOK
    BY DEF TypeOK, Calls, Replies
  <1>2. ChainsAreSorted
    BY DEF ChainsAreSorted, IsNext, Places, Top
  <1>3. Shape
    BY FS_EmptySet DEF Shape
  <1>4. Search
    BY DEF Search
  <1> QED
    BY <1>1, <1>2, <1>3, <1>4 DEF IInv

(* What the search finds: the cursor's successor on the bottom level is    *)
(* the key's node exactly when the key is in the list.                     *)
LEMMA FoundIffPresent ==
  ASSUME IInv, pc = "found"
  PROVE  /\ IsKey <=> call.key \in nodes
         /\ IsKey => Found = call.key
  <1> USE JikukanAssumption DEF NIL, Levels
  <1>1. /\ call.key \in Keys /\ 0 \in Levels /\ 0 <= level
        /\ x = update[0] /\ Behind(0, update[0])
    BY DEF IInv, TypeOK, Search
  <1>2. x \in Places /\ x < call.key /\ 0 <= Top(x) /\ IsNext(x, 0, Found)
    BY <1>1 DEF Behind, IInv, ChainsAreSorted, Found
  <1>3. \A m \in nodes : height[m] >= 0 /\ m \in Nat \ {0}
    BY DEF IInv, TypeOK
  <1>4. Found = NIL \/ Found >= call.key
    BY <1>1 DEF Behind, Found
  <1>5. IsKey => call.key \in nodes
    BY <1>2 DEF IsNext, IsKey
  <1>6. ASSUME call.key \in nodes PROVE IsKey
    <2>1. call.key \in {m \in nodes : m > x /\ height[m] >= 0}
      BY <1>2, <1>3, <1>6
    <2>2. Found # NIL /\ Found <= call.key /\ Found \in nodes
      BY <1>2, <1>3, <2>1 DEF IsNext
    <2> QED
      BY <1>3, <1>4, <1>6, <2>2 DEF IsKey
  <1> QED
    BY <1>5, <1>6 DEF IsKey

-----------------------------------------------------------------------------
(* Each step keeps the invariant. *)

LEMMA StartIInv ==
  ASSUME IInv, NEW k \in Keys, Lookup(k) \/ \E e \in Entries : Insert(k, e)
  PROVE  IInv'
  <1> USE JikukanAssumption DEF NIL, Levels
  <1>1. UNCHANGED list
    BY DEF Lookup, Insert, StartSearch, list
  <1>2. TypeOK'
    <2>1. /\ UNCHANGED <<nodes, forward, height, data, level, count>>
          /\ x' \in Keys \cup {NIL} /\ i' \in Levels
          /\ update' = update /\ pc' \in {"idle", "search"}
      BY <1>1 DEF IInv, TypeOK, Lookup, Insert, StartSearch, list
    <2>2. reply' \in Replies
      BY DEF IInv, TypeOK, Replies, Lookup, Insert, StartSearch
    <2>3. call' \in Calls /\ (pc' # "idle" => call'.key \in Keys)
      BY DEF IInv, TypeOK, Calls, Lookup, Insert, StartSearch
    <2>4. pc' # "idle" /\ call'.op = "insert" => call'.entry \in Entries
      BY DEF IInv, TypeOK, Lookup, Insert, StartSearch
    <2> QED
      BY <2>1, <2>2, <2>3, <2>4 DEF IInv, TypeOK
  <1>3. ChainsAreSorted' /\ Shape'
    BY <1>1 DEF IInv, ChainsAreSorted, Shape, IsNext, Places, Top, list
  <1>4. Search'
    <2>1. CASE Lookup(k)
      BY <2>1 DEF IInv, TypeOK, Search, Lookup, StartSearch, list, Places, Top, Behind
    <2>2. CASE NotFull /\ \E e \in Entries : Insert(k, e)
      BY <2>2 DEF IInv, TypeOK, Search, Insert, NotFull, StartSearch, list, Places, Top, Behind
    <2>3. CASE ~ NotFull /\ \E e \in Entries : Insert(k, e)
      BY <2>3 DEF IInv, Search, Insert, list
    <2> QED
      BY <2>1, <2>2, <2>3
  <1> QED
    BY <1>2, <1>3, <1>4 DEF IInv

LEMMA ForwardIInv == IInv /\ Forward => IInv'
  <1> SUFFICES ASSUME IInv, Forward PROVE IInv'
    OBVIOUS
  <1> USE JikukanAssumption DEF NIL, Levels
  <1>1. TypeOK'
    BY DEF IInv, TypeOK, Calls, Replies, Forward, list, Ahead
  <1>2. ChainsAreSorted' /\ Shape'
    BY DEF IInv, ChainsAreSorted, Shape, IsNext, Places, Top, Forward, list
  <1>3. Search'
    <2>1. IsNext(x, i, forward[x][i])
      BY DEF IInv, TypeOK, Search, ChainsAreSorted, Forward
    <2>2. x' \in nodes /\ height[x'] >= i /\ x' < call.key
      BY <2>1 DEF IsNext, Forward, Ahead
    <2>3. x' # NIL
      BY <2>2 DEF IInv, TypeOK
    <2> QED
      BY <2>2, <2>3 DEF IInv, TypeOK, Search, Behind, Places, Top, Forward, list
  <1> QED
    BY <1>1, <1>2, <1>3 DEF IInv

LEMMA DownIInv == IInv /\ Down => IInv'
  <1> SUFFICES ASSUME IInv, Down PROVE IInv'
    OBVIOUS
  <1> USE JikukanAssumption DEF NIL, Levels
  <1>1. TypeOK'
    BY DEF IInv, TypeOK, Calls, Replies, Down, list, AtBottom
  <1>2. ChainsAreSorted' /\ Shape'
    BY DEF IInv, ChainsAreSorted, Shape, IsNext, Places, Top, Down, list
  <1>3. Search'
    <2>1. Behind(i, x)
      <3>1. pc = "search" /\ ~ Ahead
        BY DEF Down
      <3>2. call.key \in Keys /\ forward[x] \in [Levels -> Keys \cup {NIL}] /\ i \in Levels
        BY <3>1 DEF IInv, TypeOK
      <3>3. forward[x][i] \in Keys \cup {NIL}
        BY <3>2
      <3>4. forward[x][i] = NIL \/ forward[x][i] >= call.key
        <4>1. \A a, b \in Nat : ~ (a < b) => a >= b
          OBVIOUS
        <4>2. Keys \cup {NIL} \subseteq Nat
          OBVIOUS
        <4>4. forward[x][i] \in Nat /\ call.key \in Nat
          BY ONLY <3>2, <3>3, <4>2
        <4>3. forward[x][i] = NIL \/ ~ (forward[x][i] < call.key)
          BY <3>1 DEF Ahead
        <4> QED
          BY ONLY <4>1, <4>4, <4>3
      <3> QED
        BY <3>1, <3>4 DEF IInv, Search, Behind, Down
    <2>2. \A l \in Levels : i <= l /\ l <= level => Behind(l, update'[l])
      BY <2>1 DEF IInv, TypeOK, Search, Down
    <2>3. /\ UNCHANGED <<nodes, forward, height, level, count, call>>
          /\ \A u : Top(u)' = Top(u)
      BY DEF Top, Down, list
    <2>4. x' = x /\ x \in Places /\ x < call.key /\ i <= Top(x) /\ i <= level
      BY DEF Down, IInv, Search
    <2>5. Top(x) \in Levels /\ i \in Levels
      BY DEF IInv, TypeOK, Top, Places
    <2>6. CASE AtBottom
      <3>1. \A l \in Levels : l <= level' => Behind(l, update[l])'
        BY <2>2, <2>3, <2>5, <2>6 DEF AtBottom, Behind, Places, Top
      <3>2. x' = update'[0]
        BY <2>4, <2>6 DEF Down, AtBottom, IInv, TypeOK
      <3> QED
        BY <3>1, <3>2, <2>3, <2>6 DEF Down, IInv, Search
    <2>7. CASE ~ AtBottom
      <3>1. i' = i - 1 /\ pc' = "search" /\ Top(x)' = Top(x) /\ Places' = Places
        BY <2>7 DEF Down, Top, Places, list
      <3>2. i' <= Top(x)' /\ i' <= level'
        BY <3>1, <2>4, <2>5 DEF Down, list, IInv, TypeOK
      <3>3. \A l \in Levels : i' < l /\ l <= level' => i <= l /\ l <= level
        BY <3>1, <2>3, <2>5
      <3>4. \A l \in Levels : i' < l /\ l <= level' => Behind(l, update[l])'
        BY <3>3, <2>2, <2>3 DEF Behind, Places, Top
      <3> QED
        BY <3>1, <3>2, <3>4, <2>3, <2>4 DEF Down, IInv, Search
    <2> QED
      BY <2>6, <2>7
  <1> QED
    BY <1>1, <1>2, <1>3 DEF IInv

LEMMA LookupDoneIInv == IInv /\ LookupDone => IInv'
  <1> SUFFICES ASSUME IInv, LookupDone PROVE IInv'
    OBVIOUS
  <1> USE JikukanAssumption DEF NIL, Levels
  <1>1. TypeOK'
    BY DEF IInv, TypeOK, Calls, Replies, LookupDone, Return, Found, IsKey, list
  <1>2. ChainsAreSorted' /\ Shape'
    BY DEF IInv, ChainsAreSorted, Shape, IsNext, Places, Top, LookupDone, list
  <1>3. Search'
    BY DEF Search, LookupDone, Return
  <1> QED
    BY <1>1, <1>2, <1>3 DEF IInv

LEMMA ReplaceIInv == IInv /\ Replace => IInv'
  <1> SUFFICES ASSUME IInv, Replace PROVE IInv'
    OBVIOUS
  <1> USE JikukanAssumption DEF NIL, Levels
  <1>1. call.entry \in Entries /\ call.op = "insert" /\ call.key \in Keys
    BY DEF IInv, TypeOK, Replace
  <1>2. TypeOK'
    BY <1>1 DEF IInv, TypeOK, Calls, Replies, Replace, Return
  <1>3. ChainsAreSorted'
    BY DEF IInv, ChainsAreSorted, IsNext, Places, Top, Replace
  <1>4. Shape'
    BY <1>1 DEF IInv, TypeOK, Shape, Replace
  <1>5. Search'
    BY DEF Search, Replace, Return
  <1> QED
    BY <1>2, <1>3, <1>4, <1>5 DEF IInv

(* The node before the new one may be left on every level, those above the *)
(* old top included.                                                       *)
LEMMA BeforeIsBehind ==
  ASSUME IInv, pc = "found"
  PROVE  \A l \in Levels : Behind(l, Before(l))
  <1> SUFFICES ASSUME NEW l \in Levels PROVE Behind(l, Before(l))
    OBVIOUS
  <1>0. TypeOK
    BY DEF IInv
  <1> USE TypedNumbers, Numbers, <1>0
  <1>1. CASE l <= level
    BY <1>1 DEF IInv, TypeOK, Search, Before
  <1>2. CASE l > level
    <2>1. IsNext(NIL, l, forward[NIL][l])
      BY DEF IInv, ChainsAreSorted, Places, Top
    <2>2. \A m \in nodes : ~ (height[m] >= l)
      BY <1>2 DEF IInv, TypeOK, Shape
    <2>3. forward[NIL][l] = NIL
      BY <2>1, <2>2 DEF IsNext
    <2>4. NIL \in Places /\ NIL < call.key /\ l <= Top(NIL)
      BY DEF IInv, TypeOK, Places, Top
    <2> QED
      BY <1>2, <2>3, <2>4 DEF Behind, Before
  <1> QED
    BY <1>1, <1>2 DEF IInv, TypeOK

LEMMA SpliceChains ==
  ASSUME IInv, NEW n \in Levels, Splice(n)
  PROVE  ChainsAreSorted'
  <1>0. TypeOK
    BY DEF IInv
  <1> USE TypedNumbers, Numbers, <1>0
  <1> DEFINE k == call.key
  <1>1. /\ k \in Keys /\ k \notin nodes
        /\ nodes' = nodes \cup {k} /\ Places' = Places \cup {k}
    BY FoundIffPresent DEF IInv, TypeOK, Splice, Places
  <1>2. /\ height'[k] = n
        /\ \A m \in nodes : height'[m] = height[m]
    BY <1>1 DEF IInv, TypeOK, Splice
  <1> SUFFICES ASSUME NEW m \in Places', NEW l \in 0 .. Top(m)'
               PROVE  IsNext(m, l, forward[m][l])'
    BY DEF ChainsAreSorted
  <1>3. m \in Keys \cup {NIL} /\ m \in Int /\ m >= NIL /\ k \in Int /\ n \in Int
    BY <1>1
  <1>4. l \in Levels /\ l \in Int /\ (m \in Places => l \in 0 .. Top(m)) /\ (m = k => l <= n)
    <2>1. CASE m = NIL
      BY <1>1, <2>1 DEF Top, Places
    <2>2. CASE m \in nodes
      BY <1>1, <1>2, <2>2 DEF Top, Places
    <2>3. CASE m = k
      <3>1. Top(m)' = n
        BY <1>2, <2>3, <1>1 DEF Top
      <3> QED
        BY <1>1, <3>1, <2>3 DEF Places
    <2> QED
      BY <1>1, <2>1, <2>2, <2>3 DEF Places
  <1>5. /\ \A p \in nodes : p > m /\ height'[p] >= l <=> p > m /\ height[p] >= l
        /\ height'[k] >= l <=> l <= n
    <2>1. l <= n <=> n >= l
      BY <1>3, <1>4
    <2> QED
      BY <1>2, <2>1
  <1>6. m \in Places => IsNext(m, l, forward[m][l])
    BY <1>4 DEF IInv, ChainsAreSorted
  <1>7. CASE ~ Linked(n, l)
    <2>1. m \in Places /\ ~ (l <= n)
      BY <1>1, <1>4, <1>7 DEF Linked
    <2>2. forward'[m][l] = forward[m][l]
      BY <1>3, <1>4, <1>7 DEF Splice, Spliced
    <2>3. {p \in nodes' : p > m /\ height'[p] >= l} = {p \in nodes : p > m /\ height[p] >= l}
      BY <1>1, <1>5, <2>1
    <2> QED
      BY <1>6, <2>1, <2>2, <2>3 DEF IsNext
  <1>8. CASE Linked(n, l)
    <2> DEFINE b == Before(l)
               y == forward[b][l]
               after == {p \in nodes : p > b /\ height[p] >= l}
               after2 == {p \in nodes' : p > m /\ height'[p] >= l}
    <2>1. b \in Places /\ b < k /\ l <= Top(b) /\ (y = NIL \/ y >= k)
      BY BeforeIsBehind, <1>4 DEF Behind, Splice
    <2>2. /\ b \in Int /\ y \in Int
          /\ \/ y = NIL /\ after = {}
             \/ y \in after /\ \A p \in after : y <= p
      <3>1. l \in 0 .. Top(b) /\ b \in Int /\ y \in Int
        BY <2>1, <1>4
      <3> QED
        BY <2>1, <3>1 DEF IInv, ChainsAreSorted, IsNext
    <2>3. forward'[m][l] = IF m = k THEN y ELSE IF m = b THEN k ELSE forward[m][l]
      BY <1>3, <1>4, <1>8 DEF Splice, Spliced
    <2>4. \A p : p \in after2 <=> /\ p > m
                                  /\ p = k \/ (p \in nodes /\ height[p] >= l)
                                  /\ p \in Int
      BY <1>1, <1>3, <1>5, <1>8 DEF Linked
    <2>5. SUFFICES \/ forward'[m][l] = NIL /\ after2 = {}
                   \/ forward'[m][l] \in after2 /\ \A p \in after2 : forward'[m][l] <= p
      BY DEF IsNext
    <2> HIDE DEF after2, b, y
    <2>6. CASE m = k
      <3>1. \A p \in after2 : p \in after
        BY <2>1, <2>2, <2>4, <2>6, <1>1, <1>3
      <3>2. ASSUME y \in after PROVE y \in after2
        <4>1. y \in nodes /\ height[y] >= l /\ y # NIL /\ y # k
          BY <3>2, <1>1
        <4>2. y > m
          <5>1. y >= k /\ y # k /\ m = k
            BY <4>1, <2>1, <2>6
          <5>2. y \in Int /\ k \in Int
            BY <2>2, <1>3
          <5> HIDE DEF k
          <5> QED
            BY ONLY <5>1, <5>2
        <4> QED
          BY <4>1, <4>2, <2>4
      <3> QED
        BY <2>2, <2>3, <2>6, <3>1, <3>2
    <2>7. CASE m # k /\ m = b
      <3>1. \A p \in after2 : p = k \/ p \in after
        BY <2>4, <2>7
      <3>2. \A p \in after : k <= p
        BY <1>3, <2>1, <2>2
      <3> QED
        BY <2>1, <2>3, <2>4, <2>7, <3>1, <3>2, <1>3
    <2>8. CASE m # k /\ m < b
      <3>1. m \in Places /\ b \in nodes /\ height[b] >= l
        BY <1>1, <1>3, <2>1, <2>2, <2>8 DEF Places, Top
      <3>2. /\ forward[m][l] \in nodes /\ forward[m][l] > m /\ height[forward[m][l]] >= l
            /\ \A p \in nodes : p > m /\ height[p] >= l => forward[m][l] <= p
        BY <1>6, <2>8, <3>1, <1>4, <2>2 DEF IsNext
      <3>3. forward[m][l] <= k
        BY <3>1, <3>2, <2>1, <2>2, <2>8, <1>3
      <3> QED
        BY <3>2, <3>3, <2>2, <2>3, <2>4, <2>8, <1>4
    <2>9. CASE m # k /\ m > b
      <3>1. m \in nodes /\ height[m] >= l
        <4>1. m \in Places /\ m # NIL
          BY <1>1, <1>3, <2>1, <2>9
        <4> QED
          BY <4>1, <1>4 DEF Places, Top
      <3>2. m \in after
        BY <3>1, <2>9
      <3>3. ~ (k > m)
        BY <3>2, <2>1, <2>2, <1>3, <1>4
      <3>4. m \in Places /\ m # b
        BY <3>1, <2>2, <2>9 DEF Places
      <3>5. after2 = {p \in nodes : p > m /\ height[p] >= l}
        BY <2>4, <3>3
      <3> QED
        BY <1>6, <2>3, <2>9, <3>4, <3>5 DEF IsNext
    <2> QED
      BY <1>3, <2>2, <2>6, <2>7, <2>8, <2>9
  <1> QED
    BY <1>7, <1>8

LEMMA SpliceIInv == ASSUME IInv, NEW n \in Levels, Splice(n) PROVE IInv'
  <1>0. TypeOK
    BY DEF IInv
  <1> USE TypedNumbers, Numbers, <1>0
  <1>1. /\ call.key \in Keys /\ call.key \notin nodes
        /\ call.entry \in Entries /\ count < Size
    BY FoundIffPresent DEF IInv, TypeOK, Search, Splice
  <1>2. forward' \in [Keys \cup {NIL} -> [Levels -> Keys \cup {NIL}]]
    <2>1. \A l \in Levels : Before(l) \in Keys \cup {NIL}
      BY DEF IInv, TypeOK, Before
    <2> QED
      BY <1>1, <2>1 DEF IInv, TypeOK, Splice, Spliced
  <1>3. TypeOK'
    BY <1>1, <1>2 DEF IInv, TypeOK, Replies, Splice, Return
  <1>4. Shape'
    <2>1. IsFiniteSet(nodes') /\ count' = Cardinality(nodes')
      BY <1>1, FS_AddElement DEF IInv, Shape, Splice
    <2>2. \A m \in nodes' : height'[m] <= level' /\ data'[m] \in Entries
      BY <1>1 DEF IInv, TypeOK, Shape, Splice
    <2> QED
      BY <2>1, <2>2 DEF Shape
  <1>5. Search'
    BY DEF Search, Splice, Return
  <1> QED
    BY <1>3, <1>4, <1>5, SpliceChains DEF IInv

LEMMA NextIInv == IInv /\ [Next]_vars => IInv'
  <1>1. IInv /\ UNCHANGED vars => IInv'
    BY DEF IInv, TypeOK, ChainsAreSorted, Shape, Search, IsNext, Places, Top, Behind, vars, list
  <1> QED
    BY <1>1, StartIInv, ForwardIInv, DownIInv, LookupDoneIInv, ReplaceIInv, SpliceIInv
    DEF Next, Step

LEMMA Invariant == Spec => []IInv
  BY InitIInv, NextIInv, PTL DEF Spec

-----------------------------------------------------------------------------
(* Every variable keeps its type. *)
THEOREM TypeCorrect == Spec => []TypeOK
  <1>1. IInv => TypeOK
    BY DEF IInv
  <1> QED
    BY <1>1, Invariant, PTL

(* Every chain is sorted, complete for its level and ends in the header,   *)
(* also while a search is under way.                                       *)
THEOREM ChainsStaySorted == Spec => []ChainsAreSorted
  <1>1. IInv => ChainsAreSorted
    BY DEF IInv
  <1> QED
    BY <1>1, Invariant, PTL

(* No search reads a forward pointer beyond those its node has.            *)
THEOREM SearchesStayInNodes == Spec => []SearchStaysInNode
  <1>1. IInv => SearchStaysInNode
    BY DEF IInv, Search, SearchStaysInNode
  <1> QED
    BY <1>1, Invariant, PTL

-----------------------------------------------------------------------------
(* The skip list is a bounded map: a search and a splice over many nodes   *)
(* are one step of the map, taken when the call returns.                   *)

Abstract == [k \in Keys |-> IF k \in nodes THEN data[k] ELSE None]

LEMMA PresentIsNodes ==
  ASSUME IInv
  PROVE  Map!Present = nodes /\ count = Cardinality(Map!Present)
  BY JikukanAssumption DEF IInv, TypeOK, Shape, Map!Present

LEMMA SameCardinality == \A S : Map!Cardinality(S) = Cardinality(S)
  BY DEF Map!Cardinality, Cardinality

LEMMA InitMap == Init => Map!Init
  BY DEF Init, Map!Init, NIL

LEMMA PutMap ==
  ASSUME IInv, Replace \/ \E n \in Levels : Splice(n)
  PROVE  Map!Next
  <1>1. /\ call.key \in Keys /\ call.entry \in Entries /\ call.op = "insert"
        /\ count < Size /\ count \in Nat
    BY DEF IInv, TypeOK, Search, Replace, Splice
  <1>2. /\ nodes' = nodes \cup {call.key}
        /\ data' = [data EXCEPT ![call.key] = call.entry]
        /\ reply' = [op |-> "insert", key |-> call.key, ret |-> 1]
    <2>1. CASE Replace
      BY <2>1, <1>1, FoundIffPresent DEF Replace, Return
    <2>2. CASE \E n \in Levels : Splice(n)
      BY <2>2, <1>1 DEF Splice, Return
    <2> QED
      BY <2>1, <2>2
  <1>3. Abstract' = [Abstract EXCEPT ![call.key] = call.entry]
    BY <1>1, <1>2 DEF Abstract, IInv, TypeOK
  <1>4. Map!Cardinality(Map!Present) < Size
    BY <1>1, PresentIsNodes, SameCardinality
  <1>5. PICK k \in Keys, e \in Entries : k = call.key /\ e = call.entry
    BY <1>1
  <1>6. Map!Put(k, e)
    BY <1>2, <1>3, <1>4, <1>5 DEF Map!Put, Abstract
  <1> QED
    BY <1>6 DEF Map!Next

LEMMA GetMap == ASSUME IInv, LookupDone PROVE Map!Next
  <1>1. call.key \in Keys /\ call.op = "lookup"
    BY DEF IInv, TypeOK, LookupDone
  <1>2. Abstract' = Abstract
    BY DEF LookupDone, list, Abstract
  <1>3. reply' = [op |-> "lookup", key |-> call.key, ret |-> Abstract[call.key]]
    BY <1>1, FoundIffPresent DEF LookupDone, Return, Abstract
  <1>4. PICK k \in Keys : k = call.key
    BY <1>1
  <1>5. Map!Get(k)
    BY <1>2, <1>3, <1>4 DEF Map!Get, Abstract
  <1> QED
    BY <1>5 DEF Map!Next

LEMMA StartMap ==
  ASSUME IInv, NEW k \in Keys, Lookup(k) \/ \E e \in Entries : Insert(k, e)
  PROVE  Map!Next \/ UNCHANGED <<Abstract, reply>>
  <1>1. UNCHANGED list /\ Abstract' = Abstract
    BY DEF Lookup, Insert, StartSearch, list, Abstract
  <1>2. CASE reply' = reply
    BY <1>1, <1>2
  <1>3. CASE reply' # reply
    <2>1. ~ NotFull /\ reply' = [op |-> "insert", key |-> k, ret |-> 0]
      BY <1>3 DEF Lookup, Insert, StartSearch
    <2>2. Map!Cardinality(Map!Present) >= Size
      BY <2>1, PresentIsNodes, SameCardinality, JikukanAssumption DEF NotFull, IInv, TypeOK
    <2> QED
      BY <1>1, <2>1, <2>2 DEF Map!Next, Map!Refuse, Abstract
  <1> QED
    BY <1>2, <1>3

LEMMA NextMap == IInv /\ [Next]_vars => [Map!Next]_<<Abstract, reply>>
  <1>1. Forward \/ Down \/ UNCHANGED vars => UNCHANGED <<Abstract, reply>>
    BY DEF Forward, Down, vars, list, Abstract
  <1> QED
    BY <1>1, PutMap, GetMap, StartMap DEF Next, Step

(* The skip list, with searches that interleave with nothing but take many *)
(* steps, implements the bounded map (jikukan_insert, jikukan_lookup).     *)
THEOREM ImplementsBoundedMap == Spec => ImplementsMap
  BY Invariant, InitMap, NextMap, PTL DEF Spec, ImplementsMap, Map!Spec, Abstract

=============================================================================
