----------------------------- MODULE DbProofs -----------------------------
(* Theorems about Db, for every set of keys, sizes, buffer and bounds. *)
EXTENDS Db, FiniteSetTheorems, TLAPS

(* A finite set of integers has a greatest element. *)
LEMMA GreatestElement ==
  ASSUME NEW S, S \subseteq Int, IsFiniteSet(S), S # {}
  PROVE  \E n \in S : \A m \in S : n >= m
  <1>1. PICK above : above = [n \in S |-> {m \in S : m > n}]
    OBVIOUS
  <1>2. PICK T : T = {above[n] : n \in S}
    OBVIOUS
  <1>3. T \subseteq FiniteSubsetsOf(S) /\ T # {}
    <2>1. \A t \in T : t \in SUBSET S
      BY <1>1, <1>2
    <2>2. \A t \in T : IsFiniteSet(t)
      BY <2>1, FS_Subset
    <2> QED
      BY <1>2, <2>1, <2>2 DEF FiniteSubsetsOf
  <1>4. PICK t \in T : \A u \in T : ~ (<<u, t>> \in StrictSubsetOrdering(S))
    BY <1>3, FS_StrictSubsetOrderingWellFounded, WFMin
  <1>5. PICK n \in S : t = above[n]
    BY <1>2, <1>4
  <1>6. ASSUME NEW m \in S, m > n PROVE FALSE
    <2>1. above[m] \subseteq above[n] /\ m \in above[n] /\ m \notin above[m]
      <3>1. above[m] = {k \in S : k > m} /\ above[n] = {k \in S : k > n}
        BY <1>1
      <3>2. ~ (m > m) /\ \A k \in S : k > m => k > n
        BY <1>6
      <3> QED
        BY <1>6, <3>1, <3>2
    <2>2. above[m] \in T /\ above[m] \subseteq S /\ above[n] \subseteq S
      BY <1>1, <1>2
    <2> QED
      BY <1>4, <1>5, <2>1, <2>2 DEF StrictSubsetOrdering
  <1> QED
    BY <1>6

-----------------------------------------------------------------------------
(* What the operations on the cache do to its entries *)

(* A cache whose accounts are any integers: answers do not depend on them. *)
Typed == [node : [Ids -> Nodes], next : Nat \ {0}, ht : SUBSET Ids,
          first : [Levels -> Ids \cup {NULL}], last : [Levels -> Ids \cup {NULL}],
          used : [Levels -> Int], count : [Levels -> Int], fault : BOOLEAN]

(* d has some of c's entries and no others. *)
Shrinks(c, d) ==
  /\ d \in Typed /\ d.next = c.next /\ d.ht \subseteq c.ht
  /\ \A n \in d.ht : d.node[n].name = c.node[n].name /\ d.node[n].val = c.node[n].val

(* Each key has one entry at most, with the value L has for it. *)
Sound(c, L) ==
  /\ \A n \in c.ht : n < c.next /\ c.node[n].name \in Keys
  /\ \A n \in c.ht : c.node[n].val = L[c.node[n].name]
  /\ \A m, n \in c.ht : c.node[m].name = c.node[n].name => m = n

Absent(c, k) == \A n \in c.ht : c.node[n].name # k

LEMMA IdsAreIntegers == Ids \subseteq Int /\ NULL \notin Ids
  BY DbAssumption DEF Ids, NULL

LEMMA ShrinkingIsTransitive ==
  ASSUME NEW c, NEW d, NEW e, Shrinks(c, d), Shrinks(d, e)
  PROVE  Shrinks(c, e)
  BY DEF Shrinks

LEMMA ShrinkingKeepsSound ==
  ASSUME NEW c, NEW d, NEW L, Shrinks(c, d), Sound(c, L)
  PROVE  Sound(d, L)
  BY DEF Shrinks, Sound

LEMMA ShrinkingKeepsAbsent ==
  ASSUME NEW c, NEW d, NEW k, Shrinks(c, d), Absent(c, k)
  PROVE  Absent(d, k)
  BY DEF Shrinks, Absent

(* One field at a time, the accounts and the links leave the entries alone. *)
WithCount(c, l, x) == [c EXCEPT !.count[l] = x]
WithUsed(c, l, x)  == [c EXCEPT !.used[l] = x]
WithFirst(c, l, i) == [c EXCEPT !.first[l] = i]
WithLast(c, l, i)  == [c EXCEPT !.last[l] = i]
WithPre(c, n, i)   == [c EXCEPT !.node[n].pre = i]
WithNxt(c, n, i)   == [c EXCEPT !.node[n].nxt = i]
WithHits(c, n, x)  == [c EXCEPT !.node[n].hits = x]

LEMMA CountShrinks ==
  ASSUME NEW c \in Typed, NEW l \in Levels, NEW x \in Int
  PROVE  Shrinks(c, WithCount(c, l, x))
  BY DEF Shrinks, Typed, WithCount

LEMMA UsedShrinks ==
  ASSUME NEW c \in Typed, NEW l \in Levels, NEW x \in Int
  PROVE  Shrinks(c, WithUsed(c, l, x))
  BY DEF Shrinks, Typed, WithUsed

LEMMA FirstShrinks ==
  ASSUME NEW c \in Typed, NEW l \in Levels, NEW i \in Ids \cup {NULL}
  PROVE  Shrinks(c, WithFirst(c, l, i))
  BY DEF Shrinks, Typed, WithFirst

LEMMA LastShrinks ==
  ASSUME NEW c \in Typed, NEW l \in Levels, NEW i \in Ids \cup {NULL}
  PROVE  Shrinks(c, WithLast(c, l, i))
  BY DEF Shrinks, Typed, WithLast

LEMMA NodeShrinks ==
  ASSUME NEW c \in Typed, NEW n \in Ids, NEW r \in Nodes,
         r.name = c.node[n].name, r.val = c.node[n].val
  PROVE  Shrinks(c, [c EXCEPT !.node[n] = r])
  BY DEF Shrinks, Typed

LEMMA PreShrinks ==
  ASSUME NEW c \in Typed, NEW n \in Ids, NEW i \in Ids \cup {NULL}
  PROVE  Shrinks(c, WithPre(c, n, i))
  <1>1. c.node[n] \in Nodes /\ [c.node[n] EXCEPT !.pre = i] \in Nodes
    BY DEF Typed, Nodes
  <1> QED
    BY <1>1, NodeShrinks DEF Nodes, WithPre

LEMMA NxtShrinks ==
  ASSUME NEW c \in Typed, NEW n \in Ids, NEW i \in Ids \cup {NULL}
  PROVE  Shrinks(c, WithNxt(c, n, i))
  <1>1. c.node[n] \in Nodes /\ [c.node[n] EXCEPT !.nxt = i] \in Nodes
    BY DEF Typed, Nodes
  <1> QED
    BY <1>1, NodeShrinks DEF Nodes, WithNxt

LEMMA HitsShrink ==
  ASSUME NEW c \in Typed, NEW n \in Ids, NEW x \in Int
  PROVE  Shrinks(c, WithHits(c, n, x))
  <1>1. c.node[n] \in Nodes /\ [c.node[n] EXCEPT !.hits = x] \in Nodes
    BY DEF Typed, Nodes
  <1> QED
    BY <1>1, NodeShrinks DEF Nodes, WithHits

LEMMA ShrunkIsTyped ==
  ASSUME NEW c, NEW d, Shrinks(c, d)
  PROVE  d \in Typed
  BY DEF Shrinks

LEMMA TypedFields ==
  ASSUME NEW c \in Typed
  PROVE  /\ \A l \in Levels : /\ c.count[l] \in Int /\ c.used[l] \in Int
                              /\ c.first[l] \in Ids \cup {NULL}
                              /\ c.last[l] \in Ids \cup {NULL}
         /\ \A n \in Ids : /\ c.node[n] \in Nodes /\ c.node[n].hits \in Int
                           /\ c.node[n].size \in Int
                           /\ c.node[n].pre \in Ids \cup {NULL}
                           /\ c.node[n].nxt \in Ids \cup {NULL}
  BY DEF Typed, Nodes

LEMMA SetHeadShrinks ==
  ASSUME NEW c \in Typed, NEW l \in Levels, NEW n \in Ids
  PROVE  Shrinks(c, SetHead(c, l, n))
  <1> DEFINE c1 == WithCount(c, l, c.count[l] + 1)
             c2 == WithFirst(c1, l, n)
             c3 == WithPre(c2, n, NULL)
             c4 == WithNxt(c3, n, c.first[l])
  <1>0. c.count[l] + 1 \in Int /\ c.first[l] \in Ids \cup {NULL}
    BY TypedFields
  <1>1. Shrinks(c, c1) /\ c1 \in Typed
    BY <1>0, CountShrinks, ShrunkIsTyped
  <1>2. Shrinks(c1, c2) /\ c2 \in Typed
    BY <1>1, FirstShrinks, ShrunkIsTyped
  <1>3. Shrinks(c2, c3) /\ c3 \in Typed
    BY <1>2, PreShrinks, ShrunkIsTyped
  <1>4. Shrinks(c3, c4)
    BY <1>0, <1>3, NxtShrinks
  <1>5. SetHead(c, l, n) = IF c.first[l] = NULL THEN c2 ELSE c4
    BY DEF SetHead, WithCount, WithFirst, WithPre, WithNxt
  <1> HIDE DEF c1, c2, c3, c4
  <1> QED
    BY <1>1, <1>2, <1>3, <1>4, <1>5, ShrinkingIsTransitive

LEMMA RemoveLinkShrinks ==
  ASSUME NEW c \in Typed, NEW l \in Levels, NEW n \in Ids
  PROVE  Shrinks(c, RemoveLink(c, l, n))
  <1> DEFINE pre == c.node[n].pre
             nxt == c.node[n].nxt
             c1  == WithCount(c, l, c.count[l] - 1)
             c2  == WithFirst(c1, l, nxt)
             c3  == WithNxt(c2, n, NULL)
             c4  == WithLast(c1, l, pre)
             c5  == WithPre(c4, n, NULL)
             c6  == WithNxt(c1, pre, nxt)
             c7  == WithNxt(c6, n, NULL)
             c8  == WithPre(c7, n, NULL)
  <1>0. c.count[l] - 1 \in Int /\ pre \in Ids \cup {NULL} /\ nxt \in Ids \cup {NULL}
    BY TypedFields
  <1>1. Shrinks(c, c1) /\ c1 \in Typed
    BY <1>0, CountShrinks, ShrunkIsTyped
  <1>2. Shrinks(c1, c2) /\ c2 \in Typed
    BY <1>0, <1>1, FirstShrinks, ShrunkIsTyped
  <1>3. Shrinks(c2, c3)
    BY <1>2, NxtShrinks
  <1>4. Shrinks(c1, c4) /\ c4 \in Typed
    BY <1>0, <1>1, LastShrinks, ShrunkIsTyped
  <1>5. Shrinks(c4, c5)
    BY <1>4, PreShrinks
  <1>6. pre # NULL => Shrinks(c1, c6) /\ c6 \in Typed
    BY <1>0, <1>1, NxtShrinks, ShrunkIsTyped
  <1>7. pre # NULL => Shrinks(c6, c7) /\ c7 \in Typed
    BY <1>6, NxtShrinks, ShrunkIsTyped
  <1>8. pre # NULL => Shrinks(c7, c8)
    BY <1>7, PreShrinks
  <1>9. /\ pre = NULL /\ nxt = NULL => RemoveLink(c, l, n) = c1
        /\ pre = NULL /\ nxt # NULL => RemoveLink(c, l, n) = c3
        /\ pre # NULL /\ nxt = NULL => RemoveLink(c, l, n) = c5
        /\ pre # NULL /\ nxt # NULL => RemoveLink(c, l, n) = c8
    BY DEF RemoveLink, WithCount, WithFirst, WithLast, WithPre, WithNxt
  <1> HIDE DEF pre, nxt, c1, c2, c3, c4, c5, c6, c7, c8
  <1>10. Shrinks(c, c3) /\ Shrinks(c, c5)
    BY <1>1, <1>2, <1>3, <1>4, <1>5, ShrinkingIsTransitive
  <1>11. pre # NULL => Shrinks(c, c8)
    BY <1>1, <1>6, <1>7, <1>8, ShrinkingIsTransitive
  <1> QED
    BY <1>1, <1>9, <1>10, <1>11

(* Whoever is freed is not in the hash table. *)
LEMMA FreeNodeShrinks ==
  ASSUME NEW c \in Typed, NEW l \in Levels, NEW n \in Ids, n \notin c.ht
  PROVE  Shrinks(c, FreeNode(c, l, n))
  <1> DEFINE u == WithUsed(c, l, c.used[l] - c.node[n].size)
             r == RemoveLink(u, l, n)
  <1>0. c.used[l] - c.node[n].size \in Int
    BY TypedFields
  <1>1. Shrinks(c, u) /\ u \in Typed
    BY <1>0, UsedShrinks, ShrunkIsTyped
  <1>2. Shrinks(u, r)
    BY <1>1, RemoveLinkShrinks
  <1>3. FreeNode(c, l, n) = [r EXCEPT !.node[n] = NoNode]
    BY DEF FreeNode, WithUsed
  <1>4. r \in Typed /\ n \notin r.ht
    BY <1>1, <1>2 DEF Shrinks
  <1> HIDE DEF u, r
  <1>5. NoNode \in Nodes
    BY DEF NoNode, Nodes, Names, None, NULL
  <1>6. Shrinks(r, [r EXCEPT !.node[n] = NoNode])
    BY <1>4, <1>5 DEF Shrinks, Typed
  <1> QED
    BY <1>1, <1>2, <1>3, <1>6, ShrinkingIsTransitive

(* The search of the hash table: the entry of that name, if there is one. *)
LEMMA Searching ==
  ASSUME NEW c \in Typed, NEW L, NEW k, Sound(c, L)
  PROVE  \/ HtGet(c, k) = NULL /\ Absent(c, k)
         \/ HtGet(c, k) \in c.ht /\ c.node[HtGet(c, k)].name = k
  <1> DEFINE named == {n \in c.ht : c.node[n].name = k}
  <1>1. CASE named = {}
    BY <1>1 DEF HtGet, Absent
  <1>2. CASE named # {}
    <2>1. PICK n \in named : TRUE
      BY <1>2
    <2>2. named = {n}
      BY <2>1 DEF Sound
    <2>3. n \in Int
      BY <2>1, IdsAreIntegers DEF Typed
    <2>4. Max({n}) = n
      BY <2>3 DEF Max
    <2> QED
      BY <1>2, <2>1, <2>2, <2>4 DEF HtGet
  <1> QED
    BY <1>1, <1>2

LEMMA HtRemoveShrinks ==
  ASSUME NEW c \in Typed, NEW k
  PROVE  Shrinks(c, HtRemove(c, k)) /\ HtGet(c, k) \notin HtRemove(c, k).ht
  <1> DEFINE n == HtGet(c, k)
  <1> HIDE DEF n
  <1>1. Shrinks(c, [c EXCEPT !.ht = @ \ {n}]) /\ n \notin [c EXCEPT !.ht = @ \ {n}].ht
    BY DEF Shrinks, Typed
  <1> QED
    BY <1>1 DEF HtRemove, n

LEMMA FreeLastShrinks ==
  ASSUME NEW c \in Typed, NEW l \in Levels, NEW L, Sound(c, L)
  PROVE  Shrinks(c, FreeLast(c, l))
  <1> DEFINE n == c.last[l]
             d == HtRemove(c, c.node[n].name)
  <1>1. CASE n = NULL
    <2>1. FreeLast(c, l) = [c EXCEPT !.fault = TRUE]
      BY <1>1 DEF FreeLast
    <2> QED
      BY <2>1 DEF Shrinks, Typed
  <1>2. CASE n # NULL
    <2>1. n \in Ids
      BY <1>2, TypedFields
    <2>2. Shrinks(c, d) /\ d \in Typed
      BY HtRemoveShrinks, ShrunkIsTyped
    <2>3. n \notin d.ht
      <3>1. CASE n \notin c.ht
        BY <2>2, <3>1 DEF Shrinks
      <3>2. CASE n \in c.ht
        <4>1. ~ Absent(c, c.node[n].name)
          BY <3>2 DEF Absent
        <4>2. HtGet(c, c.node[n].name) = n
          BY <3>2, <4>1, Searching DEF Sound
        <4> QED
          BY <4>2, HtRemoveShrinks
      <3> QED
        BY <3>1, <3>2
    <2>4. FreeLast(c, l) = FreeNode(d, l, n)
      BY <1>2 DEF FreeLast
    <2> HIDE DEF n, d
    <2>5. Shrinks(d, FreeNode(d, l, n))
      BY <2>1, <2>2, <2>3, FreeNodeShrinks
    <2> QED
      BY <2>2, <2>4, <2>5, ShrinkingIsTransitive
  <1> QED
    BY <1>1, <1>2

LEMMA NoChangeShrinks ==
  ASSUME NEW c \in Typed
  PROVE  Shrinks(c, c)
  BY DEF Shrinks

LEMMA PromoteShrinks ==
  ASSUME NEW c \in Typed, NEW n \in Ids
  PROVE  Shrinks(c, Promote(c, n))
  <1> DEFINE h  == SetHead(c, "new", n)
             c1 == WithHits(h, n, Hot)
             c2 == WithUsed(c1, "old", c1.used["old"] - c.node[n].size)
             c3 == WithUsed(c2, "new", c2.used["new"] + c.node[n].size)
  <1>0. "new" \in Levels /\ "old" \in Levels /\ Hot \in Int /\ c.node[n].size \in Int
    BY TypedFields DEF Levels, Hot
  <1>1. Shrinks(c, h) /\ h \in Typed
    BY <1>0, SetHeadShrinks, ShrunkIsTyped
  <1>2. Shrinks(h, c1) /\ c1 \in Typed
    BY <1>0, <1>1, HitsShrink, ShrunkIsTyped
  <1>3. c1.used["old"] - c.node[n].size \in Int
    BY <1>0, <1>2, TypedFields
  <1>4. Shrinks(c1, c2) /\ c2 \in Typed
    BY <1>0, <1>2, <1>3, UsedShrinks, ShrunkIsTyped
  <1>5. c2.used["new"] + c.node[n].size \in Int
    BY <1>0, <1>4, TypedFields
  <1>6. Shrinks(c2, c3)
    BY <1>0, <1>4, <1>5, UsedShrinks
  <1>7. Promote(c, n) = c3
    BY DEF Promote, WithHits, WithUsed
  <1> HIDE DEF h, c1, c2, c3
  <1> QED
    BY <1>1, <1>2, <1>4, <1>6, <1>7, ShrinkingIsTransitive

LEMMA SetNodeShrinks ==
  ASSUME NEW c \in Typed, NEW n \in Ids, NEW L, Sound(c, L)
  PROVE  Shrinks(c, SetNode(c, n))
  <1> DEFINE room == MakeRoom(c, LevelOf(c, n))
             hit  == WithHits(room, n, room.node[n].hits + 1)
             out  == RemoveLink(hit, "old", n)
             top  == RemoveLink(room, "new", n)
  <1>0. "new" \in Levels /\ "old" \in Levels /\ LevelOf(c, n) \in Levels
    BY DEF Levels, LevelOf
  <1>1. Shrinks(c, room) /\ room \in Typed
    <2>1. Shrinks(c, FreeLast(c, LevelOf(c, n))) /\ Shrinks(c, c)
      BY <1>0, FreeLastShrinks, NoChangeShrinks
    <2> QED
      BY <2>1, ShrunkIsTyped DEF MakeRoom
  <1>2. SetNode(c, n) \in {room, SetHead(top, "new", n), Promote(out, n),
                           SetHead(out, "old", n)}
    BY DEF SetNode, WithHits
  <1> HIDE DEF room
  <1>3. room.node[n].hits + 1 \in Int
    BY <1>1, TypedFields
  <1>4. Shrinks(room, hit) /\ hit \in Typed
    BY <1>1, <1>3, HitsShrink, ShrunkIsTyped
  <1>5. Shrinks(room, top) /\ top \in Typed
    BY <1>0, <1>1, RemoveLinkShrinks, ShrunkIsTyped
  <1> HIDE DEF hit
  <1>6. Shrinks(hit, out) /\ out \in Typed
    BY <1>0, <1>4, RemoveLinkShrinks, ShrunkIsTyped
  <1> HIDE DEF out, top
  <1>7. Shrinks(top, SetHead(top, "new", n))
    BY <1>0, <1>5, SetHeadShrinks
  <1>8. Shrinks(out, Promote(out, n)) /\ Shrinks(out, SetHead(out, "old", n))
    BY <1>0, <1>6, PromoteShrinks, SetHeadShrinks
  <1>9. Shrinks(c, SetHead(top, "new", n))
    BY <1>1, <1>5, <1>7, ShrinkingIsTransitive
  <1>10. Shrinks(c, Promote(out, n)) /\ Shrinks(c, SetHead(out, "old", n))
    BY <1>1, <1>4, <1>6, <1>8, ShrinkingIsTransitive
  <1> QED
    BY <1>1, <1>2, <1>9, <1>10

(* A write leaves no entry of its key. *)
LEMMA RemovingRemoves ==
  ASSUME NEW c \in Typed, NEW L, NEW k, Sound(c, L), ~ Buffered => c.ht = {}
  PROVE  Shrinks(c, ShikiRemove(c, k)) /\ Absent(ShikiRemove(c, k), k)
  <1> DEFINE n == ShikiGet(c, k)
             d == HtRemove(c, k)
  <1>1. CASE n = NULL
    <2>1. Absent(c, k)
      BY <1>1, Searching, IdsAreIntegers DEF ShikiGet, Absent, Typed
    <2> QED
      BY <1>1, <2>1, NoChangeShrinks DEF ShikiRemove
  <1>2. CASE n # NULL
    <2>1. n = HtGet(c, k) /\ n \in c.ht /\ n \in Ids /\ c.node[n].name = k
      BY <1>2, Searching DEF ShikiGet, Typed
    <2>2. Shrinks(c, d) /\ d \in Typed /\ n \notin d.ht
      BY <2>1, HtRemoveShrinks, ShrunkIsTyped
    <2>3. Absent(d, k)
      BY <2>1, <2>2 DEF Shrinks, Sound, Absent
    <2>4. LevelOf(d, n) \in Levels /\ LevelOf(d, n) = LevelOf(c, n)
      BY DEF LevelOf, Levels, HtRemove
    <2>5. ShikiRemove(c, k) = FreeNode(d, LevelOf(d, n), n)
      BY <1>2, <2>4 DEF ShikiRemove
    <2> HIDE DEF n, d
    <2>6. Shrinks(d, FreeNode(d, LevelOf(d, n), n))
      BY <2>1, <2>2, <2>4, FreeNodeShrinks
    <2> QED
      BY <2>2, <2>3, <2>5, <2>6, ShrinkingIsTransitive, ShrinkingKeepsAbsent
  <1> QED
    BY <1>1, <1>2

(* A new node of the old level. *)
Added(c, r) == [c EXCEPT !.next = @ + 1, !.node[c.next] = r, !.ht = @ \cup {c.next},
                         !.used["old"] = @ + r.size, !.count["old"] = @ + 1]

LEMMA AddedIsTyped ==
  ASSUME NEW c \in Typed, NEW r \in Nodes, c.next \in Ids
  PROVE  Added(c, r) \in Typed
  <1> DEFINE n  == c.next
             c1 == [c EXCEPT !.next = @ + 1]
             c2 == [c1 EXCEPT !.node[n] = r]
             c3 == [c2 EXCEPT !.ht = @ \cup {n}]
             c4 == WithUsed(c3, "old", c3.used["old"] + r.size)
             c5 == WithCount(c4, "old", c4.count["old"] + 1)
  <1>1. r.size \in Nat /\ "old" \in Levels
    BY DEF Levels, Nodes
  <1>2. c1 \in Typed
    BY DEF Typed
  <1>3. c2 \in Typed
    BY <1>2 DEF Typed
  <1>4. c3 \in Typed
    BY <1>3 DEF Typed
  <1>5. Added(c, r) = c5
    BY DEF WithUsed, WithCount, Added
  <1> HIDE DEF c3
  <1>6. c3.used["old"] + r.size \in Int
    BY <1>1, <1>4, TypedFields
  <1>7. c4 \in Typed
    BY <1>1, <1>4, <1>6, UsedShrinks, ShrunkIsTyped
  <1> HIDE DEF c4
  <1>8. c4.count["old"] + 1 \in Int
    BY <1>1, <1>7, TypedFields
  <1> QED
    BY <1>1, <1>5, <1>7, <1>8, CountShrinks, ShrunkIsTyped

(* A new entry for a key that has none. *)
LEMMA SettingAdds ==
  ASSUME NEW c \in Typed, NEW L, NEW k \in Keys, NEW v \in Values, Sound(c, L),
         Absent(c, k), v = L[k], c.next \in Ids, ~ Buffered => c.ht = {}
  PROVE  /\ ShikiSet(c, k, k, v) \in Typed /\ Sound(ShikiSet(c, k, k, v), L)
         /\ ~ Buffered => ShikiSet(c, k, k, v).ht = {}
  <1> DEFINE n == c.next
             node == [c.node EXCEPT ![n] = NewNode(k, k, v)]
             used == [c.used EXCEPT !["old"] = @ + SizeOf[v]]
             count == [c.count EXCEPT !["old"] = @ + 1]
             added == Added(c, NewNode(k, k, v))
  <1>1. CASE ~ Buffered
    BY <1>1 DEF ShikiSet
  <1>2. CASE Buffered
    <2>1. HtGet(c, k) = NULL
      BY Searching DEF Absent
    <2>2. /\ NewNode(k, k, v) \in Nodes /\ NewNode(k, k, v).name = k
          /\ NewNode(k, k, v).val = v /\ NewNode(k, k, v).size = SizeOf[v]
      BY DbAssumption DEF NewNode, Nodes, Names, Values, NULL
    <2>3. /\ added.ht = c.ht \cup {n} /\ added.next = n + 1
          /\ added.node = node
          /\ added.used = used /\ added.count = count
          /\ added.first = c.first /\ added.last = c.last /\ added.fault = c.fault
      BY <2>2 DEF Typed, Added
    <2>4. added \in Typed
      BY <2>2, AddedIsTyped
    <2>5. Sound(added, L)
      <3>1. \A m \in c.ht : m \in Int /\ m < n
        BY IdsAreIntegers DEF Sound, Typed
      <3>2. n \in Int /\ n \notin c.ht
        BY <3>1 DEF Typed
      <3>3. \A m \in c.ht : node[m] = c.node[m]
        BY <3>2 DEF Typed
      <3>4. node[n] = NewNode(k, k, v)
        BY DEF Typed
      <3> HIDE DEF node, used, count, added
      <3>5. \A m \in added.ht : m < added.next /\ added.node[m].name \in Keys
        BY <2>2, <2>3, <3>1, <3>2, <3>3, <3>4 DEF Sound
      <3>6. \A m \in added.ht : added.node[m].val = L[added.node[m].name]
        BY <2>2, <2>3, <3>3, <3>4 DEF Sound
      <3>7. \A m, q \in added.ht : added.node[m].name = added.node[q].name => m = q
        BY <2>2, <2>3, <3>3, <3>4 DEF Sound, Absent
      <3> QED
        BY <3>5, <3>6, <3>7 DEF Sound
    <2>6. ShikiSet(c, k, k, v) = SetNode(added, n)
      BY <1>2, <2>1, <2>2 DEF ShikiSet, Added
    <2> HIDE DEF node, used, count, added
    <2> QED
      BY <1>2, <2>4, <2>5, <2>6, SetNodeShrinks, ShrunkIsTyped, ShrinkingKeepsSound
  <1> QED
    BY <1>1, <1>2

-----------------------------------------------------------------------------
(* Answers *)

Written(v) == IF v = Deleted THEN None ELSE v

(* What a key's lookup should find: the memtables, the newer one first, and *)
(* then the sorted files.                                                  *)
Stored(k) == CASE list[k] # None -> Written(list[k])
               [] list[k] = None /\ park[k] # None -> Written(park[k])
               [] list[k] = None /\ park[k] = None -> store[k]

IndexTyped ==
  /\ list \in Maps /\ park \in Maps /\ store \in [Keys -> Values \cup {None}]
  /\ latest \in [Keys -> Values \cup {None}] /\ writes \in Nat

CallTyped ==
  /\ op = [key |-> op.key, val |-> op.val, ret |-> op.ret]
  /\ pc \in {"idle", "write", "miss", "cache", "got", "fault"}
  /\ pc \in {"write", "miss", "cache"} => op.key \in Keys
  /\ pc = "write" => op.val \in Values \cup {Deleted}
  /\ pc \in {"miss", "cache"} => cache.next \in Ids

IndexIsLatest == \A k \in Keys : latest[k] = Stored(k)

(* As long as nothing has been garbled or passed over, the cache has one   *)
(* entry a key at most, with its latest value, and none for the key of a   *)
(* call between its removal and its write, or its search and its entry.    *)
CacheIsLatest ==
  hazards = {} =>
    /\ cache \in Typed /\ Sound(cache, latest) /\ (~ Buffered => cache.ht = {})
    /\ pc \in {"write", "miss", "cache"} => Absent(cache, op.key)
    /\ pc = "cache" => op.ret \in Values /\ op.ret = latest[op.key]

IInv == IndexTyped /\ CallTyped /\ IndexIsLatest /\ CacheIsLatest /\ AnswersAreLatest

LEMMA ValuesAreNot == None \notin Values /\ Deleted \notin Values /\ Deleted # None
  BY DbAssumption DEF Values, None, Deleted

LEMMA InitInv == Init => IInv
  <1> SUFFICES ASSUME Init PROVE IInv
    OBVIOUS
  <1>1. IndexTyped
    BY DEF Init, IndexTyped, Empty, Maps
  <1>2. CallTyped
    BY DEF Init, CallTyped, NoOp
  <1>3. IndexIsLatest
    BY ValuesAreNot DEF Init, IndexIsLatest, Empty, Stored
  <1>4. NewCache \in Typed /\ NewCache.ht = {}
    <2>1. NoNode \in Nodes
      BY DEF NoNode, Nodes, Names, None, NULL
    <2> QED
      BY <2>1 DEF NewCache, Typed
  <1>5. CacheIsLatest
    BY <1>4 DEF Init, CacheIsLatest, Sound
  <1>6. AnswersAreLatest
    BY DEF Init, AnswersAreLatest
  <1> QED
    BY <1>1, <1>2, <1>3, <1>5, <1>6 DEF IInv

(* Calls that do not touch what is stored. *)
LEMMA StoredStays ==
  ASSUME IndexTyped, IndexIsLatest, UNCHANGED <<index, latest, writes>>
  PROVE  IndexTyped' /\ IndexIsLatest'
  BY DEF IndexTyped, IndexIsLatest, Stored, index

LEMMA FindFindsStored ==
  ASSUME IndexTyped, NEW k \in Keys, ~ PassedOver(k)
  PROVE  Find(k) = Stored(k) /\ Find(k) \in Values \cup {None}
  <1>1. /\ list[k] \in Values \cup {None, Deleted}
        /\ park[k] \in Values \cup {None, Deleted}
        /\ store[k] \in Values \cup {None}
    BY DEF IndexTyped, Maps
  <1>2. CASE list[k] # None
    BY <1>1, <1>2, ValuesAreNot DEF Find, Stored, Written
  <1>3. CASE list[k] = None
    <2>1. CASE park[k] \in Values
      BY <1>1, <1>3, <2>1, ValuesAreNot DEF Find, Stored, Written
    <2>2. CASE park[k] = Deleted
      BY <1>1, <1>3, <2>2, ValuesAreNot DEF Find, Stored, Written, PassedOver
    <2>3. CASE park[k] = None
      BY <1>1, <1>3, <2>3, ValuesAreNot DEF Find, Stored
    <2> QED
      BY <1>1, <2>1, <2>2, <2>3
  <1> QED
    BY <1>2, <1>3

LEMMA WriteKeepsInv ==
  ASSUME IInv, NEW k \in Keys, NEW v \in Values \cup {Deleted}, Write(k, v)
  PROVE  IInv'
  <1> USE DEF IInv
  <1>1. IndexTyped' /\ IndexIsLatest'
    BY StoredStays DEF Write
  <1>2. CallTyped'
    BY DEF Write, CallTyped, NoOp
  <1>3. CacheIsLatest'
    <2> SUFFICES ASSUME hazards = {}
                 PROVE  /\ cache' \in Typed /\ Sound(cache', latest)
                        /\ ~ Buffered => cache'.ht = {}
                        /\ Absent(cache', k)
      BY DEF CacheIsLatest, Write, NoOp
    <2>1. cache' = ShikiRemove(cache, k)
      BY DEF Write
    <2>2. Shrinks(cache, cache') /\ Absent(cache', k)
      BY <2>1, RemovingRemoves DEF CacheIsLatest
    <2>3. Sound(cache', latest)
      BY <2>2, ShrinkingKeepsSound DEF CacheIsLatest
    <2> QED
      BY <2>2, <2>3 DEF Shrinks, CacheIsLatest
  <1>4. AnswersAreLatest'
    BY DEF Write, AnswersAreLatest
  <1> QED
    BY <1>1, <1>2, <1>3, <1>4

LEMMA IndexAddKeepsInv ==
  ASSUME IInv, IndexAdd
  PROVE  IInv'
  <1> USE DEF IInv
  <1>0. /\ op.key \in Keys /\ op.val \in Values \cup {Deleted} /\ op.val # None
        /\ Written(op.val) \in Values \cup {None}
        /\ latest' = [latest EXCEPT ![op.key] = Written(op.val)]
    BY ValuesAreNot DEF IndexAdd, CallTyped, Written
  <1>1. IndexTyped'
    BY <1>0 DEF IndexAdd, IndexTyped, Maps, Empty
  <1>2. CallTyped'
    BY DEF IndexAdd, CallTyped, NoOp
  <1>3. IndexIsLatest'
    <2> SUFFICES ASSUME NEW k \in Keys PROVE latest'[k] = Stored(k)'
      BY DEF IndexIsLatest
    <2>1. CASE k = op.key
      <3>1. list'[k] = op.val /\ latest'[k] = Written(op.val)
        BY <1>0, <2>1 DEF IndexAdd, IndexTyped, Maps, Empty
      <3> QED
        BY <1>0, <3>1 DEF Stored
    <2>2. CASE k # op.key
      <3>1. latest'[k] = Stored(k)
        BY <1>0, <2>2 DEF IndexIsLatest, IndexTyped
      <3>2. CASE list' = [list EXCEPT ![op.key] = op.val] /\ UNCHANGED park
        BY <2>2, <3>1, <3>2 DEF IndexAdd, Stored, IndexTyped, Maps
      <3>3. CASE /\ park = Empty /\ park' = list
                 /\ list' = [Empty EXCEPT ![op.key] = op.val]
        <4>1. list'[k] = None /\ park'[k] = list[k] /\ park[k] = None
          BY <1>0, <2>2, <3>3 DEF Empty
        <4>2. store' = store
          BY DEF IndexAdd
        <4> QED
          BY <3>1, <4>1, <4>2 DEF Stored
      <3> QED
        BY <3>2, <3>3 DEF IndexAdd
    <2> QED
      BY <2>1, <2>2
  <1>4. CacheIsLatest'
    <2> SUFFICES ASSUME hazards = {}
                 PROVE  cache \in Typed /\ Sound(cache, latest') /\ (~ Buffered => cache.ht = {})
      BY DEF CacheIsLatest, IndexAdd
    <2>1. Sound(cache, latest) /\ Absent(cache, op.key) /\ cache \in Typed
      BY DEF CacheIsLatest, IndexAdd
    <2>2. \A n \in cache.ht : latest'[cache.node[n].name] = latest[cache.node[n].name]
      BY <1>0, <2>1 DEF Sound, Absent, IndexTyped
    <2> QED
      BY <2>1, <2>2 DEF Sound, CacheIsLatest
  <1>5. AnswersAreLatest'
    BY DEF IndexAdd, AnswersAreLatest
  <1> QED
    BY <1>1, <1>2, <1>3, <1>4, <1>5

LEMMA GetKeepsInv ==
  ASSUME IInv, NEW k \in Keys, Get(k)
  PROVE  IInv'
  <1> USE DEF IInv
  <1> DEFINE n == ShikiGet(cache, k)
  <1>1. IndexTyped' /\ IndexIsLatest'
    BY StoredStays DEF Get
  <1>2. CASE n = NULL
    <2>0. /\ cache.next \in Ids /\ pc' = "miss" /\ op' = [NoOp EXCEPT !.key = k]
          /\ UNCHANGED cache
      BY <1>2 DEF Get
    <2>1. CallTyped'
      BY <2>0 DEF CallTyped, NoOp
    <2>2. hazards = {} => Absent(cache, k)
      BY <1>2, Searching, IdsAreIntegers DEF CacheIsLatest, ShikiGet, Typed, Absent
    <2>3. CacheIsLatest'
      BY <2>0, <2>2 DEF CacheIsLatest, NoOp, Get
    <2>4. AnswersAreLatest'
      BY <2>0 DEF AnswersAreLatest
    <2> QED
      BY <1>1, <2>1, <2>3, <2>4
  <1>3. CASE n # NULL
    <2>0. /\ cache' = SetNode(cache, n)
          /\ pc' \in {"fault", "got"}
          /\ op' = [NoOp EXCEPT !.key = k, !.ret = cache.node[n].val]
          /\ UNCHANGED <<hazards, latest>>
      BY <1>3 DEF Get
    <2>1. CallTyped'
      BY <2>0 DEF CallTyped, NoOp
    <2>2. hazards = {} => n \in cache.ht /\ n \in Ids /\ cache.node[n].name = k
      BY <1>3, Searching DEF CacheIsLatest, ShikiGet, Typed
    <2> HIDE DEF n
    <2>3. CacheIsLatest'
      <3> SUFFICES ASSUME hazards = {}
                   PROVE  /\ cache' \in Typed /\ Sound(cache', latest)
                          /\ ~ Buffered => cache'.ht = {}
        BY <2>0 DEF CacheIsLatest
      <3>1. Shrinks(cache, cache')
        BY <2>0, <2>2, SetNodeShrinks DEF CacheIsLatest
      <3>2. Sound(cache', latest)
        BY <3>1, ShrinkingKeepsSound DEF CacheIsLatest
      <3> QED
        BY <3>1, <3>2 DEF Shrinks, CacheIsLatest
    <2>4. AnswersAreLatest'
      BY <2>0, <2>2 DEF AnswersAreLatest, CacheIsLatest, Sound, NoOp
    <2> QED
      BY <1>1, <2>1, <2>3, <2>4
  <1> QED
    BY <1>2, <1>3

LEMMA IndexGetKeepsInv ==
  ASSUME IInv, IndexGet
  PROVE  IInv'
  <1> USE DEF IInv
  <1>0. op.key \in Keys /\ op' = [op EXCEPT !.ret = Find(op.key)]
    BY DEF IndexGet, CallTyped
  <1>1. IndexTyped' /\ IndexIsLatest'
    BY StoredStays DEF IndexGet
  <1>2. op'.key = op.key /\ op'.ret = Find(op.key) /\ CallTyped'
    BY <1>0 DEF IndexGet, CallTyped
  <1>3. hazards' = {} => /\ hazards = {} /\ Find(op.key) = latest[op.key]
                         /\ Find(op.key) \in Values \cup {None}
    BY <1>0, FindFindsStored DEF IndexGet, Named, IndexIsLatest
  <1>4. CacheIsLatest'
    BY <1>2, <1>3 DEF CacheIsLatest, IndexGet
  <1>5. AnswersAreLatest'
    BY <1>2, <1>3 DEF AnswersAreLatest, IndexGet
  <1> QED
    BY <1>1, <1>2, <1>4, <1>5

LEMMA CacheKeepsInv ==
  ASSUME IInv, Cache
  PROVE  IInv'
  <1> USE DEF IInv
  <1>0. op.key \in Keys /\ cache.next \in Ids /\ UNCHANGED <<op, latest>>
    BY DEF Cache, CallTyped
  <1>1. IndexTyped' /\ IndexIsLatest'
    BY StoredStays DEF Cache
  <1>2. CallTyped' /\ pc' \in {"fault", "got"}
    BY DEF Cache, CallTyped
  <1>3. hazards' = {} => hazards = {} /\ cache' = ShikiSet(cache, op.key, op.key, op.ret)
    BY DEF Cache
  <1>4. CacheIsLatest'
    <2> SUFFICES ASSUME hazards = {}, cache' = ShikiSet(cache, op.key, op.key, op.ret)
                 PROVE  /\ cache' \in Typed /\ Sound(cache', latest)
                        /\ ~ Buffered => cache'.ht = {}
      BY <1>0, <1>2, <1>3 DEF CacheIsLatest
    <2>1. /\ cache \in Typed /\ Sound(cache, latest) /\ (~ Buffered => cache.ht = {})
          /\ Absent(cache, op.key) /\ op.ret \in Values /\ op.ret = latest[op.key]
      BY DEF CacheIsLatest, Cache
    <2> QED
      BY <1>0, <2>1, SettingAdds
  <1>5. AnswersAreLatest'
    BY <1>0, <1>3 DEF AnswersAreLatest, CacheIsLatest, Cache
  <1> QED
    BY <1>1, <1>2, <1>4, <1>5

LEMMA ExistsKeepsInv ==
  ASSUME IInv, NEW k \in Keys, Exists(k)
  PROVE  IInv'
  <1> USE DEF IInv
  <1>1. IndexTyped' /\ IndexIsLatest'
    BY StoredStays DEF Exists
  <1>2. CallTyped'
    BY DEF Exists, CallTyped, NoOp
  <1>3. hazards' = {} => hazards = {} /\ Find(k) = latest[k]
    BY FindFindsStored DEF Exists, Named, IndexIsLatest
  <1>4. CacheIsLatest'
    BY <1>3 DEF CacheIsLatest, Exists
  <1>5. AnswersAreLatest'
    BY <1>3 DEF AnswersAreLatest, Exists, NoOp
  <1> QED
    BY <1>1, <1>2, <1>4, <1>5

LEMMA DoneKeepsInv ==
  ASSUME IInv, Done
  PROVE  IInv'
  <1> USE DEF IInv
  <1>1. IndexTyped' /\ IndexIsLatest'
    BY StoredStays DEF Done
  <1>2. CallTyped'
    BY DEF Done, CallTyped, NoOp
  <1>3. CacheIsLatest' /\ AnswersAreLatest'
    BY DEF CacheIsLatest, AnswersAreLatest, Done
  <1> QED
    BY <1>1, <1>2, <1>3

LEMMA MergeDoneKeepsInv ==
  ASSUME IInv, MergeDone
  PROVE  IInv'
  <1> USE DEF IInv
  <1>0. \A k \in Keys : /\ list[k] \in Values \cup {None, Deleted}
                       /\ park[k] \in Values \cup {None, Deleted}
                       /\ store[k] \in Values \cup {None}
                       /\ park'[k] = None /\ list'[k] = list[k]
                       /\ store'[k] = IF park[k] = None THEN store[k] ELSE Written(park[k])
    BY ValuesAreNot DEF MergeDone, IndexTyped, Maps, Empty, Written
  <1>1. IndexTyped'
    BY <1>0, ValuesAreNot DEF MergeDone, IndexTyped, Maps, Empty
  <1>2. IndexIsLatest'
    <2> SUFFICES ASSUME NEW k \in Keys PROVE Stored(k)' = Stored(k)
      BY DEF IndexIsLatest, MergeDone
    <2>1. CASE list[k] # None
      BY <1>0, <2>1 DEF Stored
    <2>2. CASE list[k] = None
      BY <1>0, <2>2 DEF Stored
    <2> QED
      BY <2>1, <2>2
  <1>3. CallTyped' /\ CacheIsLatest' /\ AnswersAreLatest'
    BY DEF MergeDone, CallTyped, CacheIsLatest, AnswersAreLatest
  <1> QED
    BY <1>1, <1>2, <1>3

LEMMA StepKeepsInv == IInv /\ [Next]_vars => IInv'
  <1> SUFFICES ASSUME IInv, [Next]_vars PROVE IInv'
    OBVIOUS
  <1>1. ASSUME NEW k \in Keys, Add(k) PROVE IInv'
    <2>1. writes + 1 \in Values
      BY <1>1, DbAssumption DEF Add, IInv, IndexTyped, Values
    <2> QED
      BY <1>1, <2>1, WriteKeepsInv DEF Add
  <1>2. ASSUME NEW k \in Keys, Remove(k) PROVE IInv'
    BY <1>2, WriteKeepsInv DEF Remove
  <1>3. ASSUME NEW k \in Keys, Get(k) PROVE IInv'
    BY <1>3, GetKeepsInv
  <1>4. ASSUME NEW k \in Keys, Exists(k) PROVE IInv'
    BY <1>4, ExistsKeepsInv
  <1>5. CASE UNCHANGED vars
    BY <1>5 DEF vars, index, IInv, IndexTyped, CallTyped, IndexIsLatest, Stored,
                CacheIsLatest, AnswersAreLatest
  <1> QED
    BY <1>1, <1>2, <1>3, <1>4, <1>5, IndexAddKeepsInv, IndexGetKeepsInv, CacheKeepsInv,
       DoneKeepsInv, MergeDoneKeepsInv DEF Next, Fault

(* GET and EXISTS answer with the last value written, for any keys, sizes, *)
(* buffer and number of writes, and wherever merges end; unless a cached   *)
(* key has taken in the bytes behind it, or a parked delete was passed     *)
(* over (db.c:59-99).                                                      *)
THEOREM AnswersStayLatest == Spec => []AnswersAreLatest
  <1>1. IInv => AnswersAreLatest
    BY DEF IInv
  <1> QED
    BY <1>1, InitInv, StepKeepsInv, PTL DEF Spec


-----------------------------------------------------------------------------
(* Sums *)

(* The bytes of a set of nodes, byte by byte. *)
Units(c, S) == {p \in S \X Nat : 1 <= p[2] /\ p[2] <= c.node[p[1]].size}
Bytes(c, S) == MapThenSumSet(LAMBDA n : c.node[n].size, S)
Sized(c, S) == \A n \in S : c.node[n].size \in Nat

LEMMA UnitsOfOne ==
  ASSUME NEW c, NEW n, c.node[n].size \in Nat
  PROVE  IsFiniteSet(Units(c, {n})) /\ Cardinality(Units(c, {n})) = c.node[n].size
  <1> DEFINE k == c.node[n].size
             f == [i \in 1 .. k |-> <<n, i>>]
  <1>1. f \in [1 .. k -> Units(c, {n})]
    BY DEF Units
  <1>2. \A i, j \in 1 .. k : f[i] = f[j] => i = j
    OBVIOUS
  <1>3. \A p \in Units(c, {n}) : \E i \in 1 .. k : f[i] = p
    <2> TAKE p \in Units(c, {n})
    <2>1. p[2] \in 1 .. k /\ p = <<n, p[2]>>
      BY DEF Units
    <2> QED
      BY <2>1
  <1>4. IsFiniteSet(1 .. k) /\ Cardinality(1 .. k) = k
    <2> HIDE DEF k
    <2>1. k \in Nat
      BY DEF k
    <2>2. \A i, j \in Int : /\ IsFiniteSet(i .. j)
                           /\ Cardinality(i .. j) = IF i > j THEN 0 ELSE j - i + 1
      BY FS_Interval
    <2> QED
      BY <2>1, <2>2
  <1> HIDE DEF f
  <1>5. f \in Bijection(1 .. k, Units(c, {n}))
    BY <1>1, <1>2, <1>3 DEF Bijection, Injection, Surjection, IsInjective
  <1>6. ExistsBijection(1 .. k, Units(c, {n}))
    BY <1>5 DEF ExistsBijection
  <1> QED
    BY <1>4, <1>6, FS_Bijection

LEMMA UnitsOfMore ==
  ASSUME NEW c, NEW S, NEW n, n \notin S, IsFiniteSet(Units(c, S)), c.node[n].size \in Nat
  PROVE  /\ IsFiniteSet(Units(c, S \cup {n}))
         /\ Cardinality(Units(c, S \cup {n})) = Cardinality(Units(c, S)) + c.node[n].size
  <1>1. Units(c, S \cup {n}) = Units(c, S) \cup Units(c, {n})
    BY DEF Units
  <1>2. Units(c, S) \cap Units(c, {n}) = {}
    BY DEF Units
  <1>3. IsFiniteSet(Units(c, {n})) /\ Cardinality(Units(c, {n})) = c.node[n].size
    BY UnitsOfOne
  <1>4. Cardinality(Units(c, S)) \in Nat
    BY FS_CardinalityType
  <1>5. /\ IsFiniteSet(Units(c, S) \cup Units(c, {n}))
        /\ Cardinality(Units(c, S) \cup Units(c, {n}))
             = Cardinality(Units(c, S)) + Cardinality(Units(c, {n}))
                 - Cardinality(Units(c, S) \cap Units(c, {n}))
    BY <1>3, FS_Union
  <1>6. PICK a \in Nat : a = Cardinality(Units(c, S))
    BY <1>4
  <1>7. PICK b \in Nat : b = c.node[n].size
    OBVIOUS
  <1>8. Cardinality({}) = 0
    BY FS_EmptySet
  <1>9. Cardinality(Units(c, S \cup {n})) = a + b - 0
    BY <1>1, <1>2, <1>3, <1>5, <1>6, <1>7, <1>8, Zenon
  <1>10. IsFiniteSet(Units(c, S \cup {n}))
    BY <1>1, <1>5
  <1> QED
    BY <1>6, <1>7, <1>9, <1>10

LEMMA UnitsAreFinite ==
  ASSUME NEW c, NEW S, IsFiniteSet(S), Sized(c, S)
  PROVE  IsFiniteSet(Units(c, S))
  <1> DEFINE Bad == {T \in SUBSET S : ~ IsFiniteSet(Units(c, T))}
  <1>1. IsWellFoundedOn(StrictSubsetOrdering(S), FiniteSubsetsOf(S))
    BY FS_StrictSubsetOrderingWellFounded
  <1>2. Bad \subseteq FiniteSubsetsOf(S)
    BY FS_Subset DEF FiniteSubsetsOf
  <1>3. CASE Bad = {}
    BY <1>3
  <1>4. CASE Bad # {}
    <2>1. PICK T \in Bad : \A U \in Bad : ~ (<<U, T>> \in StrictSubsetOrdering(S))
      BY <1>1, <1>2, <1>4, WFMin
    <2>2. CASE T = {}
      <3>1. Units(c, {}) = {}
        BY DEF Units
      <3> QED
        BY <2>1, <2>2, <3>1, FS_EmptySet
    <2>3. CASE T # {}
      <3>1. PICK n \in T : TRUE
        BY <2>3
      <3>2. IsFiniteSet(Units(c, T \ {n}))
        <4>1. T \ {n} \notin Bad
          BY <2>1, <3>1 DEF StrictSubsetOrdering
        <4> QED
          BY <4>1
      <3>3. c.node[n].size \in Nat /\ (T \ {n}) \cup {n} = T
        BY <2>1, <3>1 DEF Sized
      <3>4. IsFiniteSet(Units(c, (T \ {n}) \cup {n}))
        BY <3>2, <3>3, UnitsOfMore
      <3> QED
        BY <2>1, <3>3, <3>4
    <2> QED
      BY <2>2, <2>3
  <1> QED
    BY <1>3, <1>4

(* MapThenSumSet, whose definition recurs over subsets, counts the units.  *)
LEMMA BytesAreUnits ==
  ASSUME NEW c, NEW S, IsFiniteSet(S), Sized(c, S)
  PROVE  Bytes(c, S) = Cardinality(Units(c, S))
  <1> DEFINE Of(s)   == CHOOSE x \in s : TRUE
             F(f)    == [s \in SUBSET S |-> IF s = {} THEN 0
                           ELSE c.node[Of(s)].size + f[s \ {Of(s)}]]
             h       == [s \in SUBSET S |-> Cardinality(Units(c, s))]
             sum     == CHOOSE f : f = F(f)
  <1>1. Bytes(c, S) = sum[S]
    BY DEF Bytes, MapThenSumSet, MapThenFoldSet
  <1>2. ASSUME NEW s \in SUBSET S, s # {}
        PROVE  /\ Of(s) \in s /\ s \ {Of(s)} \in SUBSET S
               /\ Cardinality(Units(c, s))
                    = c.node[Of(s)].size + Cardinality(Units(c, s \ {Of(s)}))
    <2>1. Of(s) \in s
      BY <1>2
    <2>2. PICK n : n = Of(s)
      OBVIOUS
    <2> HIDE DEF Of
    <2>3. n \in s /\ s = (s \ {n}) \cup {n} /\ c.node[n].size \in Nat /\ s \ {n} \in SUBSET S
      BY <2>1, <2>2 DEF Sized
    <2>4. IsFiniteSet(s \ {n}) /\ Sized(c, s \ {n})
      BY <2>3, FS_Subset DEF Sized
    <2>5. IsFiniteSet(Units(c, s \ {n})) /\ Cardinality(Units(c, s \ {n})) \in Nat
      BY <2>4, UnitsAreFinite, FS_CardinalityType
    <2>6. Cardinality(Units(c, (s \ {n}) \cup {n}))
            = Cardinality(Units(c, s \ {n})) + c.node[n].size
      BY <2>3, <2>5, UnitsOfMore
    <2>7. PICK a \in Nat : a = Cardinality(Units(c, s \ {n}))
      BY <2>5
    <2>8. Cardinality(Units(c, s)) = c.node[n].size + Cardinality(Units(c, s \ {n}))
      <3>1. Cardinality(Units(c, s)) = a + c.node[n].size
        BY <2>3, <2>6, <2>7
      <3> QED
        BY <2>3, <2>7, <3>1
    <2> QED
      BY <2>1, <2>2, <2>3, <2>8
  <1>3. Cardinality(Units(c, {})) = 0
    <2>1. Units(c, {}) = {}
      BY DEF Units
    <2> QED
      BY <2>1, FS_EmptySet
  <1> HIDE DEF Of
  <1>4. h = F(h)
    <2>1. \A s \in SUBSET S :
            h[s] = IF s = {} THEN 0 ELSE c.node[Of(s)].size + h[s \ {Of(s)}]
      BY <1>2, <1>3
    <2>2. h = [s \in SUBSET S |-> h[s]]
      OBVIOUS
    <2> HIDE DEF h
    <2> QED
      BY <2>1, <2>2
  <1>5. sum = F(sum)
    <2> HIDE DEF h
    <2> QED
      BY <1>4
  <1> HIDE DEF sum
  <1>6. \A s \in SUBSET S : sum[s] = IF s = {} THEN 0 ELSE c.node[Of(s)].size + sum[s \ {Of(s)}]
    BY <1>5
  <1> DEFINE Bad == {s \in SUBSET S : sum[s] # Cardinality(Units(c, s))}
  <1>7. IsWellFoundedOn(StrictSubsetOrdering(S), FiniteSubsetsOf(S))
    BY FS_StrictSubsetOrderingWellFounded
  <1>8. Bad \subseteq FiniteSubsetsOf(S)
    BY FS_Subset DEF FiniteSubsetsOf
  <1>9. CASE Bad = {}
    BY <1>1, <1>9
  <1>10. CASE Bad # {}
    <2>1. PICK s \in Bad : \A u \in Bad : ~ (<<u, s>> \in StrictSubsetOrdering(S))
      <3> HIDE DEF Bad
      <3> QED
        BY <1>7, <1>8, <1>10, WFMin
    <2>2. s # {}
      BY <1>3, <1>6, <2>1
    <2>3. Of(s) \in s /\ s \ {Of(s)} \in SUBSET S
      BY <1>2, <2>1, <2>2
    <2>4. s \ {Of(s)} \notin Bad
      <3>1. PICK u : u = s \ {Of(s)}
        OBVIOUS
      <3>2. u \in SUBSET S /\ s \in SUBSET S /\ u \subseteq s /\ u # s
        BY <2>1, <2>3, <3>1
      <3>3. <<u, s>> \in StrictSubsetOrdering(S)
        BY <3>2 DEF StrictSubsetOrdering
      <3> QED
        BY <2>1, <3>1, <3>3
    <2>5. sum[s \ {Of(s)}] = Cardinality(Units(c, s \ {Of(s)}))
      BY <2>3, <2>4
    <2> QED
      BY <1>2, <1>6, <2>1, <2>2, <2>5
  <1> QED
    BY <1>9, <1>10


LEMMA BytesOfMore ==
  ASSUME NEW c, NEW S, NEW n, n \notin S, IsFiniteSet(S), Sized(c, S \cup {n})
  PROVE  /\ Bytes(c, S) \in Nat /\ c.node[n].size \in Nat
         /\ Bytes(c, S \cup {n}) = Bytes(c, S) + c.node[n].size
  <1>1. Sized(c, S) /\ c.node[n].size \in Nat /\ IsFiniteSet(S \cup {n})
    BY FS_AddElement DEF Sized
  <1>2. Bytes(c, S) = Cardinality(Units(c, S)) /\ IsFiniteSet(Units(c, S))
    BY <1>1, BytesAreUnits, UnitsAreFinite
  <1>3. Bytes(c, S \cup {n}) = Cardinality(Units(c, S \cup {n}))
    BY <1>1, BytesAreUnits
  <1>4. Cardinality(Units(c, S \cup {n})) = Cardinality(Units(c, S)) + c.node[n].size
    BY <1>1, <1>2, UnitsOfMore
  <1>5. Cardinality(Units(c, S)) \in Nat
    BY <1>2, FS_CardinalityType
  <1> QED
    BY <1>1, <1>2, <1>3, <1>4, <1>5, Zenon

LEMMA BytesAreOfSizes ==
  ASSUME NEW c, NEW d, NEW S, IsFiniteSet(S), Sized(c, S),
         \A n \in S : d.node[n].size = c.node[n].size
  PROVE  Bytes(d, S) = Bytes(c, S) /\ Bytes(c, S) \in Nat
  <1>1. Sized(d, S)
    BY DEF Sized
  <1>2. Units(d, S) = Units(c, S)
    BY DEF Units
  <1>3. Cardinality(Units(c, S)) \in Nat
    BY UnitsAreFinite, FS_CardinalityType
  <1> QED
    BY <1>1, <1>2, <1>3, BytesAreUnits

LEMMA BytesOfNone ==
  ASSUME NEW c
  PROVE  Bytes(c, {}) = 0
  <1>1. Units(c, {}) = {} /\ Sized(c, {})
    BY DEF Units, Sized
  <1> QED
    BY <1>1, BytesAreUnits, FS_EmptySet

-----------------------------------------------------------------------------
(* Accounts *)

In(c, l) == {n \in c.ht : LevelOf(c, n) = l}

Exact(c) == \A l \in Levels : /\ c.used[l] = Bytes(c, In(c, l))
                              /\ c.count[l] = Cardinality(In(c, l))

(* Nothing ever sets a node's pre or a level's last (level.c:46, 66): a *)
(* level is only added to at its head, and a removal resets its first.     *)
HeadsOnly(c) == /\ \A n \in Ids : c.node[n].pre = NULL
                /\ \A l \in Levels : c.last[l] = NULL

(* Hits count up from 1 until the node is hot. *)
Counted(c) == \A n \in c.ht : c.node[n].hits = Hot \/ c.node[n].hits \in Nat \ {0}

Accounted(c) == /\ c \in Typed /\ HeadsOnly(c) /\ Counted(c) /\ Exact(c)
           /\ \A n \in c.ht : n < c.next

LEMMA LevelsAre ==
  /\ "old" \in Levels /\ "new" \in Levels /\ Levels = {"old", "new"}
  /\ \A c, n : LevelOf(c, n) \in Levels
  BY DEF Levels, LevelOf

LEMMA InIsFinite ==
  ASSUME NEW c \in Typed
  PROVE  /\ c.ht \subseteq Ids /\ IsFiniteSet(c.ht) /\ Sized(c, c.ht)
         /\ \A l : IsFiniteSet(In(c, l)) /\ Sized(c, In(c, l)) /\ In(c, l) \subseteq c.ht
         /\ \A n \in Ids : c.node[n].size \in Nat
  <1>1. c.ht \subseteq Ids /\ \A n \in Ids : c.node[n].size \in Nat
    BY DEF Typed, Nodes
  <1>2. IsFiniteSet(Ids)
    BY DbAssumption, FS_Interval DEF Ids
  <1>3. IsFiniteSet(c.ht)
    BY <1>1, <1>2, FS_Subset
  <1>4. \A l : In(c, l) \subseteq c.ht
    BY DEF In
  <1>5. \A l : IsFiniteSet(In(c, l))
    BY <1>3, <1>4, FS_Subset
  <1> QED
    BY <1>1, <1>3, <1>4, <1>5 DEF Sized

(* A change that leaves every node in its level leaves the sums as they    *)
(* are.                                                                    *)
LEMMA SameLevels ==
  ASSUME NEW c, Accounted(c), NEW d \in Typed, HeadsOnly(d), Counted(d),
         d.ht = c.ht, d.next = c.next, d.used = c.used, d.count = c.count,
         \A n \in c.ht : d.node[n].size = c.node[n].size /\ LevelOf(d, n) = LevelOf(c, n)
  PROVE  Accounted(d)
  <1>1. \A l : In(d, l) = In(c, l)
    BY DEF In
  <1>2. c \in Typed /\ Exact(c) /\ \A n \in c.ht : n < c.next
    BY DEF Accounted
  <1>3. ASSUME NEW l \in Levels PROVE Bytes(d, In(c, l)) = Bytes(c, In(c, l))
    BY <1>2, InIsFinite, BytesAreOfSizes
  <1>4. Exact(d)
    BY <1>1, <1>2, <1>3 DEF Exact
  <1> QED
    BY <1>2, <1>4 DEF Accounted

(* A node of the old level becomes one of the new. *)
LEMMA Promoted ==
  ASSUME NEW c, Accounted(c), NEW d \in Typed, HeadsOnly(d), Counted(d),
         d.ht = c.ht, d.next = c.next, NEW n \in c.ht,
         LevelOf(c, n) = "old", LevelOf(d, n) = "new",
         \A i \in c.ht : d.node[i].size = c.node[i].size,
         \A i \in c.ht \ {n} : LevelOf(d, i) = LevelOf(c, i),
         d.used["old"] = c.used["old"] - c.node[n].size,
         d.used["new"] = c.used["new"] + c.node[n].size,
         d.count["old"] = c.count["old"] - 1, d.count["new"] = c.count["new"] + 1
  PROVE  Accounted(d)
  <1>1. c \in Typed /\ Exact(c) /\ \A i \in c.ht : i < c.next
    BY DEF Accounted
  <1>2. PICK O : O = In(d, "old")
    OBVIOUS
  <1>3. PICK N : N = In(c, "new")
    OBVIOUS
  <1>4. /\ In(c, "old") = O \cup {n} /\ n \notin O
        /\ In(d, "new") = N \cup {n} /\ n \notin N
    BY <1>2, <1>3 DEF In
  <1>5. /\ IsFiniteSet(O) /\ IsFiniteSet(N)
        /\ Sized(c, O \cup {n}) /\ Sized(c, N \cup {n}) /\ Sized(c, O) /\ Sized(c, N)
        /\ O \subseteq c.ht /\ N \subseteq c.ht
    BY <1>1, <1>2, <1>3, <1>4, InIsFinite DEF Sized
  <1>6. /\ Bytes(c, O) \in Nat /\ c.node[n].size \in Nat
        /\ Bytes(c, O \cup {n}) = Bytes(c, O) + c.node[n].size
    <2>1. n \notin O /\ IsFiniteSet(O) /\ Sized(c, O \cup {n})
      BY <1>4, <1>5
    <2>2. Bytes(c, O \cup {n}) = Bytes(c, O) + c.node[n].size
      BY <2>1, BytesOfMore
    <2>3. Bytes(c, O) \in Nat
      BY <2>1, BytesOfMore
    <2>4. c.node[n].size \in Nat
      BY <2>1 DEF Sized
    <2> QED
      BY <2>2, <2>3, <2>4
  <1>7. Bytes(c, N \cup {n}) = Bytes(c, N) + c.node[n].size
    <2>1. n \notin N /\ IsFiniteSet(N) /\ Sized(c, N \cup {n})
      BY <1>4, <1>5
    <2> QED
      BY <2>1, BytesOfMore
  <1>8. Bytes(d, O) = Bytes(c, O)
    BY <1>5, BytesAreOfSizes
  <1>9. Bytes(d, N \cup {n}) = Bytes(c, N \cup {n})
    <2>1. IsFiniteSet(N \cup {n})
      BY <1>5, FS_AddElement
    <2> QED
      BY <1>5, <2>1, BytesAreOfSizes
  <1>10. /\ Cardinality(O \cup {n}) = Cardinality(O) + 1 /\ Cardinality(O) \in Nat
         /\ Cardinality(N \cup {n}) = Cardinality(N) + 1 /\ Cardinality(N) \in Nat
    BY <1>4, <1>5, FS_AddElement, FS_CardinalityType
  <1>11. /\ c.used["old"] = Bytes(c, O \cup {n}) /\ c.used["new"] = Bytes(c, N)
         /\ c.count["old"] = Cardinality(O \cup {n}) /\ c.count["new"] = Cardinality(N)
    BY <1>1, <1>3, <1>4, LevelsAre DEF Exact
  <1>12. d.used["old"] = Bytes(d, O) /\ d.count["old"] = Cardinality(O)
    BY <1>6, <1>8, <1>10, <1>11
  <1>13. d.used["new"] = Bytes(d, N \cup {n}) /\ d.count["new"] = Cardinality(N \cup {n})
    BY <1>7, <1>9, <1>10, <1>11
  <1>14. Exact(d)
    BY <1>2, <1>4, <1>12, <1>13, LevelsAre DEF Exact
  <1> QED
    BY <1>1, <1>14 DEF Accounted


(* The links aside, a change of one level's count is all that taking a     *)
(* node out of its level or putting it at its head does to the accounts.   *)
Relinked(c, d) ==
  /\ d \in Typed /\ HeadsOnly(d)
  /\ d.ht = c.ht /\ d.next = c.next /\ d.used = c.used /\ d.fault = c.fault
  /\ \A n \in Ids : d.node[n].size = c.node[n].size /\ d.node[n].hits = c.node[n].hits

LEMMA RemoveLinkRelinks ==
  ASSUME NEW c \in Typed, HeadsOnly(c), NEW l \in Levels, NEW n \in Ids
  PROVE  /\ Relinked(c, RemoveLink(c, l, n))
         /\ RemoveLink(c, l, n).count = [c.count EXCEPT ![l] = @ - 1]
  <1> DEFINE c1 == WithCount(c, l, c.count[l] - 1)
             c2 == WithFirst(c1, l, c.node[n].nxt)
             c3 == WithNxt(c2, n, NULL)
  <1>1. RemoveLink(c, l, n) \in {c1, c3}
    BY DEF RemoveLink, HeadsOnly, WithCount, WithFirst, WithNxt
  <1>2. RemoveLink(c, l, n) \in Typed
    BY RemoveLinkShrinks, ShrunkIsTyped
  <1>3. /\ c1.ht = c.ht /\ c1.next = c.next /\ c1.used = c.used /\ c1.fault = c.fault
        /\ c1.node = c.node /\ c1.last = c.last /\ c1.count = [c.count EXCEPT ![l] = @ - 1]
    BY DEF WithCount, Typed
  <1>4. /\ c3.ht = c.ht /\ c3.next = c.next /\ c3.used = c.used /\ c3.fault = c.fault
        /\ c3.last = c.last /\ c3.count = [c.count EXCEPT ![l] = @ - 1]
        /\ c3.node = [c.node EXCEPT ![n] = [@ EXCEPT !.nxt = NULL]]
    BY DEF WithCount, WithFirst, WithNxt, Typed
  <1> HIDE DEF c1, c3
  <1>5. c.node \in [Ids -> Nodes]
    BY DEF Typed
  <1>6. \A i \in Ids : /\ c3.node[i].size = c.node[i].size
                       /\ c3.node[i].hits = c.node[i].hits
                       /\ c3.node[i].pre = c.node[i].pre
    BY <1>4, <1>5 DEF Nodes
  <1>7. \A d \in {c1, c3} :
          /\ d.ht = c.ht /\ d.next = c.next /\ d.used = c.used /\ d.fault = c.fault
          /\ d.last = c.last /\ d.count = [c.count EXCEPT ![l] = @ - 1]
          /\ \A i \in Ids : /\ d.node[i].size = c.node[i].size
                            /\ d.node[i].hits = c.node[i].hits
                            /\ d.node[i].pre = c.node[i].pre
    BY <1>3, <1>4, <1>6
  <1>8. HeadsOnly(RemoveLink(c, l, n))
    BY <1>1, <1>7 DEF HeadsOnly
  <1> QED
    BY <1>1, <1>2, <1>7, <1>8 DEF Relinked

LEMMA SetHeadRelinks ==
  ASSUME NEW c \in Typed, HeadsOnly(c), NEW l \in Levels, NEW n \in Ids
  PROVE  /\ Relinked(c, SetHead(c, l, n))
         /\ SetHead(c, l, n).count = [c.count EXCEPT ![l] = @ + 1]
  <1> DEFINE c1 == WithFirst(WithCount(c, l, c.count[l] + 1), l, n)
             c2 == WithNxt(WithPre(c1, n, NULL), n, c.first[l])
  <1>1. SetHead(c, l, n) \in {c1, c2}
    BY DEF SetHead, WithCount, WithFirst, WithPre, WithNxt
  <1>2. SetHead(c, l, n) \in Typed
    BY SetHeadShrinks, ShrunkIsTyped
  <1>3. /\ c1.ht = c.ht /\ c1.next = c.next /\ c1.used = c.used /\ c1.fault = c.fault
        /\ c1.node = c.node /\ c1.last = c.last /\ c1.count = [c.count EXCEPT ![l] = @ + 1]
    BY DEF WithCount, WithFirst, Typed
  <1>4. /\ c2.ht = c.ht /\ c2.next = c.next /\ c2.used = c.used /\ c2.fault = c.fault
        /\ c2.last = c.last /\ c2.count = [c.count EXCEPT ![l] = @ + 1]
        /\ c2.node = [c.node EXCEPT ![n] = [@ EXCEPT !.pre = NULL, !.nxt = c.first[l]]]
    BY DEF WithCount, WithFirst, WithPre, WithNxt, Typed
  <1> HIDE DEF c1, c2
  <1>5. c.node \in [Ids -> Nodes]
    BY DEF Typed
  <1>6. \A i \in Ids : /\ c2.node[i].size = c.node[i].size
                       /\ c2.node[i].hits = c.node[i].hits
                       /\ (c2.node[i].pre = c.node[i].pre \/ c2.node[i].pre = NULL)
    BY <1>4, <1>5, SMTT(30) DEF Nodes
  <1>7. \A d \in {c1, c2} :
          /\ d.ht = c.ht /\ d.next = c.next /\ d.used = c.used /\ d.fault = c.fault
          /\ d.last = c.last /\ d.count = [c.count EXCEPT ![l] = @ + 1]
          /\ \A i \in Ids : /\ d.node[i].size = c.node[i].size
                            /\ d.node[i].hits = c.node[i].hits
                            /\ (d.node[i].pre = c.node[i].pre \/ d.node[i].pre = NULL)
    BY <1>3, <1>4, <1>6
  <1>8. HeadsOnly(SetHead(c, l, n))
    BY <1>1, <1>7 DEF HeadsOnly
  <1> QED
    BY <1>1, <1>2, <1>7, <1>8 DEF Relinked

(* The node found and taken out of the hash table is freed. *)
LEMMA FreeingKeeps ==
  ASSUME NEW c, Accounted(c), NEW k, NEW n \in c.ht, n = HtGet(c, k)
  PROVE  Accounted(FreeNode(HtRemove(c, k), LevelOf(c, n), n))
  <1> DEFINE l == LevelOf(c, n)
             e == HtRemove(c, k)
             u == WithUsed(e, l, e.used[l] - e.node[n].size)
             r == RemoveLink(u, l, n)
             d == FreeNode(e, l, n)
  <1>1. c \in Typed /\ n \in Ids /\ l \in Levels
    BY LevelsAre DEF Accounted, Typed
  <1>2. e \in Typed /\ e.ht = c.ht \ {n} /\ e = [c EXCEPT !.ht = c.ht \ {n}]
    BY <1>1 DEF HtRemove, Typed
  <1>3. /\ u \in Typed /\ u.ht = c.ht \ {n} /\ u.next = c.next /\ u.node = c.node
        /\ u.last = c.last /\ u.count = c.count
        /\ u.used = [c.used EXCEPT ![l] = @ - c.node[n].size]
    <2>1. e.used[l] - e.node[n].size \in Int
      BY <1>1, <1>2, TypedFields
    <2>2. u \in Typed
      BY <1>1, <1>2, <2>1, UsedShrinks, ShrunkIsTyped
    <2> QED
      BY <1>1, <1>2, <2>2 DEF WithUsed, Typed
  <1>4. d = [r EXCEPT !.node[n] = NoNode]
    BY DEF FreeNode, WithUsed
  <1> HIDE DEF l, e, u, d
  <1>5. HeadsOnly(u)
    BY <1>3 DEF Accounted, HeadsOnly
  <1>6. Relinked(u, r) /\ r.count = [u.count EXCEPT ![l] = @ - 1]
    BY <1>1, <1>3, <1>5, RemoveLinkRelinks
  <1> HIDE DEF r
  <1>7. NoNode \in Nodes /\ NoNode.pre = NULL
    BY DEF NoNode, Nodes, Names, None, NULL
  <1>8. /\ d \in Typed /\ d.ht = r.ht /\ d.next = r.next /\ d.used = r.used
        /\ d.count = r.count /\ d.last = r.last /\ d.node = [r.node EXCEPT ![n] = NoNode]
    BY <1>1, <1>4, <1>6, <1>7 DEF Relinked, Typed
  <1>9. r.node \in [Ids -> Nodes]
    BY <1>6 DEF Relinked, Typed
  <1>10. HeadsOnly(d)
    BY <1>6, <1>7, <1>8, <1>9 DEF Relinked, HeadsOnly
  <1>11. d.ht = c.ht \ {n} /\ d.next = c.next
    BY <1>3, <1>6, <1>8 DEF Relinked
  <1>12. \A i \in d.ht : d.node[i].size = c.node[i].size /\ d.node[i].hits = c.node[i].hits
    BY <1>1, <1>3, <1>6, <1>8, <1>9, <1>11 DEF Relinked, Typed
  <1>13. Counted(d) /\ \A i \in d.ht : i < d.next
    BY <1>11, <1>12 DEF Accounted, Counted
  <1>14. \A j \in Levels \ {l} : In(d, j) = In(c, j)
    BY <1>11, <1>12 DEF In, LevelOf, l
  <1>15. In(c, l) = In(d, l) \cup {n} /\ n \notin In(d, l)
    BY <1>11, <1>12 DEF In, LevelOf, l
  <1>16. PICK S : S = In(d, l)
    OBVIOUS
  <1>17. IsFiniteSet(S) /\ Sized(c, S) /\ Sized(c, S \cup {n}) /\ n \notin S /\ S \subseteq d.ht
    <2>1. IsFiniteSet(S) /\ S \subseteq d.ht /\ Sized(c, S \cup {n})
      BY <1>1, <1>8, <1>15, <1>16, InIsFinite
    <2> QED
      BY <1>15, <1>16, <2>1 DEF Sized
  <1>18. /\ Bytes(c, S) \in Nat /\ c.node[n].size \in Nat
         /\ Bytes(c, S \cup {n}) = Bytes(c, S) + c.node[n].size
    BY <1>17, BytesOfMore
  <1>19. Bytes(d, S) = Bytes(c, S)
    BY <1>12, <1>17, BytesAreOfSizes
  <1>20. Cardinality(S \cup {n}) = Cardinality(S) + 1 /\ Cardinality(S) \in Nat
    BY <1>17, FS_AddElement, FS_CardinalityType
  <1>21. c.used[l] = Bytes(c, S \cup {n}) /\ c.count[l] = Cardinality(S \cup {n})
    BY <1>1, <1>15, <1>16 DEF Accounted, Exact
  <1>22. /\ d.used = [c.used EXCEPT ![l] = @ - c.node[n].size]
         /\ d.count = [c.count EXCEPT ![l] = @ - 1]
    BY <1>3, <1>6, <1>8 DEF Relinked
  <1>23. c.used \in [Levels -> Int] /\ c.count \in [Levels -> Int]
    BY <1>1 DEF Typed
  <1>24. d.used[l] = Bytes(d, S) /\ d.count[l] = Cardinality(S)
    BY <1>1, <1>18, <1>19, <1>20, <1>21, <1>22, <1>23
  <1>25. ASSUME NEW j \in Levels \ {l}
         PROVE  d.used[j] = Bytes(d, In(d, j)) /\ d.count[j] = Cardinality(In(d, j))
    <2>1. d.used[j] = c.used[j] /\ d.count[j] = c.count[j]
      BY <1>22, <1>23
    <2>2. IsFiniteSet(In(c, j)) /\ Sized(c, In(c, j)) /\ In(c, j) \subseteq d.ht
      BY <1>1, <1>8, <1>14, InIsFinite
    <2>3. Bytes(d, In(c, j)) = Bytes(c, In(c, j))
      BY <1>12, <2>2, BytesAreOfSizes
    <2> QED
      BY <1>14, <2>1, <2>3 DEF Accounted, Exact
  <1>26. Exact(d)
    BY <1>16, <1>24, <1>25 DEF Exact
  <1>27. Accounted(d)
    BY <1>8, <1>10, <1>13, <1>26 DEF Accounted
  <1> QED
    BY <1>27 DEF d, l, e


(* The search finds an entry of that name, even where several have it.     *)
LEMMA Found ==
  ASSUME NEW c \in Typed, NEW k
  PROVE  \/ HtGet(c, k) = NULL
         \/ HtGet(c, k) \in c.ht /\ c.node[HtGet(c, k)].name = k
  <1> DEFINE named == {n \in c.ht : c.node[n].name = k}
  <1>1. CASE named = {}
    BY <1>1 DEF HtGet
  <1>2. CASE named # {}
    <2>1. named \in SUBSET Int /\ IsFiniteSet(named)
      <3>1. IsFiniteSet(c.ht) /\ c.ht \subseteq Int /\ named \subseteq c.ht
        BY InIsFinite, IdsAreIntegers
      <3> QED
        BY <3>1, FS_Subset
    <2>2. PICK m \in named : \A n \in named : m >= n
      <3> HIDE DEF named
      <3> QED
        BY <1>2, <2>1, GreatestElement
    <2>3. Max(named) \in named
      <3> HIDE DEF named
      <3> QED
        BY <2>2, Zenon DEF Max
    <2> QED
      BY <1>2, <2>3 DEF HtGet
  <1> QED
    BY <1>1, <1>2

(* With no last node, room is made by ending the process. *)
LEMMA RoomIs ==
  ASSUME NEW c, Accounted(c), NEW l \in Levels
  PROVE  MakeRoom(c, l) \in {c, [c EXCEPT !.fault = TRUE]} /\ Accounted(MakeRoom(c, l))
  <1> DEFINE d == [c EXCEPT !.fault = TRUE]
  <1>1. MakeRoom(c, l) \in {c, d}
    BY DEF MakeRoom, FreeLast, Accounted, HeadsOnly
  <1>2. /\ d \in Typed /\ d.ht = c.ht /\ d.next = c.next /\ d.used = c.used
        /\ d.count = c.count /\ d.node = c.node /\ d.last = c.last
    BY DEF Accounted, Typed
  <1> HIDE DEF d
  <1>3. HeadsOnly(d) /\ Counted(d) /\ \A n \in c.ht : LevelOf(d, n) = LevelOf(c, n)
    BY <1>2 DEF Accounted, HeadsOnly, Counted, LevelOf
  <1>4. Accounted(d)
    BY <1>2, <1>3, SameLevels
  <1>5. MakeRoom(c, l) \in {c, d} /\ Accounted(MakeRoom(c, l))
    BY <1>1, <1>4
  <1> QED
    BY <1>5 DEF d

(* A node of a level is taken out and put at the level's head. *)
LEMMA Reheaded ==
  ASSUME NEW c, Accounted(c), NEW l \in Levels, NEW n \in c.ht
  PROVE  Accounted(SetHead(RemoveLink(c, l, n), l, n))
  <1>1. c \in Typed /\ HeadsOnly(c) /\ n \in Ids
    BY DEF Accounted, Typed
  <1>2. PICK r : r = RemoveLink(c, l, n)
    OBVIOUS
  <1>3. PICK d : d = SetHead(r, l, n)
    OBVIOUS
  <1>4. Relinked(c, r) /\ r.count = [c.count EXCEPT ![l] = @ - 1]
    BY <1>1, <1>2, RemoveLinkRelinks
  <1>5. Relinked(r, d) /\ d.count = [r.count EXCEPT ![l] = @ + 1]
    <2>1. r \in Typed /\ HeadsOnly(r)
      BY <1>4 DEF Relinked
    <2> QED
      BY <1>1, <1>3, <2>1, SetHeadRelinks
  <1>6. d.count = c.count
    <2>1. c.count \in [Levels -> Int] /\ d.count \in [Levels -> Int]
      BY <1>1, <1>5 DEF Typed, Relinked
    <2>2. \A j \in Levels : d.count[j] = c.count[j]
      BY <1>4, <1>5, <2>1
    <2> QED
      BY <2>1, <2>2
  <1>7. /\ d \in Typed /\ HeadsOnly(d) /\ d.ht = c.ht /\ d.next = c.next /\ d.used = c.used
        /\ \A i \in Ids : d.node[i].size = c.node[i].size /\ d.node[i].hits = c.node[i].hits
    BY <1>4, <1>5 DEF Relinked
  <1>8. c.ht \subseteq Ids
    BY <1>1 DEF Typed
  <1>9. Counted(d) /\ \A i \in c.ht : /\ d.node[i].size = c.node[i].size
                                     /\ LevelOf(d, i) = LevelOf(c, i)
    BY <1>7, <1>8 DEF Accounted, Counted, LevelOf
  <1>10. Accounted(d)
    BY <1>6, <1>7, <1>9, SameLevels
  <1> QED
    BY <1>2, <1>3, <1>10

(* One more hit on a node of the old level leaves it there. *)
LEMMA HitKeeps ==
  ASSUME NEW c, Accounted(c), NEW n \in c.ht, LevelOf(c, n) = "old"
  PROVE  /\ Accounted(WithHits(c, n, c.node[n].hits + 1))
         /\ LevelOf(WithHits(c, n, c.node[n].hits + 1), n) = "old"
         /\ WithHits(c, n, c.node[n].hits + 1).ht = c.ht
  <1> DEFINE x == c.node[n].hits + 1
             d == WithHits(c, n, x)
  <1>1. c \in Typed /\ n \in Ids /\ c.node \in [Ids -> Nodes]
    BY DEF Accounted, Typed
  <1>2. x \in Nat \ {0} /\ x # Hot
    BY DEF Accounted, Counted, LevelOf, Hot
  <1>3. d \in Typed
    BY <1>1, <1>2, HitsShrink, ShrunkIsTyped
  <1>4. /\ d.ht = c.ht /\ d.next = c.next /\ d.used = c.used /\ d.count = c.count
        /\ d.last = c.last /\ d.node = [c.node EXCEPT ![n] = [@ EXCEPT !.hits = x]]
    BY DEF Accounted, WithHits, Typed
  <1> HIDE DEF x, d
  <1>5. \A i \in Ids : /\ d.node[i].size = c.node[i].size /\ d.node[i].pre = c.node[i].pre
                       /\ d.node[i].hits = IF i = n THEN x ELSE c.node[i].hits
    BY <1>1, <1>4 DEF Nodes
  <1>6. c.ht \subseteq Ids
    BY <1>1 DEF Typed
  <1>7. HeadsOnly(d)
    BY <1>4, <1>5 DEF Accounted, HeadsOnly
  <1>8. Counted(d) /\ LevelOf(d, n) = "old"
    BY <1>2, <1>4, <1>5, <1>6 DEF Accounted, Counted, LevelOf
  <1>9. \A i \in c.ht : d.node[i].size = c.node[i].size /\ LevelOf(d, i) = LevelOf(c, i)
    BY <1>2, <1>4, <1>5, <1>6 DEF LevelOf
  <1>10. Accounted(d)
    BY <1>3, <1>4, <1>7, <1>8, <1>9, SameLevels
  <1> QED
    BY <1>4, <1>8, <1>10 DEF d, x

(* A node of the old level that was hit often enough moves to the new. *)
LEMMA PromotingKeeps ==
  ASSUME NEW c, Accounted(c), NEW n \in c.ht, LevelOf(c, n) = "old"
  PROVE  Accounted(Promote(RemoveLink(c, "old", n), n))
  <1>1. c \in Typed /\ HeadsOnly(c) /\ n \in Ids /\ c.ht \subseteq Ids
    BY DEF Accounted, Typed
  <1>2. PICK r : r = RemoveLink(c, "old", n)
    OBVIOUS
  <1>3. PICK h : h = SetHead(r, "new", n)
    OBVIOUS
  <1>4. PICK d : d = Promote(r, n)
    OBVIOUS
  <1>5. Relinked(c, r) /\ r.count = [c.count EXCEPT !["old"] = @ - 1]
    BY <1>1, <1>2, LevelsAre, RemoveLinkRelinks
  <1>6. Relinked(r, h) /\ h.count = [r.count EXCEPT !["new"] = @ + 1]
    <2>1. r \in Typed /\ HeadsOnly(r)
      BY <1>5 DEF Relinked
    <2> QED
      BY <1>1, <1>3, <2>1, LevelsAre, SetHeadRelinks
  <1>7. r.node[n].size = c.node[n].size
    BY <1>1, <1>5 DEF Relinked
  <1>8. d = [h EXCEPT !.node[n].hits = Hot, !.used["old"] = @ - c.node[n].size,
                      !.used["new"] = @ + c.node[n].size]
    BY <1>3, <1>4, <1>7 DEF Promote
  <1>9. d \in Typed
    <2>1. r \in Typed
      BY <1>5 DEF Relinked
    <2> QED
      BY <1>1, <1>4, <2>1, PromoteShrinks, ShrunkIsTyped
  <1>10. h.node \in [Ids -> Nodes] /\ h.used = c.used /\ h.ht = c.ht /\ h.next = c.next
    BY <1>5, <1>6 DEF Relinked, Typed
  <1>11. /\ d.ht = c.ht /\ d.next = c.next /\ d.last = h.last /\ d.count = h.count
         /\ d.node = [h.node EXCEPT ![n] = [@ EXCEPT !.hits = Hot]]
         /\ d.used = [c.used EXCEPT !["old"] = @ - c.node[n].size,
                                    !["new"] = @ + c.node[n].size]
    <2>1. h \in Typed
      BY <1>6 DEF Relinked
    <2> QED
      BY <1>8, <1>10, <2>1 DEF Typed
  <1>12. \A i \in Ids : /\ h.node[i].size = c.node[i].size /\ h.node[i].hits = c.node[i].hits
                        /\ h.node[i].pre = NULL
    BY <1>5, <1>6 DEF Relinked, HeadsOnly
  <1>13. \A i \in Ids : /\ d.node[i].size = c.node[i].size /\ d.node[i].pre = NULL
                        /\ d.node[i].hits = IF i = n THEN Hot ELSE c.node[i].hits
    BY <1>1, <1>10, <1>11, <1>12 DEF Nodes
  <1>14. HeadsOnly(d)
    BY <1>6, <1>11, <1>13 DEF Relinked, HeadsOnly
  <1>15. Counted(d)
    BY <1>1, <1>11, <1>13 DEF Accounted, Counted
  <1>16. /\ LevelOf(d, n) = "new"
         /\ \A i \in c.ht : d.node[i].size = c.node[i].size
         /\ \A i \in c.ht \ {n} : LevelOf(d, i) = LevelOf(c, i)
    BY <1>1, <1>13 DEF LevelOf
  <1>17. c.used \in [Levels -> Int] /\ c.count \in [Levels -> Int]
    BY <1>1 DEF Typed
  <1>18. /\ d.used["old"] = c.used["old"] - c.node[n].size
         /\ d.used["new"] = c.used["new"] + c.node[n].size
    BY <1>11, <1>17, LevelsAre
  <1>19. d.count["old"] = c.count["old"] - 1 /\ d.count["new"] = c.count["new"] + 1
    BY <1>5, <1>6, <1>11, <1>17, LevelsAre
  <1>20. d.ht = c.ht /\ d.next = c.next
    BY <1>11
  <1>21. Accounted(d)
    BY <1>9, <1>14, <1>15, <1>16, <1>18, <1>19, <1>20, Promoted
  <1> QED
    BY <1>2, <1>4, <1>21


(* _shiki_set_node, for a node of the hash table *)
LEMMA SettingNodeKeeps ==
  ASSUME NEW c, Accounted(c), NEW n \in c.ht
  PROVE  Accounted(SetNode(c, n))
  <1>1. PICK room : room = MakeRoom(c, LevelOf(c, n))
    OBVIOUS
  <1>2. /\ Accounted(room) /\ room.ht = c.ht /\ room.node = c.node
        /\ LevelOf(room, n) = LevelOf(c, n)
    <2>1. room \in {c, [c EXCEPT !.fault = TRUE]} /\ Accounted(room)
      BY <1>1, LevelsAre, RoomIs
    <2>2. c \in Typed
      BY DEF Accounted
    <2>3. room.ht = c.ht /\ room.node = c.node
      BY <2>1, <2>2 DEF Typed
    <2> QED
      BY <2>1, <2>3 DEF LevelOf
  <1>3. PICK hit : hit = WithHits(room, n, room.node[n].hits + 1)
    OBVIOUS
  <1>4. PICK out : out = RemoveLink(hit, "old", n)
    OBVIOUS
  <1>5. SetNode(c, n) = IF room.fault THEN room
                        ELSE IF LevelOf(c, n) = "new"
                             THEN SetHead(RemoveLink(room, "new", n), "new", n)
                        ELSE IF out.node[n].hits > MAXHITS THEN Promote(out, n)
                        ELSE SetHead(out, "old", n)
    BY <1>1, <1>3, <1>4 DEF SetNode, WithHits
  <1>6. Accounted(SetHead(RemoveLink(room, "new", n), "new", n))
    BY <1>2, LevelsAre, Reheaded
  <1>7. CASE LevelOf(c, n) = "new"
    BY <1>2, <1>5, <1>6, <1>7
  <1>8. CASE LevelOf(c, n) = "old"
    <2>1. Accounted(hit) /\ LevelOf(hit, n) = "old" /\ n \in hit.ht
      <3>1. n \in room.ht /\ LevelOf(room, n) = "old"
        BY <1>2, <1>8
      <3> QED
        BY <1>2, <1>3, <3>1, HitKeeps
    <2>2. Accounted(Promote(out, n))
      BY <1>4, <2>1, PromotingKeeps
    <2>3. Accounted(SetHead(out, "old", n))
      BY <1>4, <2>1, LevelsAre, Reheaded
    <2> QED
      BY <1>2, <1>5, <1>8, <2>2, <2>3
  <1> QED
    BY <1>7, <1>8, LevelsAre

(* shiki_remove *)
LEMMA ShikiRemoveKeeps ==
  ASSUME NEW c, Accounted(c), NEW k
  PROVE  Accounted(ShikiRemove(c, k)) /\ ShikiRemove(c, k).next = c.next
  <1>1. PICK n : n = ShikiGet(c, k)
    OBVIOUS
  <1>2. c \in Typed
    BY DEF Accounted
  <1>3. CASE n = NULL
    BY <1>1, <1>3 DEF ShikiRemove
  <1>4. CASE n # NULL
    <2>1. n = HtGet(c, k) /\ n \in c.ht /\ n \in Ids
      BY <1>1, <1>2, <1>4, Found DEF ShikiGet, Typed
    <2>2. ShikiRemove(c, k) = FreeNode(HtRemove(c, k), LevelOf(c, n), n)
      BY <1>1, <1>4 DEF ShikiRemove
    <2>3. Accounted(ShikiRemove(c, k))
      BY <2>1, <2>2, FreeingKeeps
    <2>4. /\ HtRemove(c, k) \in Typed /\ HtRemove(c, k).next = c.next
          /\ n \notin HtRemove(c, k).ht
      BY <1>2, <2>1, HtRemoveShrinks DEF Shrinks
    <2>5. FreeNode(HtRemove(c, k), LevelOf(c, n), n).next = HtRemove(c, k).next
      BY <2>1, <2>4, LevelsAre, FreeNodeShrinks DEF Shrinks
    <2> QED
      BY <2>2, <2>3, <2>4, <2>5
  <1> QED
    BY <1>3, <1>4

(* shiki_set: a new node, of the old level at first *)
LEMMA ShikiSetKeeps ==
  ASSUME NEW c, Accounted(c), NEW k \in Keys, NEW name \in Names, NEW v \in Values,
         c.next \in Ids
  PROVE  Accounted(ShikiSet(c, k, name, v))
  <1> DEFINE n == c.next
             node == NewNode(k, name, v)
             d == Added(c, node)
  <1>1. ShikiSet(c, k, name, v) = IF ~ Buffered THEN c
                                  ELSE IF HtGet(c, k) # NULL THEN SetNode(c, HtGet(c, k))
                                  ELSE SetNode(d, n)
    BY DEF ShikiSet, Added, NewNode
  <1>2. c \in Typed /\ c.ht \subseteq Ids /\ c.node \in [Ids -> Nodes] /\ n \in Nat \ {0}
    BY DEF Accounted, Typed
  <1>3. SizeOf[v] \in Nat /\ Hot # 1
    BY DbAssumption DEF Values, Hot
  <1>4. /\ node \in Nodes /\ node.size = SizeOf[v] /\ node.hits = 1 /\ node.pre = NULL
    BY <1>3, DbAssumption DEF NewNode, Nodes, Names, NULL
  <1>5. /\ d.next = n + 1 /\ d.node = [c.node EXCEPT ![n] = node] /\ d.ht = c.ht \cup {n}
        /\ d.used = [c.used EXCEPT !["old"] = @ + SizeOf[v]]
        /\ d.count = [c.count EXCEPT !["old"] = @ + 1]
        /\ d.first = c.first /\ d.last = c.last /\ d.fault = c.fault
    BY <1>2, <1>4 DEF Typed, Added
  <1>6. c.used \in [Levels -> Int] /\ c.count \in [Levels -> Int]
    BY <1>2 DEF Typed
  <1>7. d \in Typed
    BY <1>2, <1>4, AddedIsTyped
  <1> HIDE DEF node, d
  <1>8. n \notin c.ht /\ \A i \in d.ht : i < d.next
    <2>1. \A i \in c.ht : i < n /\ i \in Int
      BY <1>2, IdsAreIntegers DEF Accounted
    <2> QED
      BY <1>2, <1>5, <2>1
  <1>9. \A i \in c.ht : d.node[i] = c.node[i]
    BY <1>2, <1>5, <1>8
  <1>10. d.node[n] = node
    BY <1>2, <1>5
  <1>11. HeadsOnly(d)
    BY <1>2, <1>4, <1>5 DEF Accounted, HeadsOnly
  <1>12. Counted(d)
    BY <1>4, <1>5, <1>9, <1>10 DEF Accounted, Counted
  <1>13. In(d, "new") = In(c, "new")
    BY <1>3, <1>4, <1>5, <1>9, <1>10 DEF In, LevelOf
  <1>14. In(d, "old") = In(c, "old") \cup {n} /\ n \notin In(c, "old")
    BY <1>3, <1>4, <1>5, <1>8, <1>9, <1>10 DEF In, LevelOf
  <1>15. PICK O : O = In(c, "old")
    OBVIOUS
  <1>16. PICK N : N = In(c, "new")
    OBVIOUS
  <1>17. /\ IsFiniteSet(O) /\ Sized(c, O) /\ O \subseteq c.ht
         /\ IsFiniteSet(N) /\ Sized(c, N) /\ N \subseteq c.ht
    BY <1>2, <1>15, <1>16, InIsFinite
  <1>18. n \notin O /\ Sized(d, O \cup {n})
    BY <1>3, <1>4, <1>9, <1>10, <1>14, <1>15, <1>17 DEF Sized
  <1>19. Bytes(d, O) = Bytes(c, O) /\ Bytes(d, N) = Bytes(c, N)
    BY <1>9, <1>17, BytesAreOfSizes
  <1>20. Bytes(d, O \cup {n}) = Bytes(d, O) + d.node[n].size
    BY <1>17, <1>18, BytesOfMore
  <1>21. Cardinality(O \cup {n}) = Cardinality(O) + 1
    BY <1>17, <1>18, FS_AddElement
  <1>22. /\ c.used["old"] = Bytes(c, O) /\ c.used["new"] = Bytes(c, N)
         /\ c.count["old"] = Cardinality(O) /\ c.count["new"] = Cardinality(N)
    BY <1>15, <1>16, LevelsAre DEF Accounted, Exact
  <1>23. /\ d.used["old"] = Bytes(d, O \cup {n}) /\ d.used["new"] = Bytes(d, N)
         /\ d.count["old"] = Cardinality(O \cup {n}) /\ d.count["new"] = Cardinality(N)
    BY <1>4, <1>5, <1>6, <1>10, <1>19, <1>20, <1>21, <1>22, LevelsAre
  <1>24. Exact(d)
    BY <1>13, <1>14, <1>15, <1>16, <1>23, LevelsAre DEF Exact
  <1>25. Accounted(d) /\ n \in d.ht
    BY <1>5, <1>7, <1>8, <1>11, <1>12, <1>24 DEF Accounted
  <1>26. Accounted(SetNode(d, n))
    BY <1>25, SettingNodeKeeps
  <1>27. HtGet(c, k) # NULL => Accounted(SetNode(c, HtGet(c, k)))
    BY <1>2, Found, SettingNodeKeeps
  <1> QED
    BY <1>1, <1>26, <1>27


-----------------------------------------------------------------------------
(* The accounts of the running system *)

(* A call has a key, a write something to write, and a node to cache has a *)
(* value.                                                                  *)
Calling ==
  /\ pc \in {"write", "miss", "cache"} => op.key \in Keys
  /\ pc = "write" => op.val \in Values \cup {Deleted} /\ writes < MaxWrites
  /\ pc = "cache" => op.ret \in Values
  /\ pc \in {"miss", "cache"} => cache.next \in Ids

(* What the code keeps whatever has been garbled or passed over. *)
Books == TypeOK /\ Accounted(cache) /\ Calling

Calls == [key : Names, val : Values \cup {None, Deleted}, ret : Values \cup {None}]

LEMMA AccountedIsTyped ==
  ASSUME NEW c, Accounted(c)
  PROVE  c \in Caches
  <1>1. c \in Typed /\ Exact(c)
    BY DEF Accounted
  <1>2. ASSUME NEW l \in Levels PROVE c.used[l] \in Nat
    <2>1. Bytes(c, In(c, l)) \in Nat
      BY <1>1, InIsFinite, BytesAreOfSizes
    <2> QED
      BY <1>1, <2>1 DEF Exact
  <1>3. c.used \in [Levels -> Nat]
    BY <1>1, <1>2 DEF Typed
  <1> QED
    BY <1>1, <1>3 DEF Typed, Caches

LEMMA CallsAre ==
  /\ NoOp \in Calls
  /\ \A k \in Names, v \in Values \cup {None, Deleted} :
       /\ [NoOp EXCEPT !.key = k, !.val = v] \in Calls
       /\ [NoOp EXCEPT !.key = k, !.val = v].key = k
       /\ [NoOp EXCEPT !.key = k, !.val = v].val = v
  /\ \A k \in Names, v \in Values \cup {None} :
       /\ [NoOp EXCEPT !.key = k, !.ret = v] \in Calls
       /\ [NoOp EXCEPT !.key = k] \in Calls
       /\ [NoOp EXCEPT !.key = k].key = k
  /\ \A o \in Calls, v \in Values \cup {None} :
       /\ [o EXCEPT !.ret = v] \in Calls
       /\ [o EXCEPT !.ret = v].key = o.key /\ [o EXCEPT !.ret = v].ret = v
  /\ Keys \subseteq Names
  BY DEF NoOp, Calls, Names

LEMMA InitBooks == Init => Books
  <1> SUFFICES ASSUME Init PROVE Books
    OBVIOUS
  <1>1. /\ cache.node = [n \in Ids |-> NoNode] /\ cache.next = 1 /\ cache.ht = {}
        /\ cache.last = [l \in Levels |-> NULL]
        /\ cache.used = [l \in Levels |-> 0] /\ cache.count = [l \in Levels |-> 0]
    BY DEF Init, NewCache
  <1>2. cache \in Typed
    <2>1. NoNode \in Nodes
      BY DEF NoNode, Nodes, Names, None, NULL
    <2> QED
      BY <2>1 DEF Init, NewCache, Typed
  <1>3. HeadsOnly(cache)
    BY <1>1 DEF HeadsOnly, NoNode
  <1>4. \A l : In(cache, l) = {}
    BY <1>1 DEF In
  <1>5. Exact(cache)
    BY <1>1, <1>4, BytesOfNone, FS_EmptySet DEF Exact
  <1>6. Accounted(cache)
    BY <1>1, <1>2, <1>3, <1>5 DEF Accounted, Counted
  <1>7. Empty \in Maps /\ Empty \in [Keys -> Values \cup {None}]
    BY DEF Empty, Maps
  <1>8. TypeOK
    <2>1. cache \in Caches
      BY <1>6, AccountedIsTyped
    <2>2. op \in Calls
      BY CallsAre DEF Init
    <2>3. writes \in 0 .. MaxWrites
      BY DbAssumption DEF Init
    <2> QED
      BY <1>7, <2>1, <2>2, <2>3 DEF Init, TypeOK, Calls
  <1> QED
    BY <1>6, <1>8 DEF Init, Books, Calling

LEMMA FindFinds ==
  ASSUME TypeOK, NEW k \in Keys
  PROVE  Find(k) \in Values \cup {None} /\ Named(k) \subseteq {"residue", "parkdel"}
  <1>1. store[k] \in Values \cup {None}
    BY DEF TypeOK
  <1> QED
    BY <1>1 DEF TypeOK, Find, Named

LEMMA WriteKeepsBooks ==
  ASSUME Books, NEW k \in Keys, NEW v \in Values \cup {Deleted}, Write(k, v),
         writes < MaxWrites
  PROVE  Books'
  <1>1. Accounted(cache')
    BY ShikiRemoveKeeps DEF Books, Write
  <1>2. op' \in Calls /\ op'.key = k /\ op'.val = v
    <2>1. k \in Names /\ v \in Values \cup {None, Deleted}
      BY DEF Names
    <2>2. op' = [NoOp EXCEPT !.key = k, !.val = v]
      BY DEF Write
    <2> QED
      BY <2>1, <2>2, CallsAre
  <1>3. TypeOK'
    BY <1>1, <1>2, AccountedIsTyped DEF Books, TypeOK, Write, Calls, index
  <1> QED
    BY <1>1, <1>2, <1>3 DEF Books, Calling, Write

LEMMA IndexAddKeepsBooks ==
  ASSUME Books, IndexAdd
  PROVE  Books'
  <1>1. /\ op.key \in Keys /\ op.val \in Values \cup {Deleted} /\ writes < MaxWrites
        /\ list \in Maps /\ writes \in 0 .. MaxWrites
        /\ latest \in [Keys -> Values \cup {None}]
    BY DEF Books, Calling, IndexAdd, TypeOK
  <1>2. list' \in Maps /\ park' \in Maps
    BY <1>1 DEF Books, TypeOK, IndexAdd, Maps, Empty
  <1>3. latest' \in [Keys -> Values \cup {None}]
    BY <1>1, ValuesAreNot DEF IndexAdd
  <1>4. writes' \in 0 .. MaxWrites
    BY <1>1, DbAssumption DEF IndexAdd
  <1>5. op' \in Calls
    BY CallsAre DEF IndexAdd
  <1>6. TypeOK'
    BY <1>2, <1>3, <1>4, <1>5 DEF Books, TypeOK, IndexAdd, Calls
  <1> QED
    BY <1>6 DEF Books, Calling, IndexAdd

LEMMA GetKeepsBooks ==
  ASSUME Books, NEW k \in Keys, Get(k)
  PROVE  Books'
  <1>1. PICK n : n = ShikiGet(cache, k)
    OBVIOUS
  <1>2. cache \in Typed
    BY DEF Books, Accounted
  <1>3. CASE n = NULL
    <2>1. /\ cache' = cache /\ pc' = "miss" /\ op' = [NoOp EXCEPT !.key = k]
          /\ cache.next \in Ids
      BY <1>1, <1>3 DEF Get
    <2>2. op' \in Calls /\ op'.key = k
      BY <2>1, CallsAre DEF None
    <2>3. TypeOK'
      BY <2>1, <2>2 DEF Books, TypeOK, Get, index, Calls
    <2> QED
      BY <2>1, <2>2, <2>3 DEF Books, Calling
  <1>4. CASE n # NULL
    <2>1. /\ cache' = SetNode(cache, n) /\ pc' \in {"got", "fault"}
          /\ op' = [NoOp EXCEPT !.key = k, !.ret = cache.node[n].val]
      BY <1>1, <1>4 DEF Get
    <2>2. n \in cache.ht /\ n \in Ids
      BY <1>1, <1>2, <1>4, Found DEF ShikiGet, Typed
    <2>3. cache.node[n].val \in Values \cup {None}
      BY <1>2, <2>2 DEF Typed, Nodes
    <2>4. op' \in Calls
      BY <2>1, <2>3, CallsAre
    <2>5. Accounted(cache')
      BY <2>1, <2>2, SettingNodeKeeps DEF Books
    <2>6. TypeOK'
      BY <2>1, <2>4, <2>5, AccountedIsTyped DEF Books, TypeOK, Get, index, Calls
    <2> QED
      BY <2>1, <2>5, <2>6 DEF Books, Calling
  <1> QED
    BY <1>3, <1>4

LEMMA IndexGetKeepsBooks ==
  ASSUME Books, IndexGet
  PROVE  Books'
  <1>1. op.key \in Keys /\ cache.next \in Ids /\ op \in Calls /\ TypeOK
    BY DEF Books, Calling, IndexGet, TypeOK, Calls
  <1>2. Find(op.key) \in Values \cup {None} /\ hazards' \subseteq {"residue", "parkdel"}
    BY <1>1, FindFinds DEF IndexGet
  <1>3. op' \in Calls /\ op'.key = op.key /\ op'.ret = Find(op.key)
    BY <1>1, <1>2, CallsAre DEF IndexGet
  <1>4. TypeOK'
    BY <1>1, <1>2, <1>3 DEF TypeOK, IndexGet, index, Calls
  <1>5. pc' \in {"got", "cache"} /\ (pc' = "cache" => Find(op.key) # None)
    BY DEF IndexGet
  <1> QED
    BY <1>1, <1>2, <1>3, <1>4, <1>5 DEF Books, Calling, IndexGet

LEMMA CacheKeepsBooks ==
  ASSUME Books, Cache
  PROVE  Books'
  <1>1. op.key \in Keys /\ op.ret \in Values /\ cache.next \in Ids /\ Accounted(cache)
    BY DEF Books, Calling, Cache
  <1>2. PICK name \in {op.key, Garbled} \cup Longer[op.key] :
          /\ cache' = ShikiSet(cache, op.key, name, op.ret)
          /\ hazards' = IF name = op.key THEN hazards ELSE hazards \cup {"residue"}
    BY DEF Cache
  <1>3. name \in Names
    BY <1>1, <1>2, DbAssumption DEF Names
  <1>4. Accounted(cache')
    BY <1>1, <1>2, <1>3, ShikiSetKeeps
  <1>5. pc' \in {"fault", "got"}
    BY DEF Cache
  <1>6. TypeOK'
    BY <1>2, <1>4, <1>5, AccountedIsTyped DEF Books, TypeOK, Cache, index
  <1> QED
    BY <1>4, <1>5, <1>6 DEF Books, Calling

LEMMA StepKeepsBooks == Books /\ [Next]_vars => Books'
  <1> SUFFICES ASSUME Books, [Next]_vars PROVE Books'
    OBVIOUS
  <1>1. ASSUME NEW k \in Keys, Add(k) PROVE Books'
    <2>1. writes + 1 \in Values /\ writes < MaxWrites
      BY <1>1, DbAssumption DEF Add, Books, TypeOK, Values
    <2> QED
      BY <1>1, <2>1, WriteKeepsBooks DEF Add
  <1>2. ASSUME NEW k \in Keys, Remove(k) PROVE Books'
    BY <1>2, WriteKeepsBooks DEF Remove
  <1>3. ASSUME NEW k \in Keys, Get(k) PROVE Books'
    BY <1>3, GetKeepsBooks
  <1>4. ASSUME NEW k \in Keys, Exists(k) PROVE Books'
    <2>1. op' \in Calls /\ hazards' \subseteq {"residue", "parkdel"}
      BY <1>4, FindFinds, CallsAre DEF Exists, Books
    <2> QED
      BY <1>4, <2>1 DEF Exists, Books, TypeOK, Calling, index, Calls
  <1>5. CASE Done
    <2>1. op' \in Calls
      BY <1>5, CallsAre DEF Done
    <2> QED
      BY <1>5, <2>1 DEF Done, Books, TypeOK, Calling, index, Calls
  <1>6. CASE MergeDone
    <2>1. park' \in Maps
      BY <1>6 DEF MergeDone, Empty, Maps
    <2>2. store' \in [Keys -> Values \cup {None}]
      BY <1>6 DEF MergeDone, Books, TypeOK, Maps
    <2> QED
      BY <1>6, <2>1, <2>2 DEF MergeDone, Books, TypeOK, Calling
  <1>7. CASE UNCHANGED vars
    BY <1>7 DEF vars, index, Books, TypeOK, Calling
  <1> QED
    BY <1>1, <1>2, <1>3, <1>4, <1>5, <1>6, <1>7, IndexAddKeepsBooks, IndexGetKeepsBooks,
       CacheKeepsBooks DEF Next, Fault

(* Every variable keeps its type, whatever has been garbled or passed over: *)
(* no level's bytes in use ever fall below none, which as a size_t they     *)
(* would not show (level.c:80, shiki.c:76).                                 *)
THEOREM TypeCorrect == Spec => []TypeOK
  <1>1. Books => TypeOK
    BY DEF Books
  <1> QED
    BY <1>1, InitBooks, StepKeepsBooks, PTL DEF Spec

(* The bytes and the nodes a level counts are those of the nodes the hash   *)
(* table holds of that level, through hits, promotions and removals, for    *)
(* any sizes, buffer and hits a promotion takes (shiki.c:26-128).           *)
THEOREM AccountsAreExact == Spec => []AccountingIsExact
  <1>1. Books => AccountingIsExact
    <2> SUFFICES ASSUME Books, NEW l \in Levels
                 PROVE  /\ cache.used[l] = MapThenSumSet(LAMBDA n : cache.node[n].size,
                                                         InLevel(l))
                        /\ cache.count[l] = Cardinality(InLevel(l))
      BY DEF AccountingIsExact
    <2>1. InLevel(l) = In(cache, l)
      BY DEF InLevel, In
    <2>2. cache.used[l] = Bytes(cache, InLevel(l)) /\ cache.count[l] = Cardinality(InLevel(l))
      BY <2>1 DEF Books, Accounted, Exact
    <2> QED
      BY <2>2 DEF Bytes
  <1> QED
    BY <1>1, InitBooks, StepKeepsBooks, PTL DEF Spec
=============================================================================
