--------------------------- MODULE ChangeSetProofs ---------------------------
(***************************************************************************)
(* What change sets say and do, for any lists of ring code entries with    *)
(* any layers, any texts and any forms.                                    *)
(*                                                                         *)
(* Sorting entries puts them in order and keeps them (SortedRings,         *)
(* SortedAgain); the change between two entries turns one into the other   *)
(* (EntryChanged); the changes between two lists of entries applied to the *)
(* first give the second but for its order (RingsRoundTrip), when each is  *)
(* applied to the entry with its id.  A form is filtered and flattened     *)
(* (NormalIs), compared field by field, and its change set resolved on     *)
(* what it was compared with gives it back (ContentRestored).              *)
(***************************************************************************)
EXTENDS ChangeSets, ListingProofs

-----------------------------------------------------------------------------
(* The order of ring code entries.                                         *)

CodeAt(r, i) == LayerAt(r, i).code

\* The same codes, offset, comment and id.
SameRing(a, b) ==
    /\ \A i \in Nat \ {0} : CodeAt(a, i) = CodeAt(b, i)
    /\ a.offset = b.offset /\ a.comment = b.comment /\ a.id = b.id

FirstCode(a, b, i) == CodeAt(a, i) < CodeAt(b, i) /\ \A j \in 1 .. i - 1 : CodeAt(a, j) = CodeAt(b, j)

\* The order of two entries of the same codes.
TailBefore(a, b) ==
    \/ a.offset < b.offset
    \/ a.offset = b.offset /\ a.comment < b.comment
    \/ /\ a.offset = b.offset /\ a.comment = b.comment
       /\ a.id # NoId /\ (b.id = NoId \/ a.id < b.id)

LEMMA RingLayers ==
    ASSUME NEW r \in Rings
    PROVE  /\ IsList(r.layers) /\ Len(r.layers) \in Nat
           /\ \A i \in DOMAIN r.layers : r.layers[i] \in [code : Nat, tools : SUBSET Texts]
           /\ \A i \in Nat : LayerAt(r, i) \in [code : Nat, tools : SUBSET Texts] /\ CodeAt(r, i) \in Nat
           /\ DOMAIN r.layers \subseteq Nat \ {0}
           /\ \A i : i \notin DOMAIN r.layers => LayerAt(r, i) = EmptyLayer /\ CodeAt(r, i) = 0
<1> DEFINE L == r.layers
           T == [code : Nat, tools : SUBSET Texts]
<1>1. L \in Seq(T)
    BY DEF Rings
<1>2. EmptyLayer \in T /\ EmptyLayer.code = 0 /\ \A l \in T : l.code \in Nat
    BY DEF EmptyLayer
<1> HIDE DEF L, T
<1>3. Len(L) \in Nat /\ DOMAIN L = 1 .. Len(L) /\ \A i \in 1 .. Len(L) : L[i] \in T
    BY <1>1
<1>4. L = [i \in 1 .. Len(L) |-> L[i]]
    BY <1>1
<1>5. \A i \in Nat : LayerAt(r, i) \in T /\ CodeAt(r, i) \in Nat
    BY <1>2, <1>3 DEF LayerAt, CodeAt, L
<1>6. \A i : i \notin DOMAIN L => LayerAt(r, i) = EmptyLayer /\ CodeAt(r, i) = 0
    BY <1>2 DEF LayerAt, CodeAt, L
<1>7. DOMAIN L \subseteq Nat \ {0} /\ IsList(L)
    BY <1>3, <1>4 DEF IsList
<1>8. \A i \in DOMAIN L : L[i] \in T
    BY <1>3
<1> QED BY <1>3, <1>5, <1>6, <1>7, <1>8 DEF L, T

LEMMA RingBeforeIs ==
    ASSUME NEW a \in Rings, NEW b \in Rings
    PROVE  RingBefore(a, b) <=> \/ \E i \in Nat \ {0} : FirstCode(a, b, i)
                                \/ /\ \A i \in Nat \ {0} : CodeAt(a, i) = CodeAt(b, i)
                                   /\ TailBefore(a, b)
<1> DEFINE D == DOMAIN a.layers \cup DOMAIN b.layers
<1>1. D \subseteq Nat \ {0} /\ \A i : i \notin D => CodeAt(a, i) = 0 /\ CodeAt(b, i) = 0
    BY RingLayers
<1>2. RingBefore(a, b) <=> \/ \E i \in D : CodeAt(a, i) < CodeAt(b, i) /\ \A j \in 1 .. i - 1 : CodeAt(a, j) = CodeAt(b, j)
                           \/ (\A i \in D : CodeAt(a, i) = CodeAt(b, i)) /\ TailBefore(a, b)
    BY DEF RingBefore, CodeAt, TailBefore
<1> HIDE DEF D
<1>3. (\A i \in D : CodeAt(a, i) = CodeAt(b, i)) <=> \A i \in Nat \ {0} : CodeAt(a, i) = CodeAt(b, i)
    BY <1>1
<1>4. \A i \in Nat \ {0} : FirstCode(a, b, i) => i \in D
    BY <1>1 DEF FirstCode
<1> QED BY <1>1, <1>2, <1>3, <1>4 DEF FirstCode

LEMMA FirstDifference ==
    ASSUME NEW a \in Rings, NEW b \in Rings, NEW i \in Nat \ {0}, CodeAt(a, i) # CodeAt(b, i)
    PROVE  \E k \in Nat \ {0} : FirstCode(a, b, k) \/ FirstCode(b, a, k)
<1> DEFINE S == {k \in Nat \ {0} : CodeAt(a, k) # CodeAt(b, k)}
<1>1. PICK k \in S : \A m \in S : k <= m
  <2>1. S \in SUBSET Nat /\ S # {}
      OBVIOUS
  <2> HIDE DEF S
  <2> QED BY <2>1, LeastNumber
<1>2. \A j \in 1 .. k - 1 : CodeAt(a, j) = CodeAt(b, j)
    BY <1>1
<1>3. CodeAt(a, k) \in Nat /\ CodeAt(b, k) \in Nat /\ CodeAt(a, k) # CodeAt(b, k)
    BY RingLayers
<1>4. CodeAt(a, k) < CodeAt(b, k) \/ CodeAt(b, k) < CodeAt(a, k)
    BY <1>3
<1> QED BY <1>2, <1>4 DEF FirstCode

LEMMA RingTypes ==
    ASSUME NEW r \in Rings
    PROVE  r.offset \in Nat /\ r.comment \in Nat /\ r.id \in Nat \cup {NoId} /\ NoId \notin Nat
BY ReferenceAssumption DEF Rings

\* One of two entries comes first, or they are the same to the sort.
LEMMA RingsOneWay ==
    ASSUME NEW a \in Rings, NEW b \in Rings
    PROVE  /\ RingBefore(a, b) => ~RingBefore(b, a)
           /\ ~RingBefore(a, b) /\ ~RingBefore(b, a) <=> SameRing(a, b)
<1>1. CASE \A i \in Nat \ {0} : CodeAt(a, i) = CodeAt(b, i)
  <2>1. \A i \in Nat \ {0} : CodeAt(a, i) \in Nat /\ CodeAt(b, i) \in Nat
      BY RingLayers
  <2>2. ~(\E i \in Nat \ {0} : FirstCode(a, b, i)) /\ ~(\E i \in Nat \ {0} : FirstCode(b, a, i))
      BY <1>1, <2>1 DEF FirstCode
  <2>3. RingBefore(a, b) <=> TailBefore(a, b)
      BY <1>1, <2>2, RingBeforeIs
  <2>4. RingBefore(b, a) <=> TailBefore(b, a)
      BY <1>1, <2>2, RingBeforeIs
  <2>5. /\ TailBefore(a, b) => ~TailBefore(b, a)
        /\ ~TailBefore(a, b) /\ ~TailBefore(b, a) <=> a.offset = b.offset /\ a.comment = b.comment /\ a.id = b.id
      BY RingTypes DEF TailBefore
  <2> QED BY <1>1, <2>3, <2>4, <2>5 DEF SameRing
<1>2. CASE ~\A i \in Nat \ {0} : CodeAt(a, i) = CodeAt(b, i)
  <2>1. PICK k \in Nat \ {0} : FirstCode(a, b, k) \/ FirstCode(b, a, k)
      BY <1>2, FirstDifference
  <2>2. RingBefore(a, b) <=> \E i \in Nat \ {0} : FirstCode(a, b, i)
      BY <1>2, RingBeforeIs
  <2>3. RingBefore(b, a) <=> \E i \in Nat \ {0} : FirstCode(b, a, i)
      BY <1>2, RingBeforeIs
  <2>4. \A i, j \in Nat \ {0} : FirstCode(a, b, i) => ~FirstCode(b, a, j)
    <3> SUFFICES ASSUME NEW i \in Nat \ {0}, NEW j \in Nat \ {0}, FirstCode(a, b, i), FirstCode(b, a, j)
                 PROVE  FALSE
        OBVIOUS
    <3>1. CodeAt(a, i) \in Nat /\ CodeAt(b, i) \in Nat /\ CodeAt(a, j) \in Nat /\ CodeAt(b, j) \in Nat
        BY RingLayers
    <3>2. CASE i < j
        BY <3>1, <3>2 DEF FirstCode
    <3>3. CASE j < i
        BY <3>1, <3>3 DEF FirstCode
    <3>4. CASE i = j
        BY <3>1, <3>4 DEF FirstCode
    <3> QED BY <3>2, <3>3, <3>4
  <2> QED BY <1>2, <2>1, <2>2, <2>3, <2>4 DEF SameRing
<1> QED BY <1>1, <1>2

LEMMA RingsInOrder ==
    ASSUME NEW a \in Rings, NEW b \in Rings, NEW c \in Rings, RingBefore(a, b), RingBefore(b, c)
    PROVE  RingBefore(a, c)
<1> DEFINE P == Nat \ {0}
<1>1. \A i \in P : CodeAt(a, i) \in Nat /\ CodeAt(b, i) \in Nat /\ CodeAt(c, i) \in Nat
    BY RingLayers
<1>2. /\ RingBefore(a, b) <=> (\E i \in P : FirstCode(a, b, i)) \/ ((\A i \in P : CodeAt(a, i) = CodeAt(b, i)) /\ TailBefore(a, b))
      /\ RingBefore(b, c) <=> (\E i \in P : FirstCode(b, c, i)) \/ ((\A i \in P : CodeAt(b, i) = CodeAt(c, i)) /\ TailBefore(b, c))
      /\ RingBefore(a, c) <=> (\E i \in P : FirstCode(a, c, i)) \/ ((\A i \in P : CodeAt(a, i) = CodeAt(c, i)) /\ TailBefore(a, c))
    BY RingBeforeIs
<1>3. ASSUME NEW i \in P, FirstCode(a, b, i), NEW j \in P, FirstCode(b, c, j) PROVE \E k \in P : FirstCode(a, c, k)
  <2>1. CASE i < j
    <3>1. FirstCode(a, c, i)
        BY <1>1, <1>3, <2>1 DEF FirstCode
    <3> QED BY <3>1
  <2>2. CASE j < i
    <3>1. FirstCode(a, c, j)
        BY <1>1, <1>3, <2>2 DEF FirstCode
    <3> QED BY <3>1
  <2>3. CASE i = j
    <3>1. FirstCode(a, c, i)
        BY <1>1, <1>3, <2>3 DEF FirstCode
    <3> QED BY <3>1
  <2> QED BY <2>1, <2>2, <2>3
<1>4. ASSUME NEW i \in P, FirstCode(a, b, i), \A j \in P : CodeAt(b, j) = CodeAt(c, j) PROVE FirstCode(a, c, i)
    BY <1>4 DEF FirstCode
<1>5. ASSUME NEW i \in P, FirstCode(b, c, i), \A j \in P : CodeAt(a, j) = CodeAt(b, j) PROVE FirstCode(a, c, i)
    BY <1>5 DEF FirstCode
<1>6. TailBefore(a, b) /\ TailBefore(b, c) => TailBefore(a, c)
    BY RingTypes DEF TailBefore
<1> HIDE DEF P
<1> QED BY <1>2, <1>3, <1>4, <1>5, <1>6

LEMMA RingsBetween ==
    ASSUME NEW a \in Rings, NEW b \in Rings, NEW c \in Rings, RingBefore(a, c)
    PROVE  RingBefore(a, b) \/ RingBefore(b, c)
<1>1. CASE RingBefore(b, a)
    BY <1>1, RingsInOrder
<1>2. CASE RingBefore(c, b)
    BY <1>2, RingsInOrder
<1>3. CASE SameRing(a, b) /\ SameRing(b, c)
  <2>1. SameRing(a, c)
      BY <1>3 DEF SameRing
  <2> QED BY <2>1, RingsOneWay
<1> QED BY <1>1, <1>2, <1>3, RingsOneWay

-----------------------------------------------------------------------------
(* Sorting.                                                                *)

RingList(rs) == IsList(rs) /\ \A k \in DOMAIN rs : rs[k] \in Rings

PlaceOf(rs) == [k \in DOMAIN rs |-> Cardinality({j \in DOMAIN rs : Precedes(rs, j, k)})]

\* Each entry has a place of its own.
LEMMA RingPlaces ==
    ASSUME NEW rs, RingList(rs)
    PROVE  /\ InLine(DOMAIN rs, PlaceOf(rs))
           /\ \A j, k \in DOMAIN rs : PlaceOf(rs)[j] < PlaceOf(rs)[k] <=> Precedes(rs, j, k)
<1> DEFINE D == DOMAIN rs
           before(k) == {j \in D : Precedes(rs, j, k)}
<1>1. IsFiniteSet(D) /\ D \subseteq Nat
  <2>1. D = 1 .. Len(rs) /\ Len(rs) \in Nat
      BY DEF RingList, IsList
  <2> HIDE DEF D
  <2> QED BY <2>1, NumbersTo
<1>2. \A k \in D : rs[k] \in Rings /\ k \in Nat
    BY <1>1 DEF RingList
<1> HIDE DEF D
<1>3. ASSUME NEW j \in D, NEW k \in D PROVE /\ Precedes(rs, j, k) => ~Precedes(rs, k, j)
                                            /\ j # k => Precedes(rs, j, k) \/ Precedes(rs, k, j)
  <2>1. RingBefore(rs[j], rs[k]) => ~RingBefore(rs[k], rs[j])
      BY <1>2, RingsOneWay
  <2>2. j \in Nat /\ k \in Nat
      BY <1>2
  <2> QED BY <2>1, <2>2 DEF Precedes
<1>4. ASSUME NEW j \in D, NEW k \in D, NEW l \in D, Precedes(rs, j, k), Precedes(rs, k, l)
      PROVE  Precedes(rs, j, l)
  <2> DEFINE a == rs[j]
             b == rs[k]
             c == rs[l]
  <2>1. a \in Rings /\ b \in Rings /\ c \in Rings /\ j \in Nat /\ k \in Nat /\ l \in Nat
      BY <1>2
  <2>2. Precedes(rs, j, k) <=> RingBefore(a, b) \/ (~RingBefore(b, a) /\ j < k)
      BY DEF Precedes
  <2>3. Precedes(rs, k, l) <=> RingBefore(b, c) \/ (~RingBefore(c, b) /\ k < l)
      BY DEF Precedes
  <2>4. Precedes(rs, j, l) <=> RingBefore(a, c) \/ (~RingBefore(c, a) /\ j < l)
      BY DEF Precedes
  <2> HIDE DEF a, b, c
  <2>5. RingBefore(a, b) => RingBefore(a, c) \/ RingBefore(c, b)
      BY <2>1, RingsBetween
  <2>6. RingBefore(b, c) => RingBefore(b, a) \/ RingBefore(a, c)
      BY <2>1, RingsBetween
  <2>7. RingBefore(c, a) => RingBefore(c, b) \/ RingBefore(b, a)
      BY <2>1, RingsBetween
  <2>8. (RingBefore(a, b) => ~RingBefore(b, a)) /\ (RingBefore(b, c) => ~RingBefore(c, b))
      BY <2>1, RingsOneWay
  <2>9. RingBefore(a, b) /\ RingBefore(b, c) => RingBefore(a, c)
      BY <2>1, RingsInOrder
  <2> QED BY <1>4, <2>1, <2>2, <2>3, <2>4, <2>5, <2>6, <2>7, <2>8, <2>9
<1>5. ASSUME NEW k \in D PROVE IsFiniteSet(before(k)) /\ Cardinality(before(k)) \in Nat
  <2>1. before(k) \subseteq D
      OBVIOUS
  <2> HIDE DEF before
  <2> QED BY <1>1, <2>1, FS_Subset, FS_CardinalityType
<1>6. ASSUME NEW j \in D, NEW k \in D, Precedes(rs, j, k)
      PROVE  Cardinality(before(j)) < Cardinality(before(k))
  <2>1. before(j) \subseteq before(k) /\ j \in before(k) /\ j \notin before(j)
      BY <1>3, <1>4, <1>6
  <2>2. /\ IsFiniteSet(before(k)) /\ Cardinality(before(k)) \in Nat
        /\ IsFiniteSet(before(j)) /\ Cardinality(before(j)) \in Nat
    <3> HIDE DEF before
    <3> QED BY <1>5
  <2> HIDE DEF before
  <2>3. Cardinality(before(j)) <= Cardinality(before(k)) /\ Cardinality(before(j)) # Cardinality(before(k))
      BY <2>1, <2>2, FS_Subset
  <2> QED BY <2>2, <2>3
<1> DEFINE f == PlaceOf(rs)
<1>7. \A k \in D : f[k] = Cardinality(before(k))
    BY DEF PlaceOf, D
<1> HIDE DEF f, before
<1>8. \A j, k \in D : f[j] < f[k] <=> Precedes(rs, j, k)
  <2> SUFFICES ASSUME NEW j \in D, NEW k \in D PROVE f[j] < f[k] <=> Precedes(rs, j, k)
      OBVIOUS
  <2>1. f[j] \in Nat /\ f[k] \in Nat
      BY <1>5, <1>7
  <2>2. Precedes(rs, j, k) => f[j] < f[k]
      BY <1>6, <1>7
  <2>3. Precedes(rs, k, j) => f[k] < f[j]
      BY <1>6, <1>7
  <2> QED BY <1>3, <2>1, <2>2, <2>3
<1>9. \A j, k \in D : f[j] = f[k] => j = k
  <2> SUFFICES ASSUME NEW j \in D, NEW k \in D, f[j] = f[k] PROVE j = k
      OBVIOUS
  <2>1. f[j] \in Nat /\ f[k] \in Nat
      BY <1>5, <1>7
  <2> QED BY <1>3, <1>8, <2>1
<1> QED BY <1>1, <1>5, <1>7, <1>8, <1>9 DEF InLine, D, f

\* An order of the positions of rs, and its inverse.
Reorders(order, rs) ==
    /\ order \in [1 .. Len(rs) -> 1 .. Len(rs)]
    /\ \A j, k \in 1 .. Len(rs) : order[j] = order[k] => j = k
    /\ \A k \in 1 .. Len(rs) : \E j \in 1 .. Len(rs) : order[j] = k

RingOrder(rs) == Listing(DOMAIN rs, PlaceOf(rs))

\* Sorting puts the entries in another order, in which none comes before an
\* earlier one.
LEMMA SortedRings ==
    ASSUME NEW rs, RingList(rs)
    PROVE  /\ RingList(SortRings(rs)) /\ Len(SortRings(rs)) = Len(rs)
           /\ Reorders(RingOrder(rs), rs)
           /\ \A k \in 1 .. Len(rs) : SortRings(rs)[k] = rs[RingOrder(rs)[k]]
           /\ \A j, k \in 1 .. Len(rs) : j < k <=> Precedes(rs, RingOrder(rs)[j], RingOrder(rs)[k])
<1> DEFINE D == DOMAIN rs
           f == PlaceOf(rs)
           order == RingOrder(rs)
           N == Len(rs)
           t == SortRings(rs)
<1>1. D = 1 .. N /\ N \in Nat /\ \A k \in D : rs[k] \in Rings
    BY DEF RingList, IsList
<1>2. Cardinality(D) = N
  <2> HIDE DEF D, N
  <2> QED BY <1>1, NumbersTo
<1>3. InLine(D, f) /\ \A j, k \in D : f[j] < f[k] <=> Precedes(rs, j, k)
    BY RingPlaces
<1>4. order = Listing(D, f) /\ t = [k \in D |-> rs[order[k]]]
    BY DEF RingOrder, SortRings, PlaceOf
<1> HIDE DEF D, f, order, N, t
<1>5. /\ DOMAIN order = 1 .. N
      /\ \A n \in 1 .. N : order[n] \in D
      /\ \A x \in D : Rank(D, f, x) \in 1 .. N /\ order[Rank(D, f, x)] = x
      /\ \A m, n \in 1 .. N : (order[m] = order[n] => m = n) /\ (m <= n <=> f[order[m]] <= f[order[n]])
    BY <1>2, <1>3, <1>4, Listed
<1>6. order \in [1 .. N -> 1 .. N]
  <2>1. order = [n \in 1 .. N |-> order[n]]
      BY <1>2, <1>4 DEF Listing
  <2> QED BY <1>1, <1>5, <2>1
<1>7. \A k \in 1 .. N : \E j \in 1 .. N : order[j] = k
    BY <1>1, <1>5
<1>8. DOMAIN t = 1 .. N /\ t = [k \in 1 .. N |-> t[k]] /\ \A k \in 1 .. N : t[k] = rs[order[k]]
    BY <1>1, <1>4
<1>9. IsList(t) /\ Len(t) = N
    BY <1>1, <1>8, IsNumbered
<1>10. \A k \in DOMAIN t : t[k] \in Rings
    BY <1>1, <1>6, <1>8
<1>11. ASSUME NEW j \in 1 .. N, NEW k \in 1 .. N PROVE j < k <=> Precedes(rs, order[j], order[k])
  <2>1. order[j] \in D /\ order[k] \in D /\ (k <= j <=> f[order[k]] <= f[order[j]])
      BY <1>5
  <2>2. f[order[j]] \in Nat /\ f[order[k]] \in Nat
      BY <1>3, <2>1 DEF InLine
  <2>3. j < k <=> f[order[j]] < f[order[k]]
      BY <1>1, <2>1, <2>2
  <2> QED BY <1>3, <2>1, <2>3
<1>12. RingList(t)
    BY <1>9, <1>10 DEF RingList
<1>13. Reorders(order, rs)
    BY <1>1, <1>5, <1>6, <1>7 DEF Reorders, N
<1> QED BY <1>8, <1>9, <1>11, <1>12, <1>13 DEF order, t, N

LEMMA SortedHas ==
    ASSUME NEW rs, RingList(rs)
    PROVE  ToSet(SortRings(rs)) = ToSet(rs)
<1> DEFINE N == Len(rs)
           t == SortRings(rs)
           order == RingOrder(rs)
<1>1. N \in Nat /\ DOMAIN rs = 1 .. N
    BY DEF RingList, IsList
<1>2. /\ DOMAIN t = 1 .. N /\ \A k \in 1 .. N : t[k] = rs[order[k]]
      /\ order \in [1 .. N -> 1 .. N] /\ \A k \in 1 .. N : \E j \in 1 .. N : order[j] = k
    BY SortedRings DEF RingList, IsList, Reorders
<1> HIDE DEF N, t, order
<1> QED BY <1>1, <1>2, SMTT(40) DEF ToSet, t

LEMMA SortedIds ==
    ASSUME NEW rs, RingList(rs), HasIds(rs)
    PROVE  HasIds(SortRings(rs))
<1> DEFINE N == Len(rs)
           t == SortRings(rs)
           order == RingOrder(rs)
<1>1. N \in Nat /\ DOMAIN rs = 1 .. N
    BY DEF RingList, IsList
<1>2. /\ DOMAIN t = 1 .. N /\ \A k \in 1 .. N : t[k] = rs[order[k]]
      /\ order \in [1 .. N -> 1 .. N] /\ \A j, k \in 1 .. N : order[j] = order[k] => j = k
    BY SortedRings DEF RingList, IsList, Reorders
<1> HIDE DEF N, t, order
<1>3. \A j, k \in 1 .. N : t[j].id = t[k].id => j = k \/ t[j].id = NoId
    BY <1>1, <1>2, SMTT(40) DEF HasIds
<1> QED BY <1>2, <1>3 DEF HasIds, t

\* What is in order stays as it is.
LEMMA SortedAgain ==
    ASSUME NEW rs, RingList(rs), \A j, k \in DOMAIN rs : j < k => ~RingBefore(rs[k], rs[j])
    PROVE  SortRings(rs) = rs
<1> DEFINE D == DOMAIN rs
           N == Len(rs)
           f == PlaceOf(rs)
           t == [n \in 1 .. N |-> n]
<1>1. N \in Nat /\ D = 1 .. N /\ rs = [k \in D |-> rs[k]] /\ \A k \in D : rs[k] \in Rings
    BY DEF RingList, IsList
<1>2. InLine(D, f) /\ \A j, k \in D : f[j] < f[k] <=> Precedes(rs, j, k)
    BY RingPlaces
<1>3. \A j, k \in D : j < k => Precedes(rs, j, k)
    BY DEF Precedes
<1>4. SortRings(rs) = [k \in D |-> rs[Listing(D, f)[k]]]
    BY DEF SortRings, PlaceOf
<1> HIDE DEF D, N, f
<1>5. \A j, k \in D : f[j] <= f[k] <=> j <= k
  <2> SUFFICES ASSUME NEW j \in D, NEW k \in D PROVE f[j] <= f[k] <=> j <= k
      OBVIOUS
  <2>1. f[j] \in Nat /\ f[k] \in Nat /\ j \in Nat /\ k \in Nat
      BY <1>1, <1>2 DEF InLine
  <2>2. (j < k => f[j] < f[k]) /\ (k < j => f[k] < f[j])
      BY <1>2, <1>3
  <2> QED BY <2>1, <2>2
<1>6. Cardinality(D) = N
    BY <1>1, NumbersTo
<1>7. ASSUME NEW k \in D PROVE Rank(D, f, k) = k
  <2>1. {y \in D : f[y] <= f[k]} = 1 .. k /\ k \in Nat
      BY <1>1, <1>5
  <2>2. Cardinality(1 .. k) = k
      BY <2>1, NumbersTo
  <2> QED BY <2>1, <2>2 DEF Rank
<1>8. HasPlaces(t, D, f)
    BY <1>1, <1>6, <1>7 DEF HasPlaces
<1>9. Listing(D, f) = t
    BY <1>2, <1>8, IsListing
<1> QED BY <1>1, <1>4, <1>9

\* Sorting puts a list in order.
LEMMA SortsInOrder ==
    ASSUME NEW rs, RingList(rs)
    PROVE  \A j, k \in DOMAIN SortRings(rs) : j < k => ~RingBefore(SortRings(rs)[k], SortRings(rs)[j])
<1> DEFINE N == Len(rs)
           t == SortRings(rs)
           order == RingOrder(rs)
<1>1. N \in Nat /\ DOMAIN rs = 1 .. N /\ \A k \in 1 .. N : rs[k] \in Rings
    BY DEF RingList, IsList
<1>2. /\ DOMAIN t = 1 .. N /\ \A k \in 1 .. N : t[k] = rs[order[k]]
      /\ order \in [1 .. N -> 1 .. N] /\ \A j, k \in 1 .. N : j < k <=> Precedes(rs, order[j], order[k])
    BY SortedRings DEF RingList, IsList, Reorders
<1> HIDE DEF N, t, order
<1>3. ASSUME NEW j \in 1 .. N, NEW k \in 1 .. N, j < k PROVE ~RingBefore(t[k], t[j])
  <2>1. Precedes(rs, order[j], order[k])
      BY <1>2, <1>3
  <2>2. RingBefore(t[j], t[k]) \/ ~RingBefore(t[k], t[j])
      BY <1>2, <2>1 DEF Precedes
  <2>3. t[j] \in Rings /\ t[k] \in Rings
      BY <1>1, <1>2
  <2> QED BY <2>2, <2>3, RingsOneWay
<1> QED BY <1>2, <1>3 DEF t

-----------------------------------------------------------------------------
(* Changes of entries.                                                     *)

LayerTypes == [code : Nat, tools : SUBSET Texts]
LayerChanges == [code : {Absent} \cup Nat, tools : {Absent} \cup SUBSET Texts]

IsRingChange(c) ==
    /\ c \in [id : {NoId} \cup Nat, remove : BOOLEAN, offset : {Absent} \cup Nat,
              comment : {Absent} \cup Nat, layers : {c.layers}]
    /\ IsFiniteSet(DOMAIN c.layers) /\ DOMAIN c.layers \subseteq Nat \ {0}
    /\ c.layers \in [DOMAIN c.layers -> LayerChanges]

\* The same but for ids and empty layers at the end.
Alike(a, b) ==
    a.offset = b.offset /\ a.comment = b.comment /\ \A i \in Nat \ {0} : LayerAt(a, i) = LayerAt(b, i)

LEMMA NotAbsent == Absent \notin Nat /\ \A S \in SUBSET Texts : S # Absent
BY ValuesAssumption

\* The layers to the last that is named.
LEMMA LayersTo ==
    ASSUME NEW n \in Nat, NEW S \in SUBSET (Nat \ {0}), IsFiniteSet(S)
    PROVE  LET U == (1 .. n) \cup UNION {1 .. i : i \in S} IN
           Cardinality(U) \in Nat /\ 1 .. Cardinality(U) = U
<1> DEFINE U == (1 .. n) \cup UNION {1 .. i : i \in S}
<1>1. \E m \in Nat : U = 1 .. m
  <2>1. CASE S = {}
    <3>1. U = 1 .. n
        BY <2>1
    <3> QED BY <3>1
  <2>2. CASE S # {}
    <3>1. PICK p \in S : \A q \in S : q <= p
      <4>1. S \in SUBSET Nat
          OBVIOUS
      <4> QED BY <2>2, <4>1, GreatestNumber
    <3>2. CASE p <= n
      <4>1. U = 1 .. n
          BY <3>1, <3>2
      <4> QED BY <4>1
    <3>3. CASE n < p
      <4>1. U = 1 .. p
          BY <3>1, <3>3
      <4> QED BY <4>1
    <3> QED BY <3>2, <3>3
  <2> QED BY <2>1, <2>2
<1>2. PICK m \in Nat : U = 1 .. m
    BY <1>1
<1>3. Cardinality(1 .. m) = m
    BY NumbersTo
<1> QED BY <1>2, <1>3

LEMMA ChangedLayer ==
    ASSUME NEW l \in LayerTypes, NEW new \in LayerChanges, NEW merging
    PROVE  ChangeLayer(l, new, merging) \in LayerTypes
<1>1. new.code # Absent => new.code \in Nat
    BY DEF LayerChanges
<1>2. new.tools # Absent => new.tools \in SUBSET Texts
    BY DEF LayerChanges
<1>3. l.code \in Nat /\ l.tools \in SUBSET Texts
    BY DEF LayerTypes
<1> DEFINE code == IF new.code = Absent THEN l.code ELSE new.code
           tools == IF new.tools = Absent THEN l.tools ELSE IF merging THEN l.tools \cup new.tools ELSE new.tools
<1>4. code \in Nat
    BY <1>1, <1>3
<1>5. tools \in SUBSET Texts
    BY <1>2, <1>3
<1>6. ChangeLayer(l, new, merging) = [code |-> code, tools |-> tools]
    BY DEF ChangeLayer
<1> HIDE DEF code, tools
<1> QED BY <1>4, <1>5, <1>6 DEF LayerTypes

LastLayer(r, c) == Cardinality(DOMAIN r.layers \cup UNION {1..i : i \in DOMAIN c.layers})

LEMMA ChangedEntry ==
    ASSUME NEW r \in Rings, NEW c, IsRingChange(c), NEW merging
    PROVE  LET q == ChangeEntry(r, c, merging) IN
           /\ q \in Rings /\ q.id = r.id
           /\ q.offset = IF c.offset = Absent THEN r.offset ELSE c.offset
           /\ q.comment = IF c.comment = Absent THEN r.comment ELSE c.comment
           /\ \A i \in Nat \ {0} : LayerAt(q, i) = IF i \in DOMAIN c.layers THEN ChangeLayer(LayerAt(r, i), c.layers[i], merging)
                                                   ELSE LayerAt(r, i)
           /\ DOMAIN q.layers = DOMAIN r.layers \cup UNION {1 .. i : i \in DOMAIN c.layers}
<1> DEFINE S == DOMAIN c.layers
           n == Len(r.layers)
           last == LastLayer(r, c)
           at(i) == IF i \in S THEN ChangeLayer(LayerAt(r, i), c.layers[i], merging) ELSE LayerAt(r, i)
           layers == [i \in 1 .. last |-> at(i)]
           q == ChangeEntry(r, c, merging)
<1>1. n \in Nat /\ DOMAIN r.layers = 1 .. n /\ (\A i \in Nat \ {0} : LayerAt(r, i) \in LayerTypes)
      /\ \A i : i \notin DOMAIN r.layers => LayerAt(r, i) = EmptyLayer
    BY RingLayers DEF IsList, LayerTypes
<1>2. S \in SUBSET (Nat \ {0}) /\ IsFiniteSet(S) /\ \A i \in S : c.layers[i] \in LayerChanges
    BY DEF IsRingChange
<1>3. last \in Nat /\ 1 .. last = DOMAIN r.layers \cup UNION {1 .. i : i \in S}
  <2> DEFINE U == (1 .. n) \cup UNION {1 .. i : i \in S}
  <2>1. last = Cardinality(U) /\ U = DOMAIN r.layers \cup UNION {1 .. i : i \in S}
      BY <1>1 DEF LastLayer
  <2>2. Cardinality(U) \in Nat /\ 1 .. Cardinality(U) = U
    <3> HIDE DEF S, n
    <3> QED BY <1>1, <1>2, LayersTo
  <2> QED BY <2>1, <2>2
<1>4. \A i \in Nat \ {0} : at(i) \in LayerTypes
  <2> SUFFICES ASSUME NEW i \in Nat \ {0} PROVE at(i) \in LayerTypes
      OBVIOUS
  <2>1. CASE i \in S
    <3>1. ChangeLayer(LayerAt(r, i), c.layers[i], merging) \in LayerTypes
      <4> HIDE DEF S
      <4> QED BY <1>1, <1>2, <2>1, ChangedLayer
    <3> QED BY <2>1, <3>1
  <2>2. CASE i \notin S
      BY <1>1, <2>2
  <2> QED BY <2>1, <2>2
<1>5. layers \in Seq(LayerTypes)
  <2> HIDE DEF at, last
  <2>1. layers \in [1 .. last -> LayerTypes]
      BY <1>3, <1>4
  <2> HIDE DEF layers
  <2> QED BY <1>3, <2>1
<1> DEFINE offset == IF c.offset = Absent THEN r.offset ELSE c.offset
           comment == IF c.comment = Absent THEN r.comment ELSE c.comment
<1>6. offset \in Nat /\ comment \in Nat
    BY DEF IsRingChange, Rings
<1>7. q = [r EXCEPT !.offset = offset, !.comment = comment, !.layers = layers]
    BY DEF ChangeEntry, LastLayer
<1>8. DOMAIN layers = 1 .. last /\ \A i \in 1 .. last : layers[i] = at(i)
    OBVIOUS
<1>9. ASSUME NEW i \in Nat \ {0}, i \notin 1 .. last PROVE at(i) = EmptyLayer
  <2>1. i \notin DOMAIN r.layers
      BY <1>3, <1>9
  <2>2. i \notin S
      BY <1>2, <1>3, <1>9
  <2> QED BY <1>1, <2>1, <2>2
<1> HIDE DEF offset, comment, layers, q, at, last, S
<1>10. /\ q \in Rings /\ q.id = r.id /\ q.offset = offset /\ q.comment = comment /\ q.layers = layers
    BY <1>5, <1>6, <1>7 DEF Rings, LayerTypes
<1>11. ASSUME NEW i \in Nat \ {0} PROVE LayerAt(q, i) = at(i)
    BY <1>8, <1>9, <1>10 DEF LayerAt
<1> QED BY <1>3, <1>8, <1>10, <1>11 DEF q, offset, comment, at, S

LEMMA RingChangeIs ==
    ASSUME NEW o \in Rings, NEW r \in Rings
    PROVE  LET c == RingEntryChange(o, r) IN
           /\ IsRingChange(c) /\ c.id = o.id /\ c.remove = FALSE
           /\ c.offset = TextChange(o.offset, r.offset) /\ c.comment = TextChange(o.comment, r.comment)
           /\ \A i \in Nat \ {0} : i \in DOMAIN c.layers <=> LayerAt(o, i) # LayerAt(r, i)
           /\ \A i \in DOMAIN c.layers :
                 c.layers[i] = [code |-> TextChange(LayerAt(o, i).code, LayerAt(r, i).code),
                                tools |-> TextChange(LayerAt(o, i).tools, LayerAt(r, i).tools)]
<1> DEFINE m == MostLayers(o.layers, r.layers)
           D == {i \in 1 .. m : LayerAt(o, i) # LayerAt(r, i)}
           at(i) == [code |-> TextChange(LayerAt(o, i).code, LayerAt(r, i).code),
                     tools |-> TextChange(LayerAt(o, i).tools, LayerAt(r, i).tools)]
           layers == [i \in D |-> at(i)]
           c == RingEntryChange(o, r)
<1>1. /\ \A i \in Nat \ {0} : LayerAt(o, i) \in LayerTypes /\ LayerAt(r, i) \in LayerTypes
      /\ \A i : i \notin DOMAIN o.layers => LayerAt(o, i) = EmptyLayer
      /\ \A i : i \notin DOMAIN r.layers => LayerAt(r, i) = EmptyLayer
      /\ Len(o.layers) \in Nat /\ Len(r.layers) \in Nat
      /\ DOMAIN o.layers = 1 .. Len(o.layers) /\ DOMAIN r.layers = 1 .. Len(r.layers)
    BY RingLayers DEF LayerTypes, IsList
<1>2. m \in Nat /\ Len(o.layers) <= m /\ Len(r.layers) <= m
    BY <1>1 DEF MostLayers
<1>3. c = [id |-> o.id, remove |-> FALSE, offset |-> TextChange(o.offset, r.offset),
           comment |-> TextChange(o.comment, r.comment), layers |-> layers]
    BY DEF RingEntryChange
<1> HIDE DEF m
<1>4. D \subseteq Nat \ {0} /\ IsFiniteSet(D)
  <2>1. IsFiniteSet(1 .. m)
      BY <1>2, NumbersTo
  <2>2. D \subseteq 1 .. m
      OBVIOUS
  <2>3. D \subseteq Nat \ {0}
      BY <1>2, <2>2
  <2> HIDE DEF D
  <2>4. IsFiniteSet(D)
      BY <2>1, <2>2, FS_Subset
  <2> QED BY <2>3, <2>4
<1>5. \A i \in Nat \ {0} : i \in D <=> LayerAt(o, i) # LayerAt(r, i)
    BY <1>1, <1>2
<1> HIDE DEF D
<1>6. ASSUME NEW i \in D PROVE at(i) \in LayerChanges
  <2>1. LayerAt(o, i) \in LayerTypes /\ LayerAt(r, i) \in LayerTypes
      BY <1>1, <1>4
  <2>2. LayerAt(r, i).code \in Nat /\ LayerAt(r, i).tools \in SUBSET Texts
      BY <2>1 DEF LayerTypes
  <2>3. TextChange(LayerAt(o, i).code, LayerAt(r, i).code) \in {Absent} \cup Nat
      BY <2>2 DEF TextChange
  <2>4. TextChange(LayerAt(o, i).tools, LayerAt(r, i).tools) \in {Absent} \cup SUBSET Texts
      BY <2>2 DEF TextChange
  <2> QED BY <2>3, <2>4 DEF LayerChanges
<1> HIDE DEF at
<1>7. DOMAIN layers = D /\ layers \in [D -> LayerChanges] /\ \A i \in D : layers[i] = at(i)
    BY <1>6
<1> HIDE DEF layers
<1>8. /\ TextChange(o.offset, r.offset) \in {Absent} \cup Nat
      /\ TextChange(o.comment, r.comment) \in {Absent} \cup Nat
    BY RingTypes DEF TextChange
<1>9. o.id \in {NoId} \cup Nat
    BY RingTypes
<1> HIDE DEF c
<1>10. /\ c.id = o.id /\ c.remove = FALSE /\ c.offset = TextChange(o.offset, r.offset)
       /\ c.comment = TextChange(o.comment, r.comment) /\ c.layers = layers
    BY <1>3
<1>11. c \in [id : {NoId} \cup Nat, remove : BOOLEAN, offset : {Absent} \cup Nat,
              comment : {Absent} \cup Nat, layers : {c.layers}]
    BY <1>3, <1>8, <1>9, <1>10
<1>12. IsRingChange(c)
    BY <1>4, <1>7, <1>10, <1>11 DEF IsRingChange
<1>13. \A i \in Nat \ {0} : i \in DOMAIN c.layers <=> LayerAt(o, i) # LayerAt(r, i)
    BY <1>5, <1>7, <1>10
<1>14. \A i \in DOMAIN c.layers : c.layers[i] = at(i)
    BY <1>7, <1>10
<1> QED BY <1>10, <1>12, <1>13, <1>14 DEF c, at

LEMMA RingChangeHead ==
    ASSUME NEW o \in Rings, NEW r \in Rings
    PROVE  /\ IsRingChange(RingEntryChange(o, r))
           /\ RingEntryChange(o, r).id = o.id /\ RingEntryChange(o, r).remove = FALSE
BY RingChangeIs

\* The change between two entries turns the one into the other.
LEMMA EntryChanged ==
    ASSUME NEW o \in Rings, NEW r \in Rings
    PROVE  LET c == RingEntryChange(o, r) IN
           /\ Alike(ChangeEntry(o, c, FALSE), r)
           /\ SaysNothing(c) <=> Alike(o, r)
<1> DEFINE c == RingEntryChange(o, r)
           no == FALSE
           q == ChangeEntry(o, c, no)
<1>1. /\ IsRingChange(c) /\ c.id = o.id /\ c.remove = FALSE
      /\ c.offset = TextChange(o.offset, r.offset) /\ c.comment = TextChange(o.comment, r.comment)
      /\ \A i \in Nat \ {0} : i \in DOMAIN c.layers <=> LayerAt(o, i) # LayerAt(r, i)
      /\ \A i \in DOMAIN c.layers :
            c.layers[i] = [code |-> TextChange(LayerAt(o, i).code, LayerAt(r, i).code),
                           tools |-> TextChange(LayerAt(o, i).tools, LayerAt(r, i).tools)]
    BY RingChangeIs
<1> HIDE DEF c
<1>2. /\ q.offset = IF c.offset = Absent THEN o.offset ELSE c.offset
      /\ q.comment = IF c.comment = Absent THEN o.comment ELSE c.comment
      /\ \A i \in Nat \ {0} : LayerAt(q, i) = IF i \in DOMAIN c.layers THEN ChangeLayer(LayerAt(o, i), c.layers[i], no)
                                              ELSE LayerAt(o, i)
  <2> HIDE DEF no
  <2> QED BY <1>1, ChangedEntry
<1> HIDE DEF q
<1>3. /\ \A i \in Nat \ {0} : LayerAt(o, i) \in LayerTypes /\ LayerAt(r, i) \in LayerTypes
    BY RingLayers DEF LayerTypes
<1>4. r.offset \in Nat /\ r.comment \in Nat /\ o.offset \in Nat /\ o.comment \in Nat
    BY RingTypes
<1>5. q.offset = r.offset /\ q.comment = r.comment
    BY <1>1, <1>2, <1>4, NotAbsent DEF TextChange
<1>6. ASSUME NEW i \in Nat \ {0} PROVE LayerAt(q, i) = LayerAt(r, i)
  <2>1. CASE i \notin DOMAIN c.layers
      BY <1>1, <1>2, <2>1
  <2>2. CASE i \in DOMAIN c.layers
    <3> DEFINE l == LayerAt(o, i)
               n == LayerAt(r, i)
    <3>1. l \in LayerTypes /\ n \in LayerTypes
        BY <1>3
    <3>2. c.layers[i] = [code |-> TextChange(l.code, n.code), tools |-> TextChange(l.tools, n.tools)]
        BY <1>1, <2>2
    <3>3. LayerAt(q, i) = ChangeLayer(l, c.layers[i], FALSE)
        BY <1>2, <2>2
    <3> HIDE DEF l, n
    <3>4. n.code # Absent /\ n.tools # Absent /\ n = [code |-> n.code, tools |-> n.tools]
        BY <3>1, NotAbsent DEF LayerTypes
    <3>5. ChangeLayer(l, c.layers[i], FALSE) = [code |-> n.code, tools |-> n.tools]
        BY <3>2, <3>4 DEF ChangeLayer, TextChange
    <3> QED BY <3>3, <3>4, <3>5 DEF n
  <2> QED BY <2>1, <2>2
<1>7. Alike(q, r)
    BY <1>5, <1>6 DEF Alike
<1>8. SaysNothing(c) <=> Alike(o, r)
  <2>1. DOMAIN c.layers \subseteq Nat \ {0}
      BY <1>1 DEF IsRingChange
  <2>2. DOMAIN c.layers = {} <=> \A i \in Nat \ {0} : LayerAt(o, i) = LayerAt(r, i)
      BY <1>1, <2>1
  <2>3. (c.offset = Absent <=> o.offset = r.offset) /\ (c.comment = Absent <=> o.comment = r.comment)
      BY <1>1, <1>4, NotAbsent DEF TextChange
  <2> QED BY <1>1, <2>2, <2>3 DEF SaysNothing, Alike
<1> QED BY <1>7, <1>8 DEF q, c

LEMMA EmptyRingIs == EmptyRing \in Rings /\ EmptyRing.id = NoId /\ \A i : LayerAt(EmptyRing, i) = EmptyLayer
<1>1. <<>> \in Seq([code : Nat, tools : SUBSET Texts]) /\ DOMAIN <<>> = {}
    OBVIOUS
<1> QED BY <1>1 DEF EmptyRing, Rings, LayerAt

\* What is alike the empty entry is empty.
LEMMA EmptyAlike ==
    ASSUME NEW r \in Rings
    PROVE  Alike(EmptyRing, r) <=> RingIsEmpty(r)
<1>1. /\ DOMAIN r.layers \subseteq Nat \ {0} /\ \A i : i \notin DOMAIN r.layers => LayerAt(r, i) = EmptyLayer
      /\ \A i \in DOMAIN r.layers : LayerAt(r, i) = r.layers[i]
    BY RingLayers DEF LayerAt
<1>2. EmptyRing.offset = 0 /\ EmptyRing.comment = 0 /\ \A i : LayerAt(EmptyRing, i) = EmptyLayer
    BY EmptyRingIs DEF EmptyRing
<1> QED BY <1>1, <1>2 DEF Alike, RingIsEmpty

-----------------------------------------------------------------------------
(* Changes that are applied one after the other.                           *)

\* The entries after each change, to the m-th.
IsRun(g, m, old, changes, merge, removed) ==
    g = [n \in 0 .. m |-> IF n = 0 THEN [rings |-> SortRings(old), added |-> <<>>]
                          ELSE ApplyEntry(g[n - 1], changes[n], merge, removed)]

LEMMA RunsExist ==
    ASSUME NEW old, NEW changes, NEW merge, NEW removed, NEW m \in Nat
    PROVE  \E g : IsRun(g, m, old, changes, merge, removed)
<1> DEFINE start == [rings |-> SortRings(old), added |-> <<>>]
           next(a, n) == ApplyEntry(a, changes[n], merge, removed)
           run(g, k) == g = [n \in 0 .. k |-> IF n = 0 THEN start ELSE next(g[n - 1], n)]
           Bad == {k \in Nat : ~\E g : run(g, k)}
<1>1. \A g, k : IsRun(g, k, old, changes, merge, removed) <=> run(g, k)
    BY DEF IsRun
<1> HIDE DEF start, next
<1>2. CASE Bad = {}
    BY <1>1, <1>2
<1>3. CASE Bad # {}
  <2>1. PICK k \in Bad : \A j \in Bad : k <= j
    <3>1. Bad \in SUBSET Nat
        OBVIOUS
    <3> HIDE DEF Bad
    <3> QED BY <1>3, <3>1, LeastNumber
  <2>2. CASE k = 0
    <3> DEFINE g == [n \in 0 .. 0 |-> start]
    <3>1. g = [n \in 0 .. 0 |-> IF n = 0 THEN start ELSE next(g[n - 1], n)]
        OBVIOUS
    <3>2. run(g, 0)
        BY <3>1
    <3> QED BY <2>1, <2>2, <3>2
  <2>3. CASE k # 0
    <3>1. k - 1 \in Nat /\ k - 1 \notin Bad /\ k \in Nat
        BY <2>1, <2>3
    <3>2. PICK h : run(h, k - 1)
        BY <3>1
    <3> DEFINE g == [n \in 0 .. k |-> IF n = k THEN next(h[k - 1], k) ELSE h[n]]
    <3>3. \A n \in 0 .. k - 1 : h[n] = IF n = 0 THEN start ELSE next(h[n - 1], n)
        BY <3>2
    <3>4. ASSUME NEW n \in 0 .. k PROVE g[n] = IF n = 0 THEN start ELSE next(g[n - 1], n)
      <4>1. CASE n = k
        <5>1. g[k - 1] = h[k - 1] /\ g[k] = next(h[k - 1], k)
            BY <3>1
        <5> QED BY <2>3, <4>1, <5>1
      <4>2. CASE n # k /\ n # 0
        <5>1. n \in 0 .. k - 1 /\ n - 1 \in 0 .. k /\ n - 1 # k
            BY <3>1, <4>2
        <5>2. g[n] = h[n] /\ g[n - 1] = h[n - 1]
            BY <4>2, <5>1
        <5> QED BY <3>3, <4>2, <5>1, <5>2
      <4>3. CASE n = 0
        <5>1. 0 \in 0 .. k - 1 /\ g[0] = h[0]
            BY <2>3, <3>1
        <5> QED BY <3>3, <4>3, <5>1
      <4> QED BY <4>1, <4>2, <4>3
    <3>5. g = [n \in 0 .. k |-> g[n]]
        OBVIOUS
    <3> HIDE DEF g
    <3>6. run(g, k)
        BY <3>4, <3>5
    <3> QED BY <2>1, <3>6
  <2> QED BY <2>2, <2>3
<1> QED BY <1>2, <1>3

LEMMA ApplicationsAre ==
    ASSUME NEW old, NEW changes, NEW merge, NEW removed, Len(changes) \in Nat
    PROVE  LET acc == Applications(old, changes, merge, removed) IN
           /\ acc[0] = [rings |-> SortRings(old), added |-> <<>>]
           /\ \A n \in 1 .. Len(changes) : acc[n] = ApplyEntry(acc[n - 1], changes[n], merge, removed)
<1> DEFINE m == Len(changes)
           acc == Applications(old, changes, merge, removed)
<1>1. acc = CHOOSE g : IsRun(g, m, old, changes, merge, removed)
    BY DEF Applications, IsRun
<1> HIDE DEF acc
<1>2. \E g : IsRun(g, m, old, changes, merge, removed)
    BY RunsExist
<1>3. IsRun(acc, m, old, changes, merge, removed)
  <2> DEFINE run(g) == IsRun(g, m, old, changes, merge, removed)
  <2> HIDE DEF m
  <2> QED BY <1>1, <1>2
<1> HIDE DEF m
<1>4. acc = [n \in 0 .. m |-> IF n = 0 THEN [rings |-> SortRings(old), added |-> <<>>]
                          ELSE ApplyEntry(acc[n - 1], changes[n], merge, removed)]
    BY <1>3 DEF IsRun
<1>5. \A n \in 0 .. m : acc[n] = IF n = 0 THEN [rings |-> SortRings(old), added |-> <<>>]
                          ELSE ApplyEntry(acc[n - 1], changes[n], merge, removed)
    BY <1>4
<1>6. m \in Nat
    BY DEF m
<1> QED BY <1>5, <1>6 DEF acc, m

\* What is added to a list.
LEMMA Appended ==
    ASSUME NEW S, NEW s, IsList(s), \A i \in DOMAIN s : s[i] \in S, NEW x \in S
    PROVE  /\ IsList(Append(s, x)) /\ Len(Append(s, x)) = Len(s) + 1
           /\ \A i \in DOMAIN Append(s, x) : Append(s, x)[i] \in S
           /\ \A i \in DOMAIN s : Append(s, x)[i] = s[i]
           /\ Append(s, x)[Len(s) + 1] = x
<1> DEFINE N == Len(s)
           t == Append(s, x)
<1>1. N \in Nat /\ DOMAIN s = 1 .. N /\ s = [i \in 1 .. N |-> s[i]]
    BY DEF IsList
<1>2. s \in Seq(S)
  <2>1. s \in [1 .. N -> S]
      BY <1>1
  <2> HIDE DEF N
  <2> QED BY <1>1, <2>1
<1>3. t \in Seq(S) /\ Len(t) = N + 1 /\ (\A i \in 1 .. N : t[i] = s[i]) /\ t[N + 1] = x
    BY <1>1, <1>2
<1> HIDE DEF t, N
<1>4. DOMAIN t = 1 .. Len(t) /\ t = [i \in 1 .. Len(t) |-> t[i]] /\ \A i \in DOMAIN t : t[i] \in S
    BY <1>3
<1> QED BY <1>1, <1>3, <1>4 DEF IsList, t, N

IsJoin(u, s, t) ==
    /\ IsList(u) /\ Len(u) = Len(s) + Len(t)
    /\ \A i \in DOMAIN s : u[i] = s[i]
    /\ \A i \in DOMAIN t : u[Len(s) + i] = t[i]

\* What two lists are joined to.
LEMMA Joined ==
    ASSUME NEW s, IsList(s), NEW t, IsList(t)
    PROVE  IsJoin(s \o t, s, t)
<1> DEFINE N == Len(s)
           M == Len(t)
           u == s \o t
           S == {s[i] : i \in DOMAIN s} \cup {t[i] : i \in DOMAIN t}
<1>1. N \in Nat /\ DOMAIN s = 1 .. N /\ s = [i \in 1 .. N |-> s[i]] /\ \A i \in 1 .. N : s[i] \in S
    BY DEF IsList
<1>2. M \in Nat /\ DOMAIN t = 1 .. M /\ t = [i \in 1 .. M |-> t[i]] /\ \A i \in 1 .. M : t[i] \in S
    BY DEF IsList
<1> HIDE DEF S
<1>3. s \in Seq(S)
  <2>1. s \in [1 .. N -> S]
      BY <1>1
  <2> HIDE DEF N
  <2> QED BY <1>1, <2>1
<1>4. t \in Seq(S)
  <2>1. t \in [1 .. M -> S]
      BY <1>2
  <2> HIDE DEF M
  <2> QED BY <1>2, <2>1
<1>5. u \in Seq(S) /\ Len(u) = N + M
    BY <1>3, <1>4
<1>6. \A i \in 1 .. N : u[i] = s[i]
    BY <1>1, <1>2, <1>3, <1>4
<1>7. \A i \in 1 .. M : u[N + i] = t[i]
  <2> SUFFICES ASSUME NEW i \in 1 .. M PROVE u[N + i] = t[i]
      OBVIOUS
  <2>1. N + i \in 1 .. N + M /\ ~(N + i <= N) /\ N + i - N = i
      BY <1>1, <1>2
  <2> QED BY <1>1, <1>2, <1>3, <1>4, <2>1
<1> HIDE DEF u, N, M
<1>8. IsList(u)
  <2>1. Len(u) \in Nat /\ DOMAIN u = 1 .. Len(u) /\ u = [i \in 1 .. Len(u) |-> u[i]]
      BY <1>5
  <2> QED BY <2>1 DEF IsList
<1> QED BY <1>1, <1>2, <1>5, <1>6, <1>7, <1>8 DEF IsJoin, u, N, M

\* Each element of a join is one of either list.
LEMMA JoinedOf ==
    ASSUME NEW s, IsList(s), NEW t, IsList(t), NEW u, IsJoin(u, s, t)
    PROVE  /\ \A i \in DOMAIN u : i \in DOMAIN s \/ \E j \in DOMAIN t : i = Len(s) + j
           /\ ToSet(u) = ToSet(s) \cup ToSet(t)
<1> DEFINE N == Len(s)
           M == Len(t)
<1>1. N \in Nat /\ M \in Nat /\ DOMAIN s = 1 .. N /\ DOMAIN t = 1 .. M /\ DOMAIN u = 1 .. N + M
    BY DEF IsList, IsJoin
<1>2. (\A i \in 1 .. N : u[i] = s[i]) /\ \A i \in 1 .. M : u[N + i] = t[i]
    BY <1>1 DEF IsJoin
<1> HIDE DEF N, M
<1>3. ASSUME NEW i \in 1 .. N + M PROVE i \in 1 .. N \/ \E j \in 1 .. M : i = N + j
  <2>1. CASE i <= N
      BY <1>1, <2>1
  <2>2. CASE ~(i <= N)
    <3>1. i - N \in 1 .. M /\ i = N + (i - N)
        BY <1>1, <2>2
    <3> QED BY <3>1
  <2> QED BY <2>1, <2>2
<1>4. ToSet(u) = ToSet(s) \cup ToSet(t)
  <2>1. \A i \in 1 .. N : i \in 1 .. N + M
      BY <1>1
  <2>2. \A i \in 1 .. M : N + i \in 1 .. N + M
      BY <1>1
  <2>3. ToSet(u) \subseteq ToSet(s) \cup ToSet(t)
    <3> SUFFICES ASSUME NEW i \in 1 .. N + M PROVE u[i] \in ToSet(s) \cup ToSet(t)
        BY <1>1 DEF ToSet
    <3>1. CASE i \in 1 .. N
        BY <1>1, <1>2, <3>1 DEF ToSet
    <3>2. ASSUME NEW j \in 1 .. M, i = N + j PROVE u[i] \in ToSet(s) \cup ToSet(t)
        BY <1>1, <1>2, <3>2 DEF ToSet
    <3> QED BY <1>3, <3>1, <3>2
  <2>4. ToSet(s) \subseteq ToSet(u)
      BY <1>1, <1>2, <2>1 DEF ToSet
  <2>5. ToSet(t) \subseteq ToSet(u)
      BY <1>1, <1>2, <2>2 DEF ToSet
  <2> QED BY <2>3, <2>4, <2>5
<1> QED BY <1>1, <1>3, <1>4 DEF N

LEMMA InSeq ==
    ASSUME NEW S, NEW s
    PROVE  s \in Seq(S) <=> IsList(s) /\ \A i \in DOMAIN s : s[i] \in S
<1>1. ASSUME s \in Seq(S) PROVE IsList(s) /\ \A i \in DOMAIN s : s[i] \in S
  <2>1. Len(s) \in Nat /\ DOMAIN s = 1 .. Len(s) /\ s = [i \in 1 .. Len(s) |-> s[i]]
      BY <1>1
  <2>2. \A i \in DOMAIN s : s[i] \in S
      BY <1>1
  <2> QED BY <2>1, <2>2 DEF IsList
<1>2. ASSUME IsList(s), \A i \in DOMAIN s : s[i] \in S PROVE s \in Seq(S)
  <2> DEFINE N == Len(s)
  <2>1. N \in Nat /\ s \in [1 .. N -> S]
      BY <1>2 DEF IsList
  <2> HIDE DEF N
  <2> QED BY <2>1
<1> QED BY <1>1, <1>2

Picked(s, K) == {s[k] : k \in K}

\* A selection has the elements at its positions.
LEMMA SelectedOf ==
    ASSUME NEW s, IsList(s), NEW K \in SUBSET DOMAIN s
    PROVE  /\ IsList(Select(s, K)) /\ Len(Select(s, K)) = Cardinality(K) /\ Cardinality(K) \in Nat
           /\ ToSet(Select(s, K)) = Picked(s, K)
<1> DEFINE t == Select(s, K)
           order == Ascending(K)
           N == Cardinality(K)
<1>1. /\ N \in Nat /\ IsList(t) /\ Len(t) = N
      /\ order \in [1 .. N -> K]
      /\ \A i \in 1 .. N : t[i] = s[order[i]]
      /\ \A k \in K : \E i \in 1 .. N : order[i] = k
    BY Selected
<1> HIDE DEF t, order, N
<1>2. DOMAIN t = 1 .. N
    BY <1>1 DEF IsList
<1>3. ToSet(t) = Picked(s, K)
    BY <1>1, <1>2 DEF ToSet, Picked
<1> QED BY <1>1, <1>3 DEF t, N

IsState(a, n) ==
    /\ a = [rings |-> a.rings, added |-> a.added]
    /\ RingList(a.rings) /\ Len(a.rings) = n
    /\ RingList(a.added) /\ \A k \in DOMAIN a.added : a.added[k].id = NoId

LEMMA TargetsAre ==
    ASSUME NEW rs, RingList(rs), NEW c, NEW merge, NEW removed
    PROVE  LET ks == Targets(rs, c, merge, removed) IN
           /\ ks \subseteq DOMAIN rs
           /\ ks # {} => LET k == CHOOSE i \in ks : \A j \in ks : i <= j IN k \in ks /\ \A j \in ks : k <= j
<1> DEFINE ks == Targets(rs, c, merge, removed)
           k == CHOOSE i \in ks : \A j \in ks : i <= j
<1>1. ks \subseteq DOMAIN rs /\ ks \subseteq Nat
    BY DEF Targets, MatchingRings, RingList, IsList
<1>2. ks # {} => k \in ks /\ \A j \in ks : k <= j
  <2> HIDE DEF ks
  <2>1. ks # {} => \E i \in ks : \A j \in ks : i <= j
      BY <1>1, LeastNumber
  <2> QED BY <2>1
<1> QED BY <1>1, <1>2

Plain(r, c) == ChangeEntry(r, c, FALSE)
Merged(r, c) == ChangeEntry(r, c, TRUE)

LEMMA ModeIs == \A r, c : ChangeEntry(r, c, c.id = NoId) = IF c.id = NoId THEN Merged(r, c) ELSE Plain(r, c)
<1>1. ASSUME NEW r, NEW c, c.id = NoId PROVE ChangeEntry(r, c, c.id = NoId) = ChangeEntry(r, c, TRUE)
  <2>1. (c.id = NoId) = TRUE
      BY <1>1
  <2> QED BY <2>1, Zenon
<1>2. ASSUME NEW r, NEW c, c.id # NoId PROVE ChangeEntry(r, c, c.id = NoId) = ChangeEntry(r, c, FALSE)
  <2>1. (c.id = NoId) = FALSE
      BY <1>2
  <2> QED BY <2>1, Zenon
<1> QED BY <1>1, <1>2, Zenon DEF Merged, Plain

\* One change leaves all entries but one as they are.
AppliedOnce(a, b, c, ks) ==
    /\ c.remove => b = a
    /\ ~c.remove /\ ks = {} => b.rings = a.rings /\ b.added = Append(a.added, Plain(EmptyRing, c))
    /\ ~c.remove /\ ks # {} => \E k \in ks : /\ \A j \in ks : k <= j
                                            /\ b.added = a.added
                                            /\ b.rings = [a.rings EXCEPT ![k] = IF c.id = NoId THEN Merged(a.rings[k], c)
                                                                                    ELSE Plain(a.rings[k], c)]

LEMMA EntryApplied ==
    ASSUME NEW n, NEW a, IsState(a, n), NEW c, IsRingChange(c), NEW merge, NEW removed
    PROVE  LET b == ApplyEntry(a, c, merge, removed)
               ks == Targets(a.rings, c, merge, removed)
           IN  IsState(b, n) /\ (\A k \in DOMAIN a.rings : b.rings[k].id = a.rings[k].id) /\ AppliedOnce(a, b, c, ks)
<1> DEFINE b == ApplyEntry(a, c, merge, removed)
           ks == Targets(a.rings, c, merge, removed)
           merging == c.id = NoId
           no == FALSE
           k == CHOOSE i \in ks : \A j \in ks : i <= j
<1>1. /\ a = [rings |-> a.rings, added |-> a.added] /\ RingList(a.rings) /\ Len(a.rings) = n
      /\ RingList(a.added) /\ \A i \in DOMAIN a.added : a.added[i].id = NoId
    BY DEF IsState
<1>2. ks \subseteq DOMAIN a.rings /\ (ks # {} => k \in ks /\ \A j \in ks : k <= j)
    BY <1>1, TargetsAre
<1>3. CASE c.remove
  <2>1. b = a
      BY <1>3 DEF ApplyEntry
  <2> QED BY <1>3, <2>1 DEF AppliedOnce
<1>4. CASE ~c.remove /\ ks = {}
  <2> DEFINE x == ChangeEntry(EmptyRing, c, no)
  <2>1. b = [a EXCEPT !.added = Append(a.added, x)]
      BY <1>4 DEF ApplyEntry
  <2>2. x \in Rings /\ x.id = NoId
    <3> HIDE DEF no
    <3> QED BY EmptyRingIs, ChangedEntry
  <2> HIDE DEF x, ks, b
  <2>3. /\ IsList(Append(a.added, x)) /\ Len(Append(a.added, x)) = Len(a.added) + 1
        /\ \A i \in DOMAIN Append(a.added, x) : Append(a.added, x)[i] \in Rings
        /\ \A i \in DOMAIN a.added : Append(a.added, x)[i] = a.added[i]
        /\ Append(a.added, x)[Len(a.added) + 1] = x
    <3>1. IsList(a.added) /\ \A i \in DOMAIN a.added : a.added[i] \in Rings
        BY <1>1 DEF RingList
    <3> QED BY <2>2, <3>1, Appended, ZenonT(60)
  <2> DEFINE t == Append(a.added, x)
  <2>4. b = [rings |-> a.rings, added |-> t]
      BY <1>1, <2>1
  <2>5. RingList(t)
      BY <2>3 DEF RingList
  <2>6. \A i \in DOMAIN t : t[i].id = NoId
    <3> SUFFICES ASSUME NEW i \in DOMAIN t PROVE t[i].id = NoId
        OBVIOUS
    <3>1. DOMAIN t = 1 .. Len(a.added) + 1 /\ DOMAIN a.added = 1 .. Len(a.added) /\ Len(a.added) \in Nat
        BY <1>1, <2>3 DEF IsList, RingList
    <3>2. CASE i \in DOMAIN a.added
        BY <1>1, <2>3, <3>2
    <3>3. CASE i = Len(a.added) + 1
        BY <2>2, <2>3, <3>3
    <3> HIDE DEF t
    <3> QED BY <3>1, <3>2, <3>3
  <2> HIDE DEF t
  <2>7. b.rings = a.rings /\ b.added = t
      BY <2>4
  <2>8. IsState(b, n)
      BY <1>1, <2>4, <2>5, <2>6, <2>7 DEF IsState
  <2>9. AppliedOnce(a, b, c, ks)
      BY <1>4, <2>7 DEF AppliedOnce, x, t, Plain
  <2> QED BY <2>7, <2>8, <2>9 DEF b, ks
<1>5. CASE ~c.remove /\ ks # {}
  <2> DEFINE r == a.rings
             x == ChangeEntry(r[k], c, merging)
  <2>1. k \in DOMAIN r /\ k \in ks
      BY <1>2, <1>5
  <2>2. b = [a EXCEPT !.rings[k] = x]
      BY <1>5 DEF ApplyEntry
  <2> HIDE DEF k, ks
  <2>3. x \in Rings /\ x.id = r[k].id
    <3>1. r[k] \in Rings
        BY <1>1, <2>1 DEF RingList
    <3> HIDE DEF merging, r
    <3> QED BY <3>1, ChangedEntry
  <2> HIDE DEF x
  <2> DEFINE t == [r EXCEPT ![k] = x]
  <2>4. b = [rings |-> t, added |-> a.added]
      BY <1>1, <2>2
  <2>5. RingList(t) /\ Len(t) = n /\ (\A i \in DOMAIN r : t[i].id = r[i].id)
    <3>1. Len(r) \in Nat /\ DOMAIN r = 1 .. Len(r) /\ Len(r) = n /\ \A i \in DOMAIN r : r[i] \in Rings
        BY <1>1 DEF RingList, IsList
    <3> HIDE DEF r
    <3>2. DOMAIN t = 1 .. n /\ t = [i \in 1 .. n |-> t[i]]
        BY <3>1
    <3>3. \A i \in DOMAIN r : t[i] \in Rings /\ t[i].id = r[i].id
        BY <2>1, <2>3, <3>1
    <3> HIDE DEF t
    <3>4. IsList(t) /\ Len(t) = n
        BY <3>1, <3>2, IsNumbered
    <3> QED BY <3>1, <3>2, <3>3, <3>4 DEF RingList
  <2> HIDE DEF t
  <2>6. b.rings = t /\ b.added = a.added
      BY <2>4
  <2>7. IsState(b, n)
      BY <1>1, <2>4, <2>5, <2>6 DEF IsState
  <2>8. \A i \in DOMAIN a.rings : b.rings[i].id = a.rings[i].id
      BY <2>5, <2>6
  <2>9. \A j \in ks : k <= j
      BY <1>2, <1>5 DEF k
  <2> HIDE DEF b
  <2>10. \E i \in ks : (\A j \in ks : i <= j) /\ b.added = a.added /\ b.rings = [a.rings EXCEPT ![i] = ChangeEntry(a.rings[i], c, merging)]
    <3>1. b.rings = [a.rings EXCEPT ![k] = ChangeEntry(a.rings[k], c, merging)]
        BY <2>6 DEF t, x
    <3> HIDE DEF merging, r, x, t
    <3> QED BY <2>1, <2>6, <2>9, <3>1
  <2>11. \A q : ChangeEntry(q, c, merging) = IF c.id = NoId THEN Merged(q, c) ELSE Plain(q, c)
      BY ModeIs
  <2>12. AppliedOnce(a, b, c, ks)
    <3> HIDE DEF merging
    <3> QED BY <1>5, <2>10, <2>11 DEF AppliedOnce
  <2> QED BY <2>7, <2>8, <2>12 DEF b, ks
<1> QED BY <1>3, <1>4, <1>5

ChangeList(changes) == IsList(changes) /\ \A m \in DOMAIN changes : IsRingChange(changes[m])

\* The entries of the disc keep their ids, and those that are added have none.
LEMMA RunKeeps ==
    ASSUME NEW old, RingList(old), NEW changes, ChangeList(changes), NEW merge, NEW removed
    PROVE  \A n \in 0 .. Len(changes) :
              LET a == Applications(old, changes, merge, removed)[n] IN
              /\ IsState(a, Len(old))
              /\ \A k \in 1 .. Len(old) : a.rings[k].id = SortRings(old)[k].id
<1> DEFINE acc == Applications(old, changes, merge, removed)
           so == SortRings(old)
           N == Len(old)
           m == Len(changes)
           Keeps(n) == IsState(acc[n], N) /\ \A k \in 1 .. N : acc[n].rings[k].id = so[k].id
           Bad == {n \in 0 .. m : ~Keeps(n)}
<1>1. m \in Nat /\ DOMAIN changes = 1 .. m /\ \A n \in 1 .. m : IsRingChange(changes[n])
    BY DEF ChangeList, IsList
<1>2. acc[0] = [rings |-> so, added |-> <<>>] /\ \A n \in 1 .. m : acc[n] = ApplyEntry(acc[n - 1], changes[n], merge, removed)
    BY <1>1, ApplicationsAre
<1>3. RingList(so) /\ Len(so) = N /\ N \in Nat
    BY SortedRings DEF RingList, IsList
<1> HIDE DEF acc, so, N, m
<1>4. Keeps(0)
  <2>1. RingList(<<>>) /\ DOMAIN <<>> = {}
    <3>1. <<>> \in Seq(Rings) /\ DOMAIN <<>> = {}
        OBVIOUS
    <3> QED BY <3>1, InSeq DEF RingList
  <2>2. acc[0].rings = so /\ acc[0].added = <<>>
      BY <1>2
  <2> QED BY <1>2, <1>3, <2>1, <2>2 DEF IsState
<1>5. ASSUME NEW n \in 1 .. m, Keeps(n - 1) PROVE Keeps(n)
  <2> DEFINE a == acc[n - 1]
             c == changes[n]
             b == ApplyEntry(a, c, merge, removed)
  <2>1. IsState(a, N) /\ \A k \in 1 .. N : a.rings[k].id = so[k].id
      BY <1>5
  <2>2. acc[n] = b /\ IsRingChange(c)
      BY <1>1, <1>2
  <2>3. DOMAIN a.rings = 1 .. N
      BY <2>1 DEF IsState, RingList, IsList
  <2> HIDE DEF a, c
  <2>4. IsState(b, N) /\ \A k \in DOMAIN a.rings : b.rings[k].id = a.rings[k].id
      BY <2>1, <2>2, EntryApplied
  <2> HIDE DEF b
  <2> QED BY <2>1, <2>2, <2>3, <2>4
<1> HIDE DEF Keeps
<1>6. CASE Bad = {}
    BY <1>6 DEF Keeps, acc, so, N, m
<1>7. CASE Bad # {}
  <2>1. PICK n \in Bad : \A j \in Bad : n <= j
    <3>1. Bad \in SUBSET Nat
        BY <1>1
    <3> HIDE DEF Bad
    <3> QED BY <1>7, <3>1, LeastNumber
  <2>2. n # 0 /\ n \in 0 .. m
      BY <1>4, <2>1
  <2>3. n \in 1 .. m /\ n - 1 \in 0 .. m /\ ~(n <= n - 1)
      BY <1>1, <2>2
  <2>4. Keeps(n - 1)
      BY <2>1, <2>3
  <2> QED BY <1>5, <2>1, <2>3, <2>4
<1> QED BY <1>6, <1>7

\* What is applied: entries of the disc and entries without ids.
LEMMA AppliedRings ==
    ASSUME NEW old, RingList(old), HasIds(old), NEW changes, ChangeList(changes), NEW merge
    PROVE  LET rs == ApplyRings(old, changes, merge) IN
           /\ RingList(rs) /\ HasIds(rs)
           /\ \A q \in ToSet(rs) : q.id = NoId \/ q.id \in RingIds(old)
<1> DEFINE removed == RemovedIds(changes)
           done == Applications(old, changes, merge, removed)[Len(changes)]
           N == Len(old)
           so == SortRings(old)
           K == {k \in DOMAIN done.rings : done.rings[k].id \notin removed}
           kept == Select(done.rings, K)
           all == kept \o done.added
<1>1. IsState(done, N) /\ \A k \in 1 .. N : done.rings[k].id = so[k].id
  <2>1. Len(changes) \in 0 .. Len(changes)
      BY DEF ChangeList, IsList
  <2> QED BY <2>1, RunKeeps
<1>2. /\ RingList(so) /\ HasIds(so) /\ ToSet(so) = ToSet(old) /\ N \in Nat /\ DOMAIN so = 1 .. N
  <2>1. Len(so) = N /\ RingList(so)
      BY SortedRings
  <2> QED BY <2>1, SortedIds, SortedHas DEF RingList, IsList
<1>3. ApplyRings(old, changes, merge) = SortRings(all)
    BY DEF ApplyRings
<1> HIDE DEF done, so, N, removed
<1>4. /\ IsList(done.rings) /\ IsList(done.added) /\ DOMAIN done.rings = 1 .. N
      /\ \A k \in DOMAIN done.rings : done.rings[k] \in Rings
      /\ \A k \in DOMAIN done.added : done.added[k] \in Rings /\ done.added[k].id = NoId
    BY <1>1 DEF IsState, RingList, IsList
<1>5. K \in SUBSET DOMAIN done.rings
    OBVIOUS
<1> DEFINE order == Ascending(K)
           M == Cardinality(K)
<1> HIDE DEF K
<1>6. /\ M \in Nat /\ IsList(kept) /\ Len(kept) = M /\ order \in [1 .. M -> K]
      /\ \A i \in 1 .. M : kept[i] = done.rings[order[i]]
      /\ \A i, j \in 1 .. M : i < j <=> order[i] < order[j]
  <2> DEFINE s == done.rings
  <2>1. IsList(s) /\ K \in SUBSET DOMAIN s
      BY <1>4, <1>5
  <2> HIDE DEF s
  <2>2. /\ M \in Nat /\ IsList(Select(s, K)) /\ Len(Select(s, K)) = M /\ order \in [1 .. M -> K]
        /\ \A i \in 1 .. M : Select(s, K)[i] = s[order[i]]
        /\ \A i, j \in 1 .. M : i < j <=> order[i] < order[j]
      BY <2>1, Selected
  <2> QED BY <2>2 DEF s
<1> HIDE DEF kept, order, M
<1>7. \A i \in 1 .. M : kept[i] \in Rings /\ kept[i].id = so[order[i]].id /\ order[i] \in 1 .. N
    BY <1>1, <1>4, <1>5, <1>6
<1>8. /\ IsJoin(all, kept, done.added)
      /\ \A i \in DOMAIN all : i \in DOMAIN kept \/ \E j \in DOMAIN done.added : i = Len(kept) + j
  <2> DEFINE t == done.added
  <2>1. IsList(t)
      BY <1>4
  <2> HIDE DEF t
  <2>2. IsJoin(kept \o t, kept, t)
      BY <1>6, <2>1, Joined
  <2> DEFINE u == kept \o t
  <2> HIDE DEF u
  <2>3. \A i \in DOMAIN u : i \in DOMAIN kept \/ \E j \in DOMAIN t : i = Len(kept) + j
    <3>1. IsJoin(u, kept, t)
        BY <2>2 DEF u
    <3> QED BY <1>6, <2>1, <3>1, JoinedOf
  <2> QED BY <2>2, <2>3 DEF t, u
<1>9. /\ DOMAIN kept = 1 .. M /\ Len(done.added) \in Nat /\ DOMAIN done.added = 1 .. Len(done.added)
      /\ IsList(all)
    BY <1>4, <1>6, <1>8 DEF IsList, IsJoin
<1> HIDE DEF all
<1>10. ASSUME NEW i \in DOMAIN all PROVE (i \in 1 .. M /\ all[i].id = so[order[i]].id) \/ all[i].id = NoId
  <2>1. CASE i \in 1 .. M
      BY <1>7, <1>8, <1>9, <2>1 DEF IsJoin
  <2>2. ASSUME NEW j \in DOMAIN done.added, i = Len(kept) + j PROVE all[i].id = NoId
      BY <1>4, <1>8, <2>2 DEF IsJoin
  <2> QED BY <1>8, <1>9, <2>1, <2>2
<1>11. HasIds(all)
  <2> SUFFICES ASSUME NEW i \in DOMAIN all, NEW j \in DOMAIN all, all[i].id = all[j].id, all[i].id # NoId
               PROVE  i = j
      BY DEF HasIds
  <2>1. i \in 1 .. M /\ j \in 1 .. M /\ so[order[i]].id = so[order[j]].id /\ so[order[i]].id # NoId
      BY <1>10
  <2>2. order[i] \in 1 .. N /\ order[j] \in 1 .. N
      BY <1>7, <2>1
  <2>3. order[i] = order[j]
      BY <1>2, <2>1, <2>2 DEF HasIds
  <2>4. i \in Nat /\ j \in Nat /\ ~(order[i] < order[j]) /\ ~(order[j] < order[i])
      BY <1>2, <1>6, <2>1, <2>2, <2>3
  <2> QED BY <1>6, <2>1, <2>4
<1>12. RingList(all)
  <2>1. ASSUME NEW i \in DOMAIN all PROVE all[i] \in Rings
    <3>1. CASE i \in DOMAIN kept
        BY <1>7, <1>8, <1>9, <3>1 DEF IsJoin
    <3>2. ASSUME NEW j \in DOMAIN done.added, i = Len(kept) + j PROVE all[i] \in Rings
        BY <1>4, <1>8, <3>2 DEF IsJoin
    <3> QED BY <1>8, <3>1, <3>2
  <2> QED BY <1>9, <2>1 DEF RingList
<1>13. ASSUME NEW q \in ToSet(all) PROVE q.id = NoId \/ q.id \in RingIds(old)
  <2>1. PICK i \in DOMAIN all : q = all[i]
      BY DEF ToSet
  <2>2. CASE all[i].id = NoId
      BY <2>1, <2>2
  <2>3. CASE i \in 1 .. M /\ all[i].id = so[order[i]].id /\ all[i].id # NoId
    <3>1. order[i] \in 1 .. N
        BY <1>7, <2>3
    <3>2. so[order[i]] \in ToSet(so)
        BY <1>2, <3>1 DEF ToSet
    <3> QED BY <1>2, <2>1, <2>3, <3>2 DEF RingIds
  <2> QED BY <1>10, <2>2, <2>3
<1> QED BY <1>3, <1>11, <1>12, <1>13, SortedRings, SortedIds, SortedHas

-----------------------------------------------------------------------------
(* The mode of an approval: an entry is changed by the change with its id. *)

PlainChanges(old, changes) ==
    /\ RingList(old) /\ HasIds(old) /\ \A k \in DOMAIN old : old[k].id # NoId
    /\ ChangeList(changes)
    /\ \A m \in DOMAIN changes : changes[m].id # NoId => changes[m].id \in RingIds(old)
    /\ \A j, m \in DOMAIN changes : changes[j].id = changes[m].id => j = m \/ changes[j].id = NoId

Additions(changes) == [m \in DOMAIN changes |-> Plain(EmptyRing, changes[m])]
AddedUpTo(changes, n) == {m \in 1 .. n : ~changes[m].remove /\ changes[m].id = NoId}

\* The n changes so far have changed and added what they say.
PlainlyDone(changes, n, so, a) ==
    /\ \A k \in DOMAIN so : \A m \in 1 .. n :
          changes[m].id = so[k].id /\ ~changes[m].remove => a.rings[k] = Plain(so[k], changes[m])
    /\ \A k \in DOMAIN so :
          (\A m \in 1 .. n : changes[m].id = so[k].id => changes[m].remove) => a.rings[k] = so[k]
    /\ a.added = Select(Additions(changes), AddedUpTo(changes, n))

LEMMA PlainEntry ==
    ASSUME NEW r \in Rings, NEW c, IsRingChange(c)
    PROVE  /\ Plain(r, c) \in Rings /\ Plain(r, c).id = r.id
<1> DEFINE no == FALSE
<1> HIDE DEF no
<1>1. ChangeEntry(r, c, no) \in Rings /\ ChangeEntry(r, c, no).id = r.id
    BY ChangedEntry
<1> QED BY <1>1 DEF no, Plain

LEMMA AdditionsAre ==
    ASSUME NEW changes, ChangeList(changes)
    PROVE  /\ RingList(Additions(changes)) /\ Len(Additions(changes)) = Len(changes)
           /\ DOMAIN Additions(changes) = DOMAIN changes
           /\ \A m \in DOMAIN changes : Additions(changes)[m] = Plain(EmptyRing, changes[m]) /\ Additions(changes)[m].id = NoId
<1> DEFINE t == Additions(changes)
           n == Len(changes)
<1>1. n \in Nat /\ DOMAIN changes = 1 .. n /\ \A m \in 1 .. n : IsRingChange(changes[m])
    BY DEF ChangeList, IsList
<1>2. DOMAIN t = 1 .. n /\ t = [m \in 1 .. n |-> t[m]] /\ \A m \in 1 .. n : t[m] = Plain(EmptyRing, changes[m])
    BY <1>1 DEF Additions
<1> HIDE DEF t, n
<1>3. IsList(t) /\ Len(t) = n
    BY <1>1, <1>2, IsNumbered
<1>4. \A m \in 1 .. n : t[m] \in Rings /\ t[m].id = NoId
    BY <1>1, <1>2, EmptyRingIs, PlainEntry
<1> QED BY <1>1, <1>2, <1>3, <1>4 DEF RingList, t, n

LEMMA PlainStep ==
    ASSUME NEW old, NEW changes, PlainChanges(old, changes), NEW removed,
           NEW n \in 1 .. Len(changes), NEW a, IsState(a, Len(old)),
           \A k \in 1 .. Len(old) : a.rings[k].id = SortRings(old)[k].id,
           PlainlyDone(changes, n - 1, SortRings(old), a)
    PROVE  PlainlyDone(changes, n, SortRings(old), ApplyEntry(a, changes[n], FALSE, removed))
<1> DEFINE so == SortRings(old)
           N == Len(old)
           c == changes[n]
           no == FALSE
           ks == Targets(a.rings, c, no, removed)
           b == ApplyEntry(a, c, no, removed)
           L == Len(changes)
<1>1. /\ RingList(so) /\ HasIds(so) /\ ToSet(so) = ToSet(old) /\ Len(so) = N /\ N \in Nat /\ DOMAIN so = 1 .. N
  <2>1. RingList(old) /\ HasIds(old)
      BY DEF PlainChanges
  <2>2. Len(so) = N /\ RingList(so)
      BY <2>1, SortedRings
  <2> QED BY <2>1, <2>2, SortedIds, SortedHas DEF RingList, IsList
<1>2. \A k \in DOMAIN so : so[k].id # NoId
  <2>1. \A q \in ToSet(old) : q.id # NoId
      BY DEF PlainChanges, ToSet
  <2>2. \A k \in DOMAIN so : so[k] \in ToSet(so)
      BY DEF ToSet
  <2> HIDE DEF so
  <2> QED BY <1>1, <2>1, <2>2
<1>3. L \in Nat /\ DOMAIN changes = 1 .. L /\ ChangeList(changes) /\ \A m \in 1 .. L : IsRingChange(changes[m])
    BY DEF PlainChanges, ChangeList, IsList
<1>4. /\ \A m \in 1 .. L : changes[m].id # NoId => changes[m].id \in RingIds(old)
      /\ \A j, m \in 1 .. L : changes[j].id = changes[m].id => j = m \/ changes[j].id = NoId
    BY <1>3 DEF PlainChanges
<1>5. IsState(a, N) /\ DOMAIN a.rings = 1 .. N /\ \A k \in 1 .. N : a.rings[k].id = so[k].id
    BY DEF IsState, RingList, IsList
<1>6. PlainlyDone(changes, n - 1, so, a)
    OBVIOUS
<1>7. n \in Nat /\ n - 1 \in Nat /\ n \in 1 .. L /\ IsRingChange(c) /\ (1 .. n) = (1 .. n - 1) \cup {n} /\ \A m \in 1 .. n - 1 : m < n /\ m \in 1 .. L
    BY <1>3
<1>8. AppliedOnce(a, b, c, ks)
  <2> HIDE DEF N, c, no
  <2> QED BY <1>5, <1>7, EntryApplied
<1>9. ks = {k \in 1 .. N : so[k].id = c.id}
  <2>1. CASE c.id # NoId
      BY <1>5, <2>1 DEF Targets
  <2>2. CASE c.id = NoId
    <3>1. ks = {}
        BY <2>2 DEF Targets
    <3> HIDE DEF so, c, ks
    <3> QED BY <1>1, <1>2, <2>2, <3>1
  <2> QED BY <2>1, <2>2
<1> HIDE DEF so, N, ks, b, L, no
<1>10. AddedUpTo(changes, n) = IF ~c.remove /\ c.id = NoId THEN AddedUpTo(changes, n - 1) \cup {n} ELSE AddedUpTo(changes, n - 1)
    BY <1>7 DEF AddedUpTo
<1>11. CASE c.remove
  <2>1. b = a
      BY <1>8, <1>11 DEF AppliedOnce
  <2> QED BY <1>6, <1>7, <1>10, <1>11, <2>1, ZenonT(60) DEF PlainlyDone, b, so, no
<1>12. CASE ~c.remove /\ c.id = NoId
  <2>1. ks = {}
      BY <1>1, <1>2, <1>9, <1>12
  <2>2. b.rings = a.rings /\ b.added = Append(a.added, Plain(EmptyRing, c))
      BY <1>8, <1>12, <2>1 DEF AppliedOnce
  <2> DEFINE s == Additions(changes)
             K == AddedUpTo(changes, n - 1)
  <2>3. IsList(s) /\ DOMAIN s = 1 .. L /\ s[n] = Plain(EmptyRing, c)
      BY <1>3, <1>7, AdditionsAre DEF RingList
  <2>4. K \in SUBSET DOMAIN s /\ n \in DOMAIN s /\ \A k \in K : k < n
      BY <1>7, <2>3 DEF AddedUpTo
  <2> HIDE DEF s, K
  <2>5. Select(s, K \cup {n}) = Append(Select(s, K), s[n])
      BY <2>3, <2>4, SelectNext
  <2>6. a.added = Select(s, K)
      BY <1>6 DEF PlainlyDone, s, K
  <2>7. b.added = Select(s, AddedUpTo(changes, n))
      BY <1>10, <1>12, <2>2, <2>3, <2>5, <2>6 DEF K
  <2>8. \A k \in DOMAIN so : so[k].id # c.id
      BY <1>2, <1>12
  <2> HIDE DEF c
  <2>9. /\ \A k \in DOMAIN so : \A m \in 1 .. n :
              changes[m].id = so[k].id /\ ~changes[m].remove => b.rings[k] = Plain(so[k], changes[m])
        /\ \A k \in DOMAIN so :
              (\A m \in 1 .. n : changes[m].id = so[k].id => changes[m].remove) => b.rings[k] = so[k]
      BY <1>6, <1>7, <2>2, <2>8 DEF PlainlyDone, c
  <2> QED BY <2>7, <2>9 DEF PlainlyDone, b, so, no, s, c
<1>13. CASE ~c.remove /\ c.id # NoId
  <2>1. PICK p \in DOMAIN so : so[p].id = c.id
    <3>1. c.id \in RingIds(old)
        BY <1>4, <1>7, <1>13
    <3>2. PICK q \in ToSet(so) : q.id = c.id
        BY <1>1, <3>1 DEF RingIds
    <3> QED BY <3>2 DEF ToSet
  <2>2. \A k \in DOMAIN so : so[k].id = c.id <=> k = p
      BY <1>1, <1>2, <2>1 DEF HasIds
  <2>3. ks = {p}
      BY <1>1, <1>9, <2>1, <2>2
  <2>4. b.added = a.added /\ b.rings = [a.rings EXCEPT ![p] = Plain(a.rings[p], c)]
      BY <1>8, <1>13, <2>3 DEF AppliedOnce
  <2>5. \A m \in 1 .. n - 1 : changes[m].id # c.id
      BY <1>4, <1>7, <1>13
  <2>6. a.rings[p] = so[p]
      BY <1>6, <2>1, <2>5 DEF PlainlyDone
  <2>7. b.rings[p] = Plain(so[p], c) /\ \A k \in DOMAIN so : k # p => b.rings[k] = a.rings[k]
      BY <1>1, <1>5, <2>4, <2>6
  <2>8. ASSUME NEW k \in DOMAIN so, NEW m \in 1 .. n, changes[m].id = so[k].id, ~changes[m].remove
        PROVE  b.rings[k] = Plain(so[k], changes[m])
    <3>1. CASE m = n
      <4>1. k = p
          BY <2>2, <2>8, <3>1
      <4> QED BY <2>7, <3>1, <4>1
    <3>2. CASE m # n
      <4>1. m \in 1 .. n - 1 /\ k # p
          BY <1>7, <2>1, <2>5, <2>8, <3>2
      <4> QED BY <1>6, <2>7, <2>8, <4>1 DEF PlainlyDone
    <3> QED BY <3>1, <3>2
  <2>9. ASSUME NEW k \in DOMAIN so, \A m \in 1 .. n : changes[m].id = so[k].id => changes[m].remove
        PROVE  b.rings[k] = so[k]
    <3>1. k # p
        BY <1>7, <1>13, <2>1, <2>9
    <3>2. \A m \in 1 .. n - 1 : changes[m].id = so[k].id => changes[m].remove
        BY <1>7, <2>9
    <3> QED BY <1>6, <2>7, <3>1, <3>2 DEF PlainlyDone
  <2>10. b.added = Select(Additions(changes), AddedUpTo(changes, n))
      BY <1>6, <1>10, <1>13, <2>4 DEF PlainlyDone
  <2> QED BY <2>8, <2>9, <2>10 DEF PlainlyDone, b, so, no
<1> QED BY <1>11, <1>12, <1>13

LEMMA PlainRun ==
    ASSUME NEW old, NEW changes, PlainChanges(old, changes), NEW removed
    PROVE  LET a == Applications(old, changes, FALSE, removed)[Len(changes)] IN
           /\ IsState(a, Len(old)) /\ (\A k \in 1 .. Len(old) : a.rings[k].id = SortRings(old)[k].id)
           /\ PlainlyDone(changes, Len(changes), SortRings(old), a)
<1> DEFINE no == FALSE
           acc == Applications(old, changes, no, removed)
           so == SortRings(old)
           N == Len(old)
           L == Len(changes)
           Holds(n) == PlainlyDone(changes, n, so, acc[n])
           Bad == {n \in 0 .. L : ~Holds(n)}
<1>1. L \in Nat /\ DOMAIN changes = 1 .. L /\ ChangeList(changes) /\ RingList(old)
    BY DEF PlainChanges, ChangeList, IsList
<1>2. \A n \in 0 .. L : IsState(acc[n], N) /\ \A k \in 1 .. N : acc[n].rings[k].id = so[k].id
  <2> HIDE DEF no
  <2> QED BY <1>1, RunKeeps
<1>3. acc[0] = [rings |-> so, added |-> <<>>] /\ \A n \in 1 .. L : acc[n] = ApplyEntry(acc[n - 1], changes[n], no, removed)
  <2> HIDE DEF no
  <2> QED BY <1>1, ApplicationsAre
<1> HIDE DEF acc, so
<1>4. Holds(0)
  <2>1. acc[0].rings = so /\ acc[0].added = <<>>
      BY <1>3
  <2>2. AddedUpTo(changes, 0) = {}
      BY DEF AddedUpTo
  <2>3. Select(Additions(changes), {}) = <<>>
    <3> DEFINE s == Additions(changes)
    <3>1. IsList(s)
        BY <1>1, AdditionsAre DEF RingList
    <3> HIDE DEF s
    <3> QED BY <3>1, SelectNone DEF s
  <2>4. acc[0].added = Select(Additions(changes), AddedUpTo(changes, 0))
      BY <2>1, <2>2, <2>3
  <2>5. \A m : m \notin 1 .. 0
      OBVIOUS
  <2> QED BY <2>1, <2>4, <2>5 DEF PlainlyDone
<1>5. ASSUME NEW n \in 1 .. L, Holds(n - 1) PROVE Holds(n)
  <2> DEFINE a == acc[n - 1]
  <2>1. IsState(a, N) /\ (\A k \in 1 .. N : a.rings[k].id = so[k].id) /\ PlainlyDone(changes, n - 1, so, a)
      BY <1>1, <1>2, <1>5
  <2>2. acc[n] = ApplyEntry(a, changes[n], no, removed)
      BY <1>3
  <2> HIDE DEF a
  <2>3. PlainlyDone(changes, n, so, ApplyEntry(a, changes[n], FALSE, removed))
      BY <2>1, PlainStep DEF so
  <2> QED BY <2>2, <2>3
<1>6. Bad = {}
  <2> SUFFICES ASSUME Bad # {} PROVE FALSE
      OBVIOUS
  <2> HIDE DEF Holds
  <2>1. PICK n \in Bad : \A j \in Bad : n <= j
    <3>1. Bad \in SUBSET Nat
        BY <1>1
    <3> HIDE DEF Bad
    <3> QED BY <3>1, LeastNumber
  <2>2. n # 0 /\ n \in 0 .. L
      BY <1>4, <2>1
  <2>3. n \in 1 .. L /\ n - 1 \in 0 .. L /\ ~(n <= n - 1)
      BY <1>1, <2>2
  <2>4. Holds(n - 1)
      BY <2>1, <2>3
  <2> QED BY <1>5, <2>1, <2>3, <2>4
<1>7. L \in 0 .. L
    BY <1>1
<1> QED BY <1>2, <1>6, <1>7 DEF acc, so

LEMMA StoredEntryIs ==
    ASSUME NEW old, RingList(old), HasIds(old), NEW r \in Rings
    PROVE  /\ StoredEntry(old, r) \in Rings
           /\ r.id \in RingIds(old) => StoredEntry(old, r) \in ToSet(old) /\ StoredEntry(old, r).id = r.id
           /\ r.id \notin RingIds(old) => StoredEntry(old, r) = EmptyRing
           /\ \A o \in ToSet(old) : o.id = r.id /\ r.id # NoId => StoredEntry(old, r) = o
<1>1. \A o \in ToSet(old) : o \in Rings
    BY DEF RingList, ToSet
<1>2. r.id \in RingIds(old) => \E o \in ToSet(old) : o.id = r.id
    BY DEF RingIds
<1>3. r.id \in RingIds(old) => StoredEntry(old, r) \in ToSet(old) /\ StoredEntry(old, r).id = r.id /\ r.id # NoId
    BY <1>2 DEF StoredEntry, RingIds
<1>4. r.id \notin RingIds(old) => StoredEntry(old, r) = EmptyRing
    BY DEF StoredEntry
<1>5. \A o, p \in ToSet(old) : o.id = p.id /\ o.id # NoId => o = p
    BY DEF HasIds, ToSet
<1>6. \A o \in ToSet(old) : o.id = r.id /\ r.id # NoId => r.id \in RingIds(old)
    BY DEF RingIds
<1> QED BY <1>1, <1>3, <1>4, <1>5, <1>6, EmptyRingIs

LEMMA RemovalIs ==
    ASSUME NEW r \in Rings
    PROVE  IsRingChange(RingRemoval(r)) /\ RingRemoval(r).id = r.id /\ RingRemoval(r).remove
<1> DEFINE c == RingRemoval(r)
<1>1. c = [id |-> r.id, remove |-> TRUE, offset |-> Absent, comment |-> Absent, layers |-> <<>>]
    BY DEF RingRemoval
<1>2. r.id \in {NoId} \cup Nat
    BY RingTypes
<1>3. DOMAIN <<>> = {} /\ IsFiniteSet({}) /\ <<>> \in [{} -> LayerChanges]
    BY FS_EmptySet
<1> HIDE DEF c
<1>4. c.id = r.id /\ c.remove = TRUE /\ c.layers = <<>>
    BY <1>1
<1>5. c \in [id : {NoId} \cup Nat, remove : BOOLEAN, offset : {Absent} \cup Nat,
              comment : {Absent} \cup Nat, layers : {c.layers}]
    BY <1>1, <1>2, <1>4
<1>6. IsRingChange(c)
    BY <1>3, <1>4, <1>5 DEF IsRingChange
<1> QED BY <1>4, <1>6 DEF c

KeptChanges(old, new) ==
    LET sorted == SortRings(new)
    IN  [i \in DOMAIN sorted |-> RingEntryChange(StoredEntry(old, sorted[i]), sorted[i])]
Telling(old, new) == {i \in DOMAIN KeptChanges(old, new) : ~SaysNothing(KeptChanges(old, new)[i])}
Gone(old, new) == {i \in DOMAIN SortRings(old) : SortRings(old)[i].id \notin RingIds(new)}
Removals(old, new) ==
    LET gone == Select(SortRings(old), Gone(old, new)) IN [i \in DOMAIN gone |-> RingRemoval(gone[i])]

LEMMA KeptChangesAre ==
    ASSUME NEW old, RingList(old), HasIds(old), NEW new, RingList(new)
    PROVE  LET t == KeptChanges(old, new)
               sn == SortRings(new)
           IN  /\ ChangeList(t) /\ DOMAIN t = DOMAIN sn
               /\ \A i \in DOMAIN sn : /\ sn[i] \in Rings /\ StoredEntry(old, sn[i]) \in Rings
                                       /\ t[i] = RingEntryChange(StoredEntry(old, sn[i]), sn[i])
                                       /\ t[i].remove = FALSE
                                       /\ t[i].id = IF sn[i].id \in RingIds(old) THEN sn[i].id ELSE NoId
                                       /\ SaysNothing(t[i]) <=> Alike(StoredEntry(old, sn[i]), sn[i])
<1> DEFINE t == KeptChanges(old, new)
           sn == SortRings(new)
<1>1. RingList(sn)
    BY SortedRings
<1>2. t = [i \in DOMAIN sn |-> RingEntryChange(StoredEntry(old, sn[i]), sn[i])]
    BY DEF KeptChanges
<1> HIDE DEF t, sn
<1>3. ASSUME NEW i \in DOMAIN sn
      PROVE  /\ sn[i] \in Rings /\ StoredEntry(old, sn[i]) \in Rings
             /\ t[i] = RingEntryChange(StoredEntry(old, sn[i]), sn[i]) /\ IsRingChange(t[i])
             /\ t[i].remove = FALSE
             /\ t[i].id = IF sn[i].id \in RingIds(old) THEN sn[i].id ELSE NoId
             /\ SaysNothing(t[i]) <=> Alike(StoredEntry(old, sn[i]), sn[i])
  <2> DEFINE r == sn[i]
             o == StoredEntry(old, r)
             c == RingEntryChange(o, r)
  <2>1. r \in Rings /\ t[i] = c
      BY <1>1, <1>2 DEF RingList
  <2> HIDE DEF r
  <2>2. o \in Rings /\ o.id = IF r.id \in RingIds(old) THEN r.id ELSE NoId
      BY <2>1, StoredEntryIs, EmptyRingIs
  <2> HIDE DEF o
  <2>3. IsRingChange(c) /\ c.id = o.id /\ c.remove = FALSE
      BY <2>1, <2>2, RingChangeIs
  <2>4. SaysNothing(c) <=> Alike(o, r)
      BY <2>1, <2>2, EntryChanged
  <2> QED BY <2>1, <2>2, <2>3, <2>4 DEF o, r
<1>4. DOMAIN t = DOMAIN sn /\ IsList(t)
  <2>1. Len(sn) \in Nat /\ DOMAIN sn = 1 .. Len(sn)
      BY <1>1 DEF RingList, IsList
  <2>2. DOMAIN t = 1 .. Len(sn) /\ t = [i \in 1 .. Len(sn) |-> t[i]]
      BY <1>2, <2>1
  <2> QED BY <2>1, <2>2, IsNumbered
<1> QED BY <1>3, <1>4 DEF ChangeList, t, sn

LEMMA RemovalsAre ==
    ASSUME NEW old, RingList(old), NEW new
    PROVE  LET t == Removals(old, new) IN
           /\ ChangeList(t)
           /\ \A i \in DOMAIN t : t[i].remove /\ t[i].id \notin RingIds(new)
           /\ {t[i].id : i \in DOMAIN t} = {o.id : o \in {q \in ToSet(old) : q.id \notin RingIds(new)}}
           /\ ToSet(t) = {RingRemoval(o) : o \in {q \in ToSet(old) : q.id \notin RingIds(new)}}
           /\ HasIds(old) => \A i, j \in DOMAIN t : t[i].id = t[j].id => i = j \/ t[i].id = NoId
<1> DEFINE so == SortRings(old)
           K == Gone(old, new)
           gone == Select(so, K)
           t == Removals(old, new)
           order == Ascending(K)
           N == Cardinality(K)
<1>1. RingList(so) /\ ToSet(so) = ToSet(old) /\ (HasIds(old) => HasIds(so))
    BY SortedRings, SortedHas, SortedIds
<1>2. K = {i \in DOMAIN so : so[i].id \notin RingIds(new)}
    BY DEF Gone
<1>3. t = [i \in DOMAIN gone |-> RingRemoval(gone[i])]
    BY DEF Removals
<1> HIDE DEF so, K, t
<1>4. K \in SUBSET DOMAIN so
    BY <1>2
<1>5. /\ N \in Nat /\ IsList(gone) /\ Len(gone) = N /\ order \in [1 .. N -> K]
      /\ \A i \in 1 .. N : gone[i] = so[order[i]]
      /\ \A k \in K : \E i \in 1 .. N : order[i] = k
      /\ \A i, j \in 1 .. N : i < j <=> order[i] < order[j]
    BY <1>1, <1>4, Selected DEF RingList
<1> HIDE DEF gone, order, N
<1>6. DOMAIN t = 1 .. N /\ t = [i \in 1 .. N |-> t[i]] /\ \A i \in 1 .. N : t[i] = RingRemoval(so[order[i]])
    BY <1>3, <1>5 DEF IsList
<1>7. ASSUME NEW i \in 1 .. N
      PROVE  /\ so[order[i]] \in ToSet(old) /\ so[order[i]].id \notin RingIds(new) /\ order[i] \in DOMAIN so
             /\ IsRingChange(t[i]) /\ t[i].id = so[order[i]].id /\ t[i].remove
  <2>1. order[i] \in K /\ order[i] \in DOMAIN so
      BY <1>4, <1>5
  <2>2. so[order[i]] \in Rings /\ so[order[i]] \in ToSet(so)
      BY <1>1, <2>1 DEF RingList, ToSet
  <2> QED BY <1>1, <1>2, <1>6, <2>1, <2>2, RemovalIs
<1>8. ASSUME NEW o \in ToSet(old), o.id \notin RingIds(new) PROVE \E i \in 1 .. N : so[order[i]] = o
  <2>1. PICK k \in DOMAIN so : so[k] = o
      BY <1>1 DEF ToSet
  <2> QED BY <1>2, <1>5, <1>8, <2>1
<1>9. ChangeList(t)
    BY <1>5, <1>6, <1>7, IsNumbered DEF ChangeList
<1>10. \A i \in DOMAIN t : t[i].remove /\ t[i].id \notin RingIds(new)
    BY <1>6, <1>7
<1>11. {t[i].id : i \in DOMAIN t} = {o.id : o \in {q \in ToSet(old) : q.id \notin RingIds(new)}}
  <2>1. \A i \in 1 .. N : t[i].id \in {o.id : o \in {q \in ToSet(old) : q.id \notin RingIds(new)}}
      BY <1>7
  <2>2. \A o \in ToSet(old) : o.id \notin RingIds(new) => o.id \in {t[i].id : i \in 1 .. N}
      BY <1>7, <1>8
  <2> QED BY <1>6, <2>1, <2>2
<1>12. ToSet(t) = {RingRemoval(o) : o \in {q \in ToSet(old) : q.id \notin RingIds(new)}}
  <2>1. \A i \in 1 .. N : t[i] \in {RingRemoval(o) : o \in {q \in ToSet(old) : q.id \notin RingIds(new)}}
      BY <1>6, <1>7
  <2>2. \A o \in ToSet(old) : o.id \notin RingIds(new) => RingRemoval(o) \in {t[i] : i \in 1 .. N}
      BY <1>6, <1>8
  <2> QED BY <1>6, <2>1, <2>2 DEF ToSet
<1>13. ASSUME HasIds(old), NEW i \in 1 .. N, NEW j \in 1 .. N, t[i].id = t[j].id, t[i].id # NoId PROVE i = j
  <2>1. order[i] = order[j]
      BY <1>1, <1>7, <1>13 DEF HasIds
  <2>2. order[i] \in Nat /\ order[j] \in Nat
      BY <1>1, <1>7 DEF RingList, IsList
  <2> QED BY <1>5, <2>1, <2>2
<1> QED BY <1>6, <1>9, <1>10, <1>11, <1>12, <1>13 DEF t

TellingChanges(old, new) == Select(KeptChanges(old, new), Telling(old, new))

\* The entries that a posted entry tells something new of, or that it adds.
Differing(old, new) == {r \in ToSet(new) : ~Alike(StoredEntry(old, r), r)}

AreTelling(t, order, old, new) ==
    /\ ChangeList(t)
    /\ \A m \in DOMAIN t : t[m].remove = FALSE
    /\ \A m \in DOMAIN t : t[m].id # NoId => t[m].id \in RingIds(old) /\ t[m].id \in RingIds(new)
    /\ \A j, m \in DOMAIN t : t[j].id = t[m].id => j = m \/ t[j].id = NoId
    /\ ToSet(t) = {RingEntryChange(StoredEntry(old, r), r) : r \in Differing(old, new)}

\* Where the changes come from in the sorted entries of a form.
ArePlaced(t, order, old, new) ==
    LET K == Telling(old, new)
        sn == SortRings(new)
    IN  /\ K = {i \in DOMAIN sn : ~Alike(StoredEntry(old, sn[i]), sn[i])}
        /\ Len(t) = Cardinality(K) /\ Cardinality(K) \in Nat /\ IsList(t)
        /\ order \in [DOMAIN t -> K]
        /\ \A k \in K : \E m \in DOMAIN t : order[m] = k
        /\ \A j, m \in DOMAIN t : j < m <=> order[j] < order[m]
        /\ \A m \in DOMAIN t : /\ t[m] = RingEntryChange(StoredEntry(old, sn[order[m]]), sn[order[m]])
                               /\ t[m].remove = FALSE
                               /\ t[m].id = IF sn[order[m]].id \in RingIds(old) THEN sn[order[m]].id ELSE NoId

LEMMA TellingChangesAre ==
    ASSUME NEW old, RingList(old), HasIds(old), NEW new, RingList(new), HasIds(new)
    PROVE  LET t == TellingChanges(old, new)
               order == Ascending(Telling(old, new))
           IN  AreTelling(t, order, old, new) /\ ArePlaced(t, order, old, new)
<1> DEFINE kept == KeptChanges(old, new)
           K == Telling(old, new)
           sn == SortRings(new)
           order == Ascending(K)
           N == Cardinality(K)
           t == TellingChanges(old, new)
<1>1. /\ ChangeList(kept) /\ DOMAIN kept = DOMAIN sn
      /\ \A i \in DOMAIN sn : /\ sn[i] \in Rings
                              /\ kept[i] = RingEntryChange(StoredEntry(old, sn[i]), sn[i])
                              /\ kept[i].remove = FALSE
                              /\ kept[i].id = IF sn[i].id \in RingIds(old) THEN sn[i].id ELSE NoId
                              /\ SaysNothing(kept[i]) <=> Alike(StoredEntry(old, sn[i]), sn[i])
    BY KeptChangesAre, ZenonT(60)
<1>2. RingList(sn) /\ ToSet(sn) = ToSet(new) /\ HasIds(sn)
    BY SortedRings, SortedHas, SortedIds
<1>3. K = {i \in DOMAIN sn : ~SaysNothing(kept[i])} /\ t = Select(kept, K)
    BY <1>1 DEF Telling, TellingChanges
<1> HIDE DEF kept, K, sn, t
<1>4. K = {i \in DOMAIN sn : ~Alike(StoredEntry(old, sn[i]), sn[i])} /\ K \in SUBSET DOMAIN kept
    BY <1>1, <1>3
<1>5. /\ N \in Nat /\ IsList(t) /\ Len(t) = N /\ order \in [1 .. N -> K]
      /\ \A m \in 1 .. N : t[m] = kept[order[m]]
      /\ \A k \in K : \E m \in 1 .. N : order[m] = k
      /\ \A j, m \in 1 .. N : j < m <=> order[j] < order[m]
  <2>1. IsList(kept)
      BY <1>1 DEF ChangeList
  <2> DEFINE u == Select(kept, K)
  <2>2. /\ N \in Nat /\ IsList(u) /\ Len(u) = N /\ order \in [1 .. N -> K]
        /\ \A m \in 1 .. N : u[m] = kept[order[m]]
        /\ \A k \in K : \E m \in 1 .. N : order[m] = k
        /\ \A j, m \in 1 .. N : j < m <=> order[j] < order[m]
      BY <1>4, <2>1, Selected
  <2>3. t = u
      BY <1>3
  <2> HIDE DEF u, order, N
  <2> QED BY <2>2, <2>3
<1>6. DOMAIN t = 1 .. N
    BY <1>5 DEF IsList
<1> HIDE DEF order, N
<1>7. \A m \in 1 .. N : order[m] \in K /\ order[m] \in DOMAIN sn
    BY <1>4, <1>5
<1>8. \A m \in 1 .. N : /\ t[m] = RingEntryChange(StoredEntry(old, sn[order[m]]), sn[order[m]])
                        /\ t[m].remove = FALSE
                        /\ t[m].id = IF sn[order[m]].id \in RingIds(old) THEN sn[order[m]].id ELSE NoId
                        /\ IsRingChange(t[m])
    BY <1>1, <1>5, <1>7 DEF ChangeList
<1>9. \A k \in DOMAIN sn : sn[k].id \in RingIds(old) => sn[k].id \in RingIds(new) /\ sn[k].id # NoId
    BY <1>2 DEF RingIds, ToSet
<1>10. \A m \in 1 .. N : t[m].id # NoId => t[m].id \in RingIds(old) /\ t[m].id \in RingIds(new) /\ t[m].id = sn[order[m]].id
    BY <1>7, <1>8, <1>9
<1>11. ASSUME NEW j \in 1 .. N, NEW m \in 1 .. N, t[j].id = t[m].id, t[j].id # NoId PROVE j = m
  <2>1. sn[order[j]].id = sn[order[m]].id /\ sn[order[j]].id # NoId
      BY <1>10, <1>11
  <2>2. order[j] = order[m]
      BY <1>2, <1>7, <2>1 DEF HasIds
  <2>3. order[j] \in Nat /\ order[m] \in Nat
      BY <1>2, <1>7 DEF RingList, IsList
  <2> QED BY <1>5, <2>2, <2>3
<1>12. ToSet(t) = {RingEntryChange(StoredEntry(old, r), r) : r \in Differing(old, new)}
  <2>1. ASSUME NEW m \in 1 .. N PROVE t[m] \in {RingEntryChange(StoredEntry(old, r), r) : r \in Differing(old, new)}
    <3>1. sn[order[m]] \in ToSet(new) /\ ~Alike(StoredEntry(old, sn[order[m]]), sn[order[m]])
        BY <1>2, <1>4, <1>7 DEF ToSet
    <3> QED BY <1>8, <3>1 DEF Differing
  <2>2. ASSUME NEW r \in Differing(old, new) PROVE \E m \in 1 .. N : t[m] = RingEntryChange(StoredEntry(old, r), r)
    <3>1. PICK k \in DOMAIN sn : sn[k] = r
        BY <1>2 DEF Differing, ToSet
    <3>2. k \in K
        BY <1>4, <3>1 DEF Differing
    <3> QED BY <1>5, <1>8, <3>1, <3>2
  <2> QED BY <1>6, <2>1, <2>2 DEF ToSet
<1>13. ChangeList(t)
    BY <1>5, <1>6, <1>8 DEF ChangeList
<1>14. AreTelling(t, order, old, new)
    BY <1>6, <1>8, <1>10, <1>11, <1>12, <1>13 DEF AreTelling
<1>15. ArePlaced(t, order, old, new)
    BY <1>4, <1>5, <1>6, <1>8 DEF ArePlaced, K, sn, N
<1> QED BY <1>14, <1>15 DEF t, order, K

RemovalsIf(allow, old, new) == IF allow THEN Removals(old, new) ELSE <<>>

LEMMA RingChangesAre ==
    ASSUME NEW old, RingList(old), HasIds(old), \A k \in DOMAIN old : old[k].id # NoId,
           NEW new, RingList(new), HasIds(new), NEW allow
    PROVE  LET chs == RingChanges(old, new, allow) IN
           /\ IsJoin(chs, TellingChanges(old, new), RemovalsIf(allow, old, new))
           /\ PlainChanges(old, chs)
           /\ ToSet(chs) = {RingEntryChange(StoredEntry(old, r), r) : r \in Differing(old, new)}
                           \cup ToSet(RemovalsIf(allow, old, new))
<1> DEFINE s == TellingChanges(old, new)
           t == RemovalsIf(allow, old, new)
           chs == RingChanges(old, new, allow)
<1>1. /\ ChangeList(s)
      /\ \A m \in DOMAIN s : s[m].id # NoId => s[m].id \in RingIds(old) /\ s[m].id \in RingIds(new)
      /\ \A j, m \in DOMAIN s : s[j].id = s[m].id => j = m \/ s[j].id = NoId
      /\ ToSet(s) = {RingEntryChange(StoredEntry(old, r), r) : r \in Differing(old, new)}
    BY TellingChangesAre, ZenonT(60) DEF AreTelling
<1>2. /\ ChangeList(t)
      /\ \A i \in DOMAIN t : t[i].remove /\ t[i].id \notin RingIds(new)
      /\ \A i \in DOMAIN t : t[i].id # NoId => t[i].id \in RingIds(old)
      /\ \A i, j \in DOMAIN t : t[i].id = t[j].id => i = j \/ t[i].id = NoId
  <2>1. CASE allow
    <3> DEFINE u == Removals(old, new)
    <3>1. /\ ChangeList(u) /\ \A i \in DOMAIN u : u[i].remove /\ u[i].id \notin RingIds(new)
          /\ {u[i].id : i \in DOMAIN u} = {o.id : o \in {q \in ToSet(old) : q.id \notin RingIds(new)}}
          /\ \A i, j \in DOMAIN u : u[i].id = u[j].id => i = j \/ u[i].id = NoId
        BY RemovalsAre
    <3>2. t = u
        BY <2>1 DEF RemovalsIf
    <3> HIDE DEF u, t
    <3>3. \A i \in DOMAIN t : t[i].id # NoId => t[i].id \in RingIds(old)
        BY <3>1, <3>2 DEF RingIds
    <3> QED BY <3>1, <3>2, <3>3
  <2>2. CASE ~allow
    <3>1. t = <<>> /\ DOMAIN <<>> = {} /\ <<>> \in Seq({})
        BY <2>2 DEF RemovalsIf
    <3>2. IsList(<<>>)
        BY <3>1, InSeq
    <3> QED BY <3>1, <3>2 DEF ChangeList
  <2> QED BY <2>1, <2>2
<1>3. chs = s \o t
    BY DEF RingChanges, TellingChanges, Telling, KeptChanges, RemovalsIf, Removals, Gone
<1> HIDE DEF s, t, chs
<1>4. IsJoin(chs, s, t)
    BY <1>1, <1>2, <1>3, Joined DEF ChangeList
<1>5. /\ \A i \in DOMAIN chs : i \in DOMAIN s \/ \E j \in DOMAIN t : i = Len(s) + j
      /\ ToSet(chs) = ToSet(s) \cup ToSet(t)
    BY <1>1, <1>2, <1>4, JoinedOf DEF ChangeList
<1>6. ChangeList(chs)
  <2>1. \A i \in DOMAIN s : IsRingChange(chs[i])
      BY <1>1, <1>4 DEF ChangeList, IsJoin
  <2>2. \A j \in DOMAIN t : IsRingChange(chs[Len(s) + j])
      BY <1>2, <1>4 DEF ChangeList, IsJoin
  <2>3. \A i \in DOMAIN chs : IsRingChange(chs[i])
      BY <1>5, <2>1, <2>2
  <2> QED BY <1>4, <2>3 DEF ChangeList, IsJoin
<1>7. ASSUME NEW i \in DOMAIN chs
      PROVE  (i \in DOMAIN s /\ chs[i] = s[i]) \/ \E j \in DOMAIN t : i = Len(s) + j /\ chs[i] = t[j]
    BY <1>4, <1>5 DEF IsJoin
<1>8. ASSUME NEW i \in DOMAIN chs, NEW k \in DOMAIN chs, chs[i].id = chs[k].id, chs[i].id # NoId PROVE i = k
  <2>1. CASE i \in DOMAIN s /\ chs[i] = s[i]
    <3>1. CASE k \in DOMAIN s /\ chs[k] = s[k]
        BY <1>1, <1>8, <2>1, <3>1
    <3>2. ASSUME NEW j \in DOMAIN t, chs[k] = t[j] PROVE FALSE
        BY <1>1, <1>2, <1>8, <2>1, <3>2
    <3> QED BY <1>7, <3>1, <3>2
  <2>2. ASSUME NEW j \in DOMAIN t, i = Len(s) + j, chs[i] = t[j] PROVE i = k
    <3>1. CASE k \in DOMAIN s /\ chs[k] = s[k]
        BY <1>1, <1>2, <1>8, <2>2, <3>1
    <3>2. ASSUME NEW l \in DOMAIN t, k = Len(s) + l, chs[k] = t[l] PROVE i = k
      <4>1. j = l
          BY <1>2, <1>8, <2>2, <3>2
      <4> QED BY <2>2, <3>2, <4>1
    <3> QED BY <1>7, <3>1, <3>2
  <2> QED BY <1>7, <2>1, <2>2
<1>9. \A m \in DOMAIN chs : chs[m].id # NoId => chs[m].id \in RingIds(old)
    BY <1>1, <1>2, <1>7
<1>10. PlainChanges(old, chs)
    BY <1>6, <1>8, <1>9 DEF PlainChanges
<1> QED BY <1>1, <1>4, <1>5, <1>10 DEF s, t, chs

LastOf(old, changes, merge) == Applications(old, changes, merge, RemovedIds(changes))[Len(changes)]

\* The entries that are kept and those that are added.
LEMMA AppliedAre ==
    ASSUME NEW old, RingList(old), NEW changes, ChangeList(changes), NEW merge
    PROVE  LET rs == ApplyRings(old, changes, merge)
               done == LastOf(old, changes, merge)
               K == {k \in 1 .. Len(old) : SortRings(old)[k].id \notin RemovedIds(changes)}
           IN  /\ IsState(done, Len(old)) /\ \A k \in 1 .. Len(old) : done.rings[k].id = SortRings(old)[k].id
               /\ Len(rs) = Cardinality(K) + Len(done.added) /\ Cardinality(K) \in Nat /\ Len(done.added) \in Nat
               /\ ToSet(rs) = {done.rings[k] : k \in K} \cup ToSet(done.added)
<1> DEFINE done == LastOf(old, changes, merge)
           N == Len(old)
           so == SortRings(old)
           removed == RemovedIds(changes)
           K == {k \in 1 .. N : so[k].id \notin removed}
           s == done.rings
           t == done.added
           kept == Select(s, K)
           all == kept \o t
<1>1. IsState(done, N) /\ \A k \in 1 .. N : s[k].id = so[k].id
  <2>1. Len(changes) \in 0 .. Len(changes)
      BY DEF ChangeList, IsList
  <2>2. \A n \in 0 .. Len(changes) :
              LET a == Applications(old, changes, merge, removed)[n] IN
              /\ IsState(a, Len(old))
              /\ \A k \in 1 .. Len(old) : a.rings[k].id = SortRings(old)[k].id
      BY RunKeeps
  <2> QED BY <2>1, <2>2 DEF LastOf
<1>2. RingList(s) /\ RingList(t) /\ DOMAIN s = 1 .. N /\ IsList(s) /\ IsList(t)
    BY <1>1 DEF IsState, RingList, IsList
<1>3. {k \in DOMAIN s : s[k].id \notin removed} = K
    BY <1>1, <1>2
<1>4. ApplyRings(old, changes, merge) = SortRings(all)
    BY <1>3 DEF ApplyRings, LastOf
<1>5. K \in SUBSET DOMAIN s /\ (\A i \in DOMAIN s : s[i] \in Rings) /\ (\A i \in DOMAIN t : t[i] \in Rings)
    BY <1>2 DEF RingList
<1> HIDE DEF done, N, so, removed, s, t, K
<1>6. /\ IsList(kept) /\ Len(kept) = Cardinality(K) /\ Cardinality(K) \in Nat
      /\ \A i \in DOMAIN kept : kept[i] \in Rings
      /\ ToSet(kept) = {s[k] : k \in K}
  <2>1. IsList(s)
      BY <1>2
  <2>2. IsList(kept) /\ Len(kept) = Cardinality(K) /\ Cardinality(K) \in Nat /\ ToSet(kept) = Picked(s, K)
      BY <1>5, <2>1, SelectedOf
  <2>3. \A i \in DOMAIN kept : kept[i] \in Rings
    <3>1. \A q \in ToSet(kept) : q \in Rings
        BY <1>5, <2>2 DEF Picked
    <3> HIDE DEF kept
    <3> QED BY <3>1 DEF ToSet
  <2> QED BY <2>2, <2>3 DEF Picked
<1> HIDE DEF kept
<1>7. IsJoin(all, kept, t)
    BY <1>2, <1>6, Joined
<1> HIDE DEF all
<1>8. (\A i \in DOMAIN all : i \in DOMAIN kept \/ \E j \in DOMAIN t : i = Len(kept) + j) /\ ToSet(all) = ToSet(kept) \cup ToSet(t)
    BY <1>2, <1>6, <1>7, JoinedOf
<1>9. RingList(all)
  <2>1. ASSUME NEW i \in DOMAIN all PROVE all[i] \in Rings
    <3>1. CASE i \in DOMAIN kept
        BY <1>6, <1>7, <3>1 DEF IsJoin
    <3>2. ASSUME NEW j \in DOMAIN t, i = Len(kept) + j PROVE all[i] \in Rings
        BY <1>5, <1>7, <3>2 DEF IsJoin
    <3> QED BY <1>8, <3>1, <3>2
  <2> QED BY <1>7, <2>1 DEF RingList, IsJoin
<1>10. Len(SortRings(all)) = Cardinality(K) + Len(t) /\ ToSet(SortRings(all)) = {s[k] : k \in K} \cup ToSet(t)
    BY <1>6, <1>7, <1>8, <1>9, SortedRings, SortedHas DEF IsJoin
<1>11. Len(t) \in Nat
    BY <1>2 DEF IsList
<1> QED BY <1>1, <1>4, <1>6, <1>10, <1>11 DEF done, N, so, removed, s, t, K

\* What the changes between two lists of entries take away.
LEMMA RemovedAre ==
    ASSUME NEW old, RingList(old), HasIds(old), \A k \in DOMAIN old : old[k].id # NoId,
           NEW new, RingList(new), HasIds(new), NEW allow, allow \/ old = <<>>
    PROVE  RemovedIds(RingChanges(old, new, allow)) = RingIds(old) \ RingIds(new)
<1> DEFINE chs == RingChanges(old, new, allow)
           t == RemovalsIf(allow, old, new)
<1>1. ToSet(chs) = {RingEntryChange(StoredEntry(old, r), r) : r \in Differing(old, new)} \cup ToSet(t)
    BY RingChangesAre
<1>2. \A r \in Differing(old, new) : RingEntryChange(StoredEntry(old, r), r).remove = FALSE
  <2> SUFFICES ASSUME NEW r \in Differing(old, new) PROVE RingEntryChange(StoredEntry(old, r), r).remove = FALSE
      OBVIOUS
  <2>1. r \in Rings
      BY DEF Differing, RingList, ToSet
  <2> QED BY <2>1, StoredEntryIs, RingChangeIs
<1>3. /\ \A c \in ToSet(t) : c.remove
      /\ {c.id : c \in ToSet(t)} = {o.id : o \in {q \in ToSet(old) : q.id \notin RingIds(new)}}
  <2>1. CASE allow
    <3> DEFINE u == Removals(old, new)
    <3>1. /\ \A i \in DOMAIN u : u[i].remove
          /\ {u[i].id : i \in DOMAIN u} = {o.id : o \in {q \in ToSet(old) : q.id \notin RingIds(new)}}
        BY RemovalsAre
    <3>2. t = u
        BY <2>1 DEF RemovalsIf
    <3> HIDE DEF u, t
    <3>3. {c.id : c \in ToSet(t)} = {u[i].id : i \in DOMAIN u}
        BY <3>2 DEF ToSet
    <3> QED BY <3>1, <3>2, <3>3 DEF ToSet
  <2>2. CASE ~allow
    <3>1. t = <<>> /\ old = <<>> /\ ToSet(<<>>) = {}
        BY <2>2 DEF RemovalsIf, ToSet
    <3> HIDE DEF t
    <3> QED BY <3>1
  <2> QED BY <2>1, <2>2
<1> HIDE DEF chs, t
<1>4. RemovedIds(chs) = {c.id : c \in ToSet(t)}
    BY <1>1, <1>2, <1>3 DEF RemovedIds
<1>5. \A q \in ToSet(old) : q.id # NoId
    BY DEF ToSet
<1> QED BY <1>3, <1>4, <1>5 DEF RingIds, chs

Posted(old, new, allow) ==
    /\ RingList(old) /\ HasIds(old) /\ \A k \in DOMAIN old : old[k].id # NoId
    /\ RingList(new) /\ HasIds(new) /\ \A r \in ToSet(new) : ~RingIsEmpty(r)
    /\ allow \/ old = <<>>

\* The entry of the disc that a posted one changes.
LEMMA KeptEntry ==
    ASSUME NEW old, NEW new, NEW allow, Posted(old, new, allow),
           NEW k \in 1 .. Len(old), NEW r \in ToSet(new), r.id = SortRings(old)[k].id
    PROVE  Alike(LastOf(old, RingChanges(old, new, allow), FALSE).rings[k], r)
<1> DEFINE chs == RingChanges(old, new, allow)
           so == SortRings(old)
           o == so[k]
           L == Len(chs)
           no == FALSE
           done == LastOf(old, chs, no)
<1> USE DEF Posted
<1>1. /\ PlainChanges(old, chs)
      /\ ToSet(chs) = {RingEntryChange(StoredEntry(old, x), x) : x \in Differing(old, new)}
                       \cup ToSet(RemovalsIf(allow, old, new))
    BY RingChangesAre
<1>2. RingList(so) /\ ToSet(so) = ToSet(old) /\ DOMAIN so = 1 .. Len(old) /\ RingList(old) /\ HasIds(old)
    BY SortedRings, SortedHas DEF RingList, IsList
<1>3. o \in Rings /\ o \in ToSet(old) /\ o.id # NoId /\ r \in Rings /\ o.id = r.id /\ o.id \in RingIds(old) /\ o.id \in RingIds(new)
  <2>1. o \in ToSet(so)
      BY <1>2 DEF ToSet
  <2>2. \A q \in ToSet(old) : q \in Rings /\ q.id # NoId
      BY DEF ToSet, RingList
  <2>3. r \in Rings
      BY DEF ToSet, RingList
  <2> QED BY <1>2, <2>1, <2>2, <2>3 DEF RingIds
<1>4. StoredEntry(old, r) = o
    BY <1>2, <1>3, StoredEntryIs
<1>5. DOMAIN chs = 1 .. L
    BY <1>1 DEF PlainChanges, ChangeList, IsList
<1>6. PlainlyDone(chs, L, so, done)
  <2> DEFINE removed == RemovedIds(chs)
             a == Applications(old, chs, no, removed)[L]
  <2>1. PlainlyDone(chs, L, so, a)
    <3> HIDE DEF chs, removed
    <3> QED BY <1>1, PlainRun
  <2> QED BY <2>1 DEF LastOf
<1> HIDE DEF chs, so, o, L, done
<1>7. ASSUME NEW c \in ToSet(chs), c.id = o.id PROVE c = RingEntryChange(o, r) /\ c.remove = FALSE /\ ~Alike(o, r)
  <2>1. CASE c \in ToSet(RemovalsIf(allow, old, new))
    <3>1. allow /\ c \in ToSet(Removals(old, new))
        BY <2>1 DEF RemovalsIf, ToSet
    <3>2. \A i \in DOMAIN Removals(old, new) : Removals(old, new)[i].id \notin RingIds(new)
        BY <1>2, RemovalsAre
    <3> QED BY <1>3, <1>7, <3>1, <3>2 DEF ToSet
  <2>2. ASSUME NEW x \in Differing(old, new), c = RingEntryChange(StoredEntry(old, x), x)
        PROVE  c = RingEntryChange(o, r) /\ c.remove = FALSE /\ ~Alike(o, r)
    <3>1. x \in Rings /\ x \in ToSet(new) /\ ~Alike(StoredEntry(old, x), x)
        BY DEF Differing, RingList, ToSet
    <3>2. StoredEntry(old, x) \in Rings /\ (x.id \in RingIds(old) => StoredEntry(old, x).id = x.id)
          /\ (x.id \notin RingIds(old) => StoredEntry(old, x) = EmptyRing)
        BY <1>2, <3>1, StoredEntryIs
    <3>3. c.id = StoredEntry(old, x).id /\ c.remove = FALSE
        BY <2>2, <3>1, <3>2, RingChangeIs
    <3>4. x.id = o.id
        BY <1>3, <1>7, <3>2, <3>3, EmptyRingIs
    <3>5. x = r
        BY <1>3, <3>1, <3>4 DEF HasIds, ToSet
    <3> QED BY <1>4, <2>2, <3>1, <3>3, <3>5
  <2> QED BY <1>1, <2>1, <2>2
<1>8. CASE Alike(o, r)
  <2>1. \A m \in 1 .. L : chs[m].id # o.id
      BY <1>5, <1>7, <1>8 DEF ToSet
  <2>2. done.rings[k] = o
      BY <1>2, <1>6, <2>1 DEF PlainlyDone, o
  <2> QED BY <1>8, <2>2 DEF done, chs
<1>9. CASE ~Alike(o, r)
  <2> DEFINE c == RingEntryChange(o, r)
  <2>1. c \in ToSet(chs)
    <3>1. r \in Differing(old, new)
        BY <1>4, <1>9 DEF Differing
    <3> QED BY <1>1, <1>4, <3>1
  <2>2. PICK m \in 1 .. L : chs[m] = c
      BY <1>5, <2>1 DEF ToSet
  <2>3. c.id = o.id /\ c.remove = FALSE
      BY <1>3, RingChangeHead
  <2>4. done.rings[k] = Plain(o, c)
      BY <1>2, <1>6, <2>2, <2>3 DEF PlainlyDone, o
  <2>5. Alike(Plain(o, c), r)
      BY <1>3, EntryChanged DEF Plain
  <2> QED BY <2>4, <2>5 DEF done, chs
<1> QED BY <1>8, <1>9

NewPlaces(old, new) == {i \in 1 .. Len(new) : new[i].id \notin RingIds(old)}

\* There is an addition for each entry without an id that the disc knows.
LEMMA AdditionsCount ==
    ASSUME NEW old, NEW new, NEW allow, Posted(old, new, allow)
    PROVE  LET chs == RingChanges(old, new, allow)
               U == AddedUpTo(chs, Len(chs))
           IN  IsFiniteSet(U) /\ U \subseteq DOMAIN chs /\ Cardinality(U) = Cardinality(NewPlaces(old, new))
<1> DEFINE chs == RingChanges(old, new, allow)
           L == Len(chs)
           U == AddedUpTo(chs, L)
           t == TellingChanges(old, new)
           rem == RemovalsIf(allow, old, new)
           order == Ascending(Telling(old, new))
           sn == SortRings(new)
           so == RingOrder(new)
           V == {i \in DOMAIN sn : sn[i].id \notin RingIds(old)}
           W == NewPlaces(old, new)
           M == Len(new)
<1> USE DEF Posted
<1>1. /\ IsJoin(chs, t, rem) /\ PlainChanges(old, chs)
    BY RingChangesAre
<1>2. AreTelling(t, order, old, new) /\ ArePlaced(t, order, old, new)
    BY TellingChangesAre
<1>3. /\ IsList(rem) /\ \A i \in DOMAIN rem : rem[i].remove
  <2>1. CASE allow
    <3> DEFINE u == Removals(old, new)
    <3>1. ChangeList(u) /\ \A i \in DOMAIN u : u[i].remove
        BY RemovalsAre
    <3>2. rem = u
        BY <2>1 DEF RemovalsIf
    <3> HIDE DEF u, rem
    <3> QED BY <3>1, <3>2 DEF ChangeList
  <2>2. CASE ~allow
    <3>1. rem = <<>> /\ DOMAIN <<>> = {} /\ <<>> \in Seq({})
        BY <2>2 DEF RemovalsIf
    <3>2. IsList(<<>>)
        BY <3>1, InSeq
    <3> QED BY <3>1, <3>2
  <2> QED BY <2>1, <2>2
<1>4. L \in Nat /\ DOMAIN chs = 1 .. L
    BY <1>1 DEF PlainChanges, ChangeList, IsList
<1>5. /\ RingList(sn) /\ DOMAIN sn = 1 .. M /\ M \in Nat /\ ToSet(sn) = ToSet(new) /\ Reorders(so, new)
      /\ \A k \in 1 .. M : sn[k] = new[so[k]]
    BY SortedRings, SortedHas DEF RingList, IsList
<1> HIDE DEF sn, so, t, rem, chs, L, M
<1>6. IsList(t) /\ (\A i \in DOMAIN chs : i \in DOMAIN t \/ \E j \in DOMAIN rem : i = Len(t) + j)
  <2>1. IsList(t)
      BY <1>2 DEF AreTelling, ChangeList
  <2> QED BY <1>1, <1>3, <2>1, JoinedOf
<1>7. U = {m \in DOMAIN t : t[m].id = NoId}
  <2>1. ASSUME NEW m \in DOMAIN t PROVE m \in DOMAIN chs /\ chs[m] = t[m] /\ t[m].remove = FALSE
    <3>1. DOMAIN t = 1 .. Len(t) /\ Len(t) \in Nat /\ Len(chs) = Len(t) + Len(rem) /\ Len(rem) \in Nat
        BY <1>1, <1>3, <1>6 DEF IsList, IsJoin
    <3> QED BY <1>1, <1>2, <1>4, <3>1 DEF IsJoin, AreTelling, L
  <2>2. \A j \in DOMAIN rem : chs[Len(t) + j].remove
      BY <1>1, <1>3 DEF IsJoin
  <2> QED BY <1>4, <1>6, <2>1, <2>2 DEF AddedUpTo
<1>8. /\ \A m \in DOMAIN t : t[m].id = IF sn[order[m]].id \in RingIds(old) THEN sn[order[m]].id ELSE NoId
      /\ order \in [DOMAIN t -> Telling(old, new)]
      /\ Telling(old, new) = {i \in DOMAIN sn : ~Alike(StoredEntry(old, sn[i]), sn[i])}
      /\ \A k \in Telling(old, new) : \E m \in DOMAIN t : order[m] = k
      /\ \A j, m \in DOMAIN t : j < m <=> order[j] < order[m]
    BY <1>2 DEF ArePlaced, sn
<1>9. NoId \notin RingIds(old)
    BY DEF RingIds
<1>10. V \subseteq Telling(old, new)
  <2> SUFFICES ASSUME NEW i \in DOMAIN sn, sn[i].id \notin RingIds(old) PROVE ~Alike(StoredEntry(old, sn[i]), sn[i])
      BY <1>8
  <2>1. sn[i] \in Rings /\ sn[i] \in ToSet(new)
      BY <1>5 DEF RingList, ToSet
  <2>2. StoredEntry(old, sn[i]) = EmptyRing /\ ~RingIsEmpty(sn[i])
      BY <2>1, StoredEntryIs
  <2> QED BY <2>1, <2>2, EmptyAlike
<1> HIDE DEF order, U
<1>11. \A m \in DOMAIN t : m \in U <=> order[m] \in V
    BY <1>7, <1>8, <1>9
<1>12. IsFiniteSet(U) /\ U \subseteq DOMAIN chs
  <2>1. U \subseteq 1 .. L /\ IsFiniteSet(1 .. L)
      BY <1>4, NumbersTo DEF AddedUpTo, U
  <2>2. IsFiniteSet(U)
      BY <2>1, FS_Subset
  <2> QED BY <1>4, <2>1, <2>2
<1>13. \A j, m \in U : order[j] = order[m] => j = m
  <2> SUFFICES ASSUME NEW j \in U, NEW m \in U, order[j] = order[m] PROVE j = m
      OBVIOUS
  <2>1. j \in DOMAIN t /\ m \in DOMAIN t /\ j \in Nat /\ m \in Nat
      BY <1>6, <1>7 DEF IsList
  <2>2. order[j] \in DOMAIN sn /\ order[j] \in Nat
      BY <1>5, <1>8, <2>1
  <2> QED BY <1>8, <2>1, <2>2
<1>14. {order[m] : m \in U} = V
    BY <1>7, <1>8, <1>10, <1>11
<1>15. Cardinality(V) = Cardinality(U) /\ IsFiniteSet(V)
    BY <1>12, <1>13, <1>14, AsManyValues
<1>16. {so[i] : i \in V} = W /\ \A i, j \in V : so[i] = so[j] => i = j
  <2>1. /\ \A i \in 1 .. M : so[i] \in 1 .. M
        /\ \A j, k \in 1 .. M : so[j] = so[k] => j = k
        /\ \A k \in 1 .. M : \E j \in 1 .. M : so[j] = k
      BY <1>5 DEF Reorders, M
  <2>2. W = {i \in 1 .. M : new[i].id \notin RingIds(old)}
      BY DEF NewPlaces, M
  <2>3. \A i \in V : i \in 1 .. M /\ so[i] \in W
      BY <1>5, <2>1, <2>2
  <2>4. ASSUME NEW w \in W PROVE \E i \in V : so[i] = w
    <3>1. PICK i \in 1 .. M : so[i] = w
        BY <2>1, <2>2
    <3>2. sn[i].id \notin RingIds(old)
        BY <1>5, <2>2, <3>1
    <3> QED BY <1>5, <3>1, <3>2
  <2> DEFINE X == {so[i] : i \in V}
  <2>5. X \subseteq W
      BY <2>3
  <2>6. W \subseteq X
    <3> HIDE DEF V, W
    <3> QED BY <2>4
  <2>7. \A i, j \in V : so[i] = so[j] => i = j
      BY <2>1, <2>3
  <2> QED BY <2>5, <2>6, <2>7
<1> HIDE DEF V
<1>17. Cardinality(W) = Cardinality(V)
    BY <1>15, <1>16, AsManyValues
<1> QED BY <1>12, <1>15, <1>17 DEF U, chs, L

LEMMA AddedAre ==
    ASSUME NEW old, NEW new, NEW allow, Posted(old, new, allow)
    PROVE  LET added == LastOf(old, RingChanges(old, new, allow), FALSE).added IN
           /\ Len(added) = Cardinality(NewPlaces(old, new))
           /\ \A q \in ToSet(added) : q.id = NoId /\ \E r \in ToSet(new) : r.id \notin RingIds(old) /\ Alike(q, r)
           /\ \A r \in ToSet(new) : r.id \notin RingIds(old) => \E q \in ToSet(added) : Alike(q, r)
<1> DEFINE chs == RingChanges(old, new, allow)
           L == Len(chs)
           U == AddedUpTo(chs, L)
           no == FALSE
           done == LastOf(old, chs, no)
           s == Additions(chs)
<1> USE DEF Posted
<1>1. /\ PlainChanges(old, chs)
      /\ ToSet(chs) = {RingEntryChange(StoredEntry(old, x), x) : x \in Differing(old, new)}
                       \cup ToSet(RemovalsIf(allow, old, new))
    BY RingChangesAre
<1>2. \A c \in ToSet(RemovalsIf(allow, old, new)) : c.remove
  <2>1. CASE allow
    <3>1. \A i \in DOMAIN Removals(old, new) : Removals(old, new)[i].remove
        BY RemovalsAre
    <3>2. RemovalsIf(allow, old, new) = Removals(old, new)
        BY <2>1 DEF RemovalsIf
    <3> QED BY <3>1, <3>2 DEF ToSet
  <2>2. CASE ~allow
      BY <2>2 DEF RemovalsIf, ToSet
  <2> QED BY <2>1, <2>2
<1>3. DOMAIN chs = 1 .. L /\ ChangeList(chs)
    BY <1>1 DEF PlainChanges, ChangeList, IsList
<1>4. done.added = Select(s, U)
  <2> DEFINE removed == RemovedIds(chs)
             a == Applications(old, chs, no, removed)[L]
             so == SortRings(old)
  <2>1. PlainlyDone(chs, L, so, a)
    <3> HIDE DEF chs, removed
    <3> QED BY <1>1, PlainRun
  <2> HIDE DEF so
  <2> QED BY <2>1 DEF LastOf, PlainlyDone
<1>5. IsFiniteSet(U) /\ U \subseteq DOMAIN chs /\ Cardinality(U) = Cardinality(NewPlaces(old, new))
    BY AdditionsCount
<1> HIDE DEF chs, L, done, U
<1>6. /\ IsList(s) /\ DOMAIN s = DOMAIN chs
      /\ \A m \in DOMAIN chs : s[m] = Plain(EmptyRing, chs[m]) /\ s[m].id = NoId
    BY <1>3, AdditionsAre DEF RingList
<1> HIDE DEF s
<1>7. Len(done.added) = Cardinality(U) /\ ToSet(done.added) = {s[m] : m \in U}
  <2>1. U \in SUBSET DOMAIN s
      BY <1>5, <1>6
  <2>2. Len(Select(s, U)) = Cardinality(U) /\ ToSet(Select(s, U)) = Picked(s, U)
      BY <1>6, <2>1, SelectedOf
  <2> QED BY <1>4, <2>2 DEF Picked
<1>8. ASSUME NEW x \in Differing(old, new)
      PROVE  LET c == RingEntryChange(StoredEntry(old, x), x) IN
             /\ x \in ToSet(new) /\ c.remove = FALSE
             /\ c.id = NoId <=> x.id \notin RingIds(old)
             /\ x.id \notin RingIds(old) => Alike(Plain(EmptyRing, c), x)
  <2> DEFINE o == StoredEntry(old, x)
             c == RingEntryChange(o, x)
  <2>1. x \in Rings /\ x \in ToSet(new) /\ ~Alike(o, x)
      BY DEF Differing, RingList, ToSet
  <2>2. o \in Rings /\ (x.id \in RingIds(old) => o.id = x.id /\ o.id # NoId) /\ (x.id \notin RingIds(old) => o = EmptyRing)
    <3>1. x.id \in RingIds(old) => x.id # NoId
        BY DEF RingIds
    <3> QED BY <2>1, <3>1, StoredEntryIs
  <2> HIDE DEF o
  <2>3. c.id = o.id /\ c.remove = FALSE
      BY <2>1, <2>2, RingChangeHead
  <2>4. Alike(Plain(o, c), x)
      BY <2>1, <2>2, EntryChanged DEF Plain
  <2> QED BY <2>1, <2>2, <2>3, <2>4, EmptyRingIs DEF o
<1>9. ASSUME NEW m \in U
      PROVE  \E x \in Differing(old, new) : x.id \notin RingIds(old) /\ chs[m] = RingEntryChange(StoredEntry(old, x), x)
  <2>1. m \in DOMAIN chs /\ ~chs[m].remove /\ chs[m].id = NoId /\ chs[m] \in ToSet(chs)
      BY <1>5 DEF U, AddedUpTo, ToSet
  <2>2. PICK x \in Differing(old, new) : chs[m] = RingEntryChange(StoredEntry(old, x), x)
      BY <1>1, <1>2, <2>1
  <2> QED BY <1>8, <2>1, <2>2
<1>10. ASSUME NEW q \in ToSet(done.added)
       PROVE  q.id = NoId /\ \E r \in ToSet(new) : r.id \notin RingIds(old) /\ Alike(q, r)
  <2>1. PICK m \in U : q = s[m]
      BY <1>7
  <2>2. PICK x \in Differing(old, new) : x.id \notin RingIds(old) /\ chs[m] = RingEntryChange(StoredEntry(old, x), x)
      BY <1>9
  <2>3. q = Plain(EmptyRing, chs[m]) /\ q.id = NoId
      BY <1>5, <1>6, <2>1
  <2>4. x \in ToSet(new) /\ Alike(q, x)
      BY <1>8, <2>2, <2>3
  <2> QED BY <2>2, <2>3, <2>4
<1>11. ASSUME NEW r \in ToSet(new), r.id \notin RingIds(old) PROVE \E q \in ToSet(done.added) : Alike(q, r)
  <2>1. r \in Differing(old, new)
    <3>1. r \in Rings /\ ~RingIsEmpty(r)
        BY DEF RingList, ToSet
    <3>2. StoredEntry(old, r) = EmptyRing
        BY <1>11, <3>1, StoredEntryIs
    <3> QED BY <3>1, <3>2, EmptyAlike DEF Differing
  <2> DEFINE c == RingEntryChange(StoredEntry(old, r), r)
  <2>2. c \in ToSet(chs) /\ c.remove = FALSE /\ c.id = NoId /\ Alike(Plain(EmptyRing, c), r)
      BY <1>1, <1>8, <1>11, <2>1
  <2> HIDE DEF c
  <2>3. PICK m \in DOMAIN chs : chs[m] = c
      BY <2>2 DEF ToSet
  <2>4. m \in U
      BY <1>3, <2>2, <2>3 DEF U, AddedUpTo
  <2>5. s[m] = Plain(EmptyRing, c)
      BY <1>6, <2>3
  <2> QED BY <1>7, <2>2, <2>4, <2>5
<1> QED BY <1>5, <1>7, <1>10, <1>11 DEF done, chs

\* The entries that are on the disc and in the form.
LEMMA KeptCount ==
    ASSUME NEW old, NEW new, NEW allow, Posted(old, new, allow)
    PROVE  LET K == {k \in 1 .. Len(old) : SortRings(old)[k].id \in RingIds(new)} IN
           Cardinality(K) + Cardinality(NewPlaces(old, new)) = Len(new)
<1> DEFINE N == Len(old)
           M == Len(new)
           so == SortRings(old)
           K == {k \in 1 .. N : so[k].id \in RingIds(new)}
           P == {i \in 1 .. M : new[i].id \in RingIds(old)}
           Q == NewPlaces(old, new)
           I == RingIds(old) \cap RingIds(new)
<1> USE DEF Posted
<1>1. N \in Nat /\ DOMAIN old = 1 .. N /\ M \in Nat /\ DOMAIN new = 1 .. M
    BY DEF RingList, IsList
<1>2. /\ RingList(so) /\ HasIds(so) /\ ToSet(so) = ToSet(old) /\ DOMAIN so = 1 .. N
    BY SortedRings, SortedHas, SortedIds DEF RingList, IsList
<1>3. \A k \in 1 .. N : so[k].id # NoId /\ so[k].id \in RingIds(old)
  <2>1. \A q \in ToSet(old) : q.id # NoId
      BY DEF ToSet
  <2> HIDE DEF so
  <2> QED BY <1>2, <2>1 DEF ToSet, RingIds
<1> HIDE DEF N, M, so
<1>4. IsFiniteSet(K) /\ IsFiniteSet(P) /\ Q = (1 .. M) \ P /\ IsFiniteSet(1 .. M) /\ Cardinality(1 .. M) = M /\ P \subseteq 1 .. M
  <2>1. IsFiniteSet(1 .. N) /\ IsFiniteSet(1 .. M) /\ Cardinality(1 .. M) = M
      BY <1>1, NumbersTo
  <2>2. K \subseteq 1 .. N /\ P \subseteq 1 .. M
      OBVIOUS
  <2>3. Q = (1 .. M) \ P
      BY DEF NewPlaces, M
  <2> HIDE DEF K, P
  <2>4. IsFiniteSet(K) /\ IsFiniteSet(P)
      BY <2>1, <2>2, FS_Subset
  <2> QED BY <2>1, <2>2, <2>3, <2>4
<1>5. Cardinality(I) = Cardinality(K)
  <2> DEFINE f == [k \in K |-> so[k].id]
  <2>1. \A x, y \in K : f[x] = f[y] => x = y
      BY <1>2, <1>3 DEF HasIds
  <2>2. {f[x] : x \in K} = I
    <3>1. \A x \in K : f[x] \in I
        BY <1>3
    <3>2. ASSUME NEW i \in I PROVE \E x \in K : f[x] = i
      <4>1. PICK q \in ToSet(so) : q.id = i
          BY <1>2 DEF RingIds
      <4>2. PICK k \in 1 .. N : so[k] = q
          BY <1>2 DEF ToSet
      <4> QED BY <4>1, <4>2
    <3> HIDE DEF f, I, K
    <3> QED BY <3>1, <3>2
  <2> HIDE DEF f, K, I
  <2>3. Cardinality({f[x] : x \in K}) = Cardinality(K)
      BY <1>4, <2>1, AsManyValues, ZenonT(60)
  <2> QED BY <2>2, <2>3
<1>6. Cardinality(I) = Cardinality(P)
  <2> DEFINE f == [i \in P |-> new[i].id]
  <2>1. \A x, y \in P : f[x] = f[y] => x = y
    <3>1. \A x \in P : new[x].id # NoId
        BY DEF RingIds
    <3> QED BY <1>1, <3>1 DEF HasIds
  <2>2. {f[x] : x \in P} = I
    <3>1. \A x \in P : f[x] \in I
        BY <1>1 DEF RingIds, ToSet
    <3>2. ASSUME NEW i \in I PROVE \E x \in P : f[x] = i
      <4>1. PICK q \in ToSet(new) : q.id = i
          BY DEF RingIds
      <4>2. PICK k \in 1 .. M : new[k] = q
          BY <1>1, <4>1 DEF ToSet
      <4> QED BY <4>1, <4>2
    <3> HIDE DEF f, I, P
    <3> QED BY <3>1, <3>2
  <2> HIDE DEF f, P, I
  <2>3. Cardinality({f[x] : x \in P}) = Cardinality(P)
      BY <1>4, <2>1, AsManyValues, ZenonT(60)
  <2> QED BY <2>2, <2>3
<1> HIDE DEF K, P, Q, I
<1>7. Cardinality(Q) = Cardinality(1 .. M) - Cardinality((1 .. M) \cap P) /\ (1 .. M) \cap P = P
  <2>1. (1 .. M) \cap P = P
      BY <1>4
  <2> DEFINE S == 1 .. M
  <2> HIDE DEF S
  <2>2. Cardinality(S \ P) = Cardinality(S) - Cardinality(S \cap P)
      BY <1>4, FS_Difference DEF S
  <2> QED BY <1>4, <2>1, <2>2 DEF S
<1>8. Cardinality(P) \in Nat /\ M \in Nat
    BY <1>1, <1>4, FS_CardinalityType
<1>9. Cardinality(K) + Cardinality(Q) = M
  <2>1. Cardinality(Q) = M - Cardinality(P)
      BY <1>4, <1>7
  <2>2. Cardinality(K) = Cardinality(P)
      BY <1>5, <1>6
  <2> QED BY <1>8, <2>1, <2>2
<1> QED BY <1>9 DEF K, Q, N, M, so

\* Applying the changes between what a disc has and what a form has yields the
\* entries of the form, and as many.
AppliedChanges(old, new, allow) ==
    LET chs == RingChanges(old, new, allow)
    IN  IF chs = <<>> THEN old ELSE ApplyRings(old, chs, FALSE)

LEMMA NothingApplied ==
    ASSUME NEW old, RingList(old)
    PROVE  /\ ToSet(ApplyRings(old, <<>>, FALSE)) = ToSet(old)
           /\ Len(ApplyRings(old, <<>>, FALSE)) = Len(old)
<1> DEFINE no == FALSE
           none == <<>>
           so == SortRings(old)
           N == Len(old)
<1>2. Len(none) = 0 /\ DOMAIN none = {} /\ ToSet(none) = {} /\ none \in Seq({})
    BY DEF ToSet
<1>3. ChangeList(none)
    BY <1>2, InSeq DEF ChangeList
<1>4. RemovedIds(none) = {}
    BY <1>2 DEF RemovedIds
<1>5. RingList(so) /\ ToSet(so) = ToSet(old) /\ DOMAIN so = 1 .. N /\ N \in Nat
    BY SortedRings, SortedHas DEF RingList, IsList
<1> DEFINE rs == ApplyRings(old, none, no)
           done == LastOf(old, none, no)
           K == {k \in 1 .. N : so[k].id \notin RemovedIds(none)}
<1>6. /\ Len(rs) = Cardinality(K) + Len(done.added)
      /\ ToSet(rs) = {done.rings[k] : k \in K} \cup ToSet(done.added)
  <2> HIDE DEF none, no
  <2> QED BY <1>3, AppliedAre
<1>7. done = [rings |-> so, added |-> <<>>]
  <2>1. Len(none) \in Nat
      BY <1>2
  <2>2. Applications(old, none, no, RemovedIds(none))[0] = [rings |-> so, added |-> <<>>]
    <3> HIDE DEF no, none
    <3> QED BY <2>1, ApplicationsAre
  <2> QED BY <1>2, <2>2 DEF LastOf
<1> HIDE DEF done, so, N
<1>8. done.rings = so /\ done.added = <<>>
    BY <1>7
<1>9. K = 1 .. N /\ Cardinality(1 .. N) = N
    BY <1>4, <1>5, NumbersTo
<1>10. {so[k] : k \in 1 .. N} = ToSet(so) /\ ToSet(<<>>) = {} /\ Len(<<>>) = 0
    BY <1>5 DEF ToSet
<1> HIDE DEF rs
<1>11. Len(rs) = N
  <2>1. Cardinality(K) = N
      BY <1>9
  <2>2. Len(done.added) = 0
      BY <1>8, <1>10
  <2> HIDE DEF K
  <2> QED BY <1>5, <1>6, <2>1, <2>2
<1>12. ToSet(rs) = ToSet(old)
  <2>1. {done.rings[k] : k \in K} = ToSet(so)
      BY <1>8, <1>9, <1>10
  <2> QED BY <1>5, <1>6, <1>8, <1>10, <2>1
<1> QED BY <1>11, <1>12 DEF rs, N

\* The entries of rs are those of new, but for empty layers at the end and for
\* the ids of those that the disc does not have.
AreEntriesOf(rs, new, old) ==
    /\ RingList(rs) /\ HasIds(rs) /\ Len(rs) = Len(new)
    /\ \A q \in ToSet(rs) : q.id = NoId \/ q.id \in RingIds(old)
    /\ \A q \in ToSet(rs) : \E r \in ToSet(new) :
          Alike(q, r) /\ IF q.id = NoId THEN r.id \notin RingIds(old) ELSE r.id = q.id
    /\ \A r \in ToSet(new) : \E q \in ToSet(rs) : Alike(q, r) /\ (r.id \in RingIds(old) => q.id = r.id)

LEMMA RingsRoundTrip ==
    ASSUME NEW old, NEW new, NEW allow, Posted(old, new, allow)
    PROVE  AreEntriesOf(AppliedChanges(old, new, allow), new, old)
<1> DEFINE chs == RingChanges(old, new, allow)
           no == FALSE
           rs == ApplyRings(old, chs, no)
           done == LastOf(old, chs, no)
           so == SortRings(old)
           N == Len(old)
           K == {k \in 1 .. N : so[k].id \in RingIds(new)}
           W == NewPlaces(old, new)
<1> USE DEF Posted
<1>1. ChangeList(chs)
    BY RingChangesAre DEF PlainChanges
<1>2. RemovedIds(chs) = RingIds(old) \ RingIds(new)
    BY RemovedAre
<1>3. RingList(so) /\ ToSet(so) = ToSet(old) /\ DOMAIN so = 1 .. N /\ N \in Nat
    BY SortedRings, SortedHas DEF RingList, IsList
<1>4. \A k \in 1 .. N : so[k] \in ToSet(old) /\ so[k].id # NoId /\ so[k].id \in RingIds(old)
  <2>1. \A q \in ToSet(old) : q.id # NoId
      BY DEF ToSet
  <2> HIDE DEF so
  <2> QED BY <1>3, <2>1 DEF ToSet, RingIds
<1>5. \A k \in K : \A r \in ToSet(new) : r.id = so[k].id => Alike(done.rings[k], r)
    BY KeptEntry
<1>6. /\ Len(done.added) = Cardinality(W)
      /\ \A q \in ToSet(done.added) : q.id = NoId /\ \E r \in ToSet(new) : r.id \notin RingIds(old) /\ Alike(q, r)
      /\ \A r \in ToSet(new) : r.id \notin RingIds(old) => \E q \in ToSet(done.added) : Alike(q, r)
    BY AddedAre
<1>7. Cardinality(K) + Cardinality(W) = Len(new)
    BY KeptCount
<1> DEFINE J == {k \in 1 .. N : so[k].id \notin RemovedIds(chs)}
<1>a. /\ Len(rs) = Cardinality(J) + Len(done.added) /\ \A k \in 1 .. N : done.rings[k].id = so[k].id
      /\ ToSet(rs) = {done.rings[k] : k \in J} \cup ToSet(done.added)
  <2> HIDE DEF chs, no
  <2>2. RingList(old)
      OBVIOUS
  <2> QED BY <1>1, <2>2, AppliedAre
<1> HIDE DEF chs, so, W, no
<1>b. \A k \in K : done.rings[k].id = so[k].id /\ so[k].id # NoId
    BY <1>4, <1>a
<1>8. K = {k \in 1 .. N : so[k].id \notin RemovedIds(chs)}
    BY <1>2, <1>4
<1>9. /\ Len(rs) = Cardinality(K) + Len(done.added)
      /\ ToSet(rs) = {done.rings[k] : k \in K} \cup ToSet(done.added)
    BY <1>8, <1>a
<1>10. /\ RingList(rs) /\ HasIds(rs)
       /\ \A q \in ToSet(rs) : q.id = NoId \/ q.id \in RingIds(old)
    BY <1>1, AppliedRings
<1> HIDE DEF K, done
<1>11. ASSUME NEW q \in ToSet(rs)
       PROVE  \E r \in ToSet(new) : Alike(q, r) /\ IF q.id = NoId THEN r.id \notin RingIds(old) ELSE r.id = q.id
  <2>1. CASE q \in ToSet(done.added)
      BY <1>6, <2>1
  <2>2. ASSUME NEW k \in K, q = done.rings[k] PROVE \E r \in ToSet(new) : Alike(q, r) /\ q.id # NoId /\ r.id = q.id
    <3>1. PICK r \in ToSet(new) : r.id = so[k].id
        BY DEF K, RingIds
    <3> QED BY <1>5, <1>b, <2>2, <3>1
  <2> HIDE DEF rs
  <2>3. q \in {done.rings[k] : k \in K} \/ q \in ToSet(done.added)
      BY <1>9
  <2> QED BY <2>1, <2>2, <2>3
<1>12. ASSUME NEW r \in ToSet(new) PROVE \E q \in ToSet(rs) : Alike(q, r) /\ (r.id \in RingIds(old) => q.id = r.id)
  <2>1. CASE r.id \notin RingIds(old)
      BY <1>6, <1>9, <2>1
  <2>2. CASE r.id \in RingIds(old)
    <3>1. PICK k \in 1 .. N : so[k].id = r.id
      <4>1. PICK o \in ToSet(old) : o.id = r.id
          BY <2>2 DEF RingIds
      <4> QED BY <1>3, <4>1 DEF ToSet
    <3>2. r.id \in RingIds(new)
        BY <2>2 DEF RingIds
    <3>3. k \in K
        BY <3>1, <3>2 DEF K
    <3>4. Alike(done.rings[k], r) /\ done.rings[k].id = r.id /\ done.rings[k] \in ToSet(rs)
        BY <1>5, <1>9, <1>b, <3>1, <3>3
    <3> QED BY <3>4
  <2> QED BY <2>1, <2>2
<1> HIDE DEF rs
<1>13. AreEntriesOf(rs, new, old)
  <2>1. Len(rs) = Len(new)
      BY <1>6, <1>7, <1>9
  <2> QED BY <1>10, <1>11, <1>12, <2>1 DEF AreEntriesOf
<1>14. CASE chs # <<>>
    BY <1>13, <1>14 DEF AppliedChanges, chs, rs, no
<1>15. CASE chs = <<>>
  <2>1. rs = ApplyRings(old, <<>>, FALSE)
      BY <1>15 DEF rs, no
  <2>2. ToSet(rs) = ToSet(old) /\ Len(rs) = Len(old)
      BY <2>1, NothingApplied
  <2>3. \A q \in ToSet(old) : q.id \in RingIds(old)
      BY DEF ToSet, RingIds
  <2>4. AreEntriesOf(old, new, old)
      BY <1>13, <2>2, <2>3 DEF AreEntriesOf
  <2> QED BY <1>15, <2>4 DEF AppliedChanges, chs
<1> QED BY <1>14, <1>15

\* Entries that are on the disc already are no changes, those that are not
\* posted are removals.
LEMMA SameRings ==
    ASSUME NEW old, RingList(old), HasIds(old), \A k \in DOMAIN old : old[k].id # NoId,
           NEW new, RingList(new), HasIds(new), ToSet(new) \subseteq ToSet(old), NEW allow
    PROVE  LET chs == RingChanges(old, new, allow) IN
           /\ \A c \in ToSet(chs) : c.remove
           /\ ToSet(new) = ToSet(old) => chs = <<>>
<1> DEFINE chs == RingChanges(old, new, allow)
           rem == RemovalsIf(allow, old, new)
<1>1. /\ PlainChanges(old, chs)
      /\ ToSet(chs) = {RingEntryChange(StoredEntry(old, x), x) : x \in Differing(old, new)} \cup ToSet(rem)
    BY RingChangesAre
<1>2. Differing(old, new) = {}
  <2> SUFFICES ASSUME NEW r \in ToSet(new) PROVE Alike(StoredEntry(old, r), r)
      BY DEF Differing
  <2>1. r \in ToSet(old) /\ r \in Rings /\ r.id # NoId
      BY DEF ToSet, RingList
  <2>2. StoredEntry(old, r) = r
      BY <2>1, StoredEntryIs
  <2> QED BY <2>2 DEF Alike
<1>3. CASE allow
  <2> DEFINE u == Removals(old, new)
  <2>1. /\ \A i \in DOMAIN u : u[i].remove
        /\ ToSet(u) = {RingRemoval(o) : o \in {q \in ToSet(old) : q.id \notin RingIds(new)}}
      BY RemovalsAre
  <2>2. rem = u
      BY <1>3 DEF RemovalsIf
  <2>3. ASSUME ToSet(new) = ToSet(old) PROVE ToSet(u) = {}
    <3>1. \A q \in ToSet(old) : q.id \in RingIds(new)
        BY <2>3 DEF RingIds, ToSet
    <3> HIDE DEF u
    <3> QED BY <2>1, <3>1
  <2> HIDE DEF u, rem, chs
  <2>4. ToSet(chs) = ToSet(u)
      BY <1>1, <1>2, <2>2
  <2>5. \A c \in ToSet(chs) : c.remove
      BY <2>1, <2>4 DEF ToSet
  <2>6. IsList(chs)
      BY <1>1 DEF PlainChanges, ChangeList
  <2>7. ToSet(chs) = {} => chs = <<>>
    <3> HAVE ToSet(chs) = {}
    <3>1. Len(chs) = 0 /\ chs \in Seq({})
      <4>1. DOMAIN chs = {}
          BY DEF ToSet
      <4>2. Len(chs) = 0
          BY <2>6, <4>1 DEF IsList
      <4> QED BY <2>6, <4>1, <4>2, InSeq
    <3> QED BY <3>1
  <2> QED BY <2>3, <2>4, <2>5, <2>7 DEF chs
<1>4. CASE ~allow
  <2>1. ToSet(rem) = {}
      BY <1>4 DEF RemovalsIf, ToSet
  <2> HIDE DEF chs, rem
  <2>2. ToSet(chs) = {}
      BY <1>1, <1>2, <2>1
  <2>3. IsList(chs)
      BY <1>1 DEF PlainChanges, ChangeList
  <2>4. DOMAIN chs = {}
      BY <2>2 DEF ToSet
  <2>5. Len(chs) = 0
      BY <2>3, <2>4 DEF IsList
  <2>6. chs \in Seq({})
      BY <2>3, <2>4, InSeq
  <2>7. chs = <<>>
      BY <2>5, <2>6
  <2> QED BY <2>2, <2>7 DEF chs
<1> QED BY <1>3, <1>4

-----------------------------------------------------------------------------
(* The fields.                                                             *)

\* What a field may hold.
Fits(f, v) ==
    /\ f = "system" => v \in Systems \cup {Null}
    /\ f = "media" => v \in Media \cup {Null}
    /\ f = "status" => v \in Statuses \cup {Null}
    /\ f \in {"title", "version", "dat"} => v \in Texts \cup {Null}
    /\ f = "comments" => v \in Seq(Texts) \cup {Null}
    /\ f = "errors" => v \in Nat \cup {Null}
    /\ f = "edc" => v \in BOOLEAN \cup {Null}
    /\ f \in ListFields => v \in Seq(Nat) \cup {Null}
    /\ f = "bca" => v \in Bcas \cup {Null}
    /\ f \in SetFields => v \subseteq Texts
    /\ f = "rings" => RingList(v)

IsRecord(x) == DOMAIN x = Keys /\ x = [f \in Keys |-> x[f]]

LEMMA TypesAre ==
    ASSUME NEW x
    PROVE  HasTypes(x) <=> IsRecord(x) /\ \A f \in Keys : Fits(f, x[f])
<1>1. x["rings"] \in Seq(Rings) <=> RingList(x["rings"])
    BY InSeq DEF RingList
<1>2. ASSUME HasTypes(x) PROVE IsRecord(x) /\ \A f \in Keys : Fits(f, x[f])
  <2>1. IsRecord(x)
      BY <1>2 DEF HasTypes, IsRecord
  <2>2. ASSUME NEW f \in Keys PROVE Fits(f, x[f])
      BY <1>1, <1>2 DEF HasTypes, Fits, ListFields, SetFields
  <2> QED BY <2>1, <2>2
<1>3. ASSUME IsRecord(x), \A f \in Keys : Fits(f, x[f]) PROVE HasTypes(x)
  <2>1. \A f \in {"system", "media", "status", "title", "version", "dat", "comments", "errors", "edc", "ranges", "breaks", "bca",
                  "serial", "mastering", "rings"} : f \in Keys /\ Fits(f, x[f])
      BY <1>3 DEF Keys, ScalarFields, SetFields
  <2>2. /\ x["system"] \in Systems \cup {Null} /\ x["media"] \in Media \cup {Null} /\ x["status"] \in Statuses \cup {Null}
        /\ x["title"] \in Texts \cup {Null} /\ x["version"] \in Texts \cup {Null} /\ x["dat"] \in Texts \cup {Null}
      BY <2>1 DEF Fits
  <2>3. /\ x["comments"] \in Seq(Texts) \cup {Null} /\ x["errors"] \in Nat \cup {Null} /\ x["edc"] \in BOOLEAN \cup {Null}
        /\ x["bca"] \in Bcas \cup {Null}
      BY <2>1 DEF Fits
  <2>4. x["ranges"] \in Seq(Nat) \cup {Null} /\ x["breaks"] \in Seq(Nat) \cup {Null}
      BY <2>1 DEF Fits, ListFields
  <2>5. x["serial"] \subseteq Texts /\ x["mastering"] \subseteq Texts /\ RingList(x["rings"])
      BY <2>1 DEF Fits, SetFields
  <2> QED BY <1>1, <1>3, <2>2, <2>3, <2>4, <2>5 DEF HasTypes, IsRecord
<1> QED BY <1>2, <1>3

LEMMA NullFits == \A f \in ScalarFields : Fits(f, Null)
    BY DEF Fits, ScalarFields, ListFields, SetFields

LEMMA BlankIs ==
    /\ HasTypes(Blank) /\ Blank.rings = <<>> /\ RingList(<<>>) /\ HasIds(<<>>)
    /\ \A f \in ScalarFields : Blank[f] = Null
    /\ \A f \in SetFields : Blank[f] = {}
<1>1. RingList(<<>>) /\ HasIds(<<>>)
  <2>1. <<>> \in Seq({}) /\ DOMAIN <<>> = {}
      OBVIOUS
  <2>2. IsList(<<>>)
      BY <2>1, InSeq
  <2> QED BY <2>1, <2>2 DEF RingList, HasIds
<1>2. /\ Blank.rings = <<>>
      /\ \A f \in ScalarFields : Blank[f] = Null
      /\ \A f \in SetFields : Blank[f] = {}
    BY DEF Blank, Keys, ScalarFields, SetFields
<1>3. IsRecord(Blank)
    BY DEF Blank, IsRecord
<1>4. ASSUME NEW f \in Keys PROVE Fits(f, Blank[f])
  <2>1. CASE f \in ScalarFields
      BY <1>2, <2>1, NullFits
  <2>2. CASE f \in SetFields
      BY <1>2, <2>2 DEF Fits, SetFields, ListFields
  <2>3. CASE f = "rings"
      BY <1>1, <1>2, <2>3 DEF Fits, SetFields, ListFields
  <2> QED BY <2>1, <2>2, <2>3 DEF Keys
<1> QED BY <1>1, <1>2, <1>3, <1>4, TypesAre

\* A field is changed by EXCEPT, the others stay.
LEMMA WithField ==
    ASSUME NEW x, HasTypes(x), NEW f \in Keys, NEW v, Fits(f, v)
    PROVE  HasTypes([x EXCEPT ![f] = v])
<1> DEFINE y == [x EXCEPT ![f] = v]
<1>1. IsRecord(x) /\ \A g \in Keys : Fits(g, x[g])
    BY TypesAre
<1>2. IsRecord(y) /\ y[f] = v /\ \A g \in Keys \ {f} : y[g] = x[g]
    BY <1>1 DEF IsRecord
<1>3. \A g \in Keys : Fits(g, y[g])
    BY <1>1, <1>2
<1> HIDE DEF y
<1>4. HasTypes(y)
    BY <1>2, <1>3, TypesAre
<1> QED BY <1>4 DEF y

Chosen(form) == form.system \in Systems /\ form.media \in Media /\ form.media \in MediaOf[form.system]

Same(x, y, fields) == \A f \in fields : x[f] = y[f]

LEMMA NotFiltered ==
    ASSUME NEW form, ~Chosen(form)
    PROVE  Filtered(form) = form
    BY DEF Filtered, Chosen

LEMMA FilteredIs ==
    ASSUME NEW form, IsRecord(form), Chosen(form)
    PROVE  LET x == Filtered(form)
               flags == Has[form.system]
               m == form.media
           IN  /\ IsRecord(x) /\ Same(x, form, {"system", "media", "title", "comments", "dat", "serial", "status"})
               /\ x.version = IF "version" \in flags THEN form.version ELSE Null
               /\ x.errors = IF "errors" \in flags /\ IsCd[m] THEN form.errors ELSE Null
               /\ x.edc = IF "edc" \in flags THEN form.edc ELSE Null
               /\ x.ranges = IF "ranges" \in flags THEN form.ranges ELSE Null
               /\ x.bca = IF "bca" \in flags THEN form.bca ELSE Null
               /\ x.mastering = IF AllowsMastering[m] THEN form.mastering ELSE {}
               /\ x.breaks = Select(form.breaks, {i \in DOMAIN form.breaks : i < Layers[m]})
               /\ x.rings = FilteredRings(form.rings, m)
<1>1. /\ form.system \in Systems /\ form.media \in Media /\ form.media \in MediaOf[form.system]
      /\ form = [f \in Keys |-> form[f]] /\ DOMAIN form = Keys
    BY DEF Chosen, IsRecord
<1> DEFINE has(f) == f \in Has[form.system]
           x == [form EXCEPT
            !.version = IF has("version") THEN @ ELSE Null,
            !.errors = IF has("errors") /\ IsCd[form.media] THEN @ ELSE Null,
            !.edc = IF has("edc") THEN @ ELSE Null,
            !.ranges = IF has("ranges") THEN @ ELSE Null,
            !.bca = IF has("bca") THEN @ ELSE Null,
            !.mastering = IF AllowsMastering[form.media] THEN @ ELSE {},
            !.breaks = Select(@, {i \in DOMAIN form.breaks : i < Layers[form.media]}),
            !.rings = FilteredRings(@, form.media)]
<1>2. Filtered(form) = x
    BY <1>1 DEF Filtered
<1>3. IsRecord(x) /\ Same(x, form, {"system", "media", "title", "comments", "dat", "serial", "status"})
    BY <1>1, ZenonT(60) DEF IsRecord, Same, Keys, ScalarFields, SetFields
<1>4. /\ x.version = IF "version" \in Has[form.system] THEN form.version ELSE Null
      /\ x.errors = IF "errors" \in Has[form.system] /\ IsCd[form.media] THEN form.errors ELSE Null
      /\ x.edc = IF "edc" \in Has[form.system] THEN form.edc ELSE Null
      /\ x.ranges = IF "ranges" \in Has[form.system] THEN form.ranges ELSE Null
      /\ x.bca = IF "bca" \in Has[form.system] THEN form.bca ELSE Null
    BY <1>1 DEF Keys, ScalarFields, SetFields
<1>5. /\ x.mastering = IF AllowsMastering[form.media] THEN form.mastering ELSE {}
      /\ x.breaks = Select(form.breaks, {i \in DOMAIN form.breaks : i < Layers[form.media]})
      /\ x.rings = FilteredRings(form.rings, form.media)
    BY <1>1 DEF Keys, ScalarFields, SetFields
<1> QED BY <1>2, <1>3, <1>4, <1>5

LEMMA FlatIs ==
    ASSUME NEW form, IsRecord(form)
    PROVE  LET x == FlatForm(form) IN
           /\ IsRecord(x) /\ Same(x, form, {"system", "media", "title", "version", "bca", "dat", "serial", "status", "rings"})
           /\ x.errors = AsInteger(form.errors)
           /\ x.edc = IF form.edc = Null THEN FALSE ELSE form.edc
           /\ x.ranges = IF form.ranges = Null THEN <<>> ELSE form.ranges
           /\ x.breaks = Select(form.breaks, {i \in DOMAIN form.breaks : form.breaks[i] <= MaxInt})
           /\ x.comments = IF form.comments = <<>> THEN Null ELSE form.comments
           /\ x.mastering = IF form.media \in Media /\ AllowsMastering[form.media] THEN form.mastering ELSE {}
<1>1. form = [f \in Keys |-> form[f]] /\ DOMAIN form = Keys
    BY DEF IsRecord
<1> DEFINE x == FlatForm(form)
<1>2. IsRecord(x) /\ Same(x, form, {"system", "media", "title", "version", "bca", "dat", "serial", "status", "rings"})
    BY <1>1, ZenonT(60) DEF FlatForm, IsRecord, Same, Keys, ScalarFields, SetFields
<1>3. /\ x.errors = AsInteger(form.errors)
      /\ x.edc = IF form.edc = Null THEN FALSE ELSE form.edc
      /\ x.ranges = IF form.ranges = Null THEN <<>> ELSE form.ranges
    BY <1>1 DEF FlatForm, Keys, ScalarFields, SetFields
<1>4. /\ x.breaks = Select(form.breaks, {i \in DOMAIN form.breaks : form.breaks[i] <= MaxInt})
      /\ x.comments = IF form.comments = <<>> THEN Null ELSE form.comments
      /\ x.mastering = IF form.media \in Media /\ AllowsMastering[form.media] THEN form.mastering ELSE {}
    BY <1>1 DEF FlatForm, Keys, ScalarFields, SetFields
<1> QED BY <1>2, <1>3, <1>4

-----------------------------------------------------------------------------
(* The entries of a form, fitted to its media.                             *)

LEMMA Trimmed ==
    ASSUME NEW s, IsList(s), \A i \in DOMAIN s : s[i] \in LayerTypes, NEW n \in Nat
    PROVE  LET t == TrimLayers(s, n) IN
           /\ IsList(t) /\ Len(t) <= IF Len(s) < n + 1 THEN Len(s) ELSE n + 1
           /\ \A i \in DOMAIN t : t[i] \in LayerTypes
           /\ Len(s) <= n + 1 => t = s
<1>1. CASE Len(s) <= n + 1
    BY <1>1, SMTT(40) DEF TrimLayers, IsList
<1>2. CASE Len(s) > n + 1
  <2> DEFINE a == SubSeq(s, 1, n)
             b == <<Last(s)>>
  <2>1. s \in Seq(LayerTypes)
      BY InSeq
  <2>2. Len(s) \in Nat /\ DOMAIN s = 1 .. Len(s)
      BY DEF IsList
  <2>3. a \in Seq(LayerTypes) /\ Len(a) = n
      BY <1>2, <2>1, <2>2
  <2>4. Last(s) \in LayerTypes
      BY <1>2, <2>2 DEF Last
  <2>5. b \in Seq(LayerTypes) /\ Len(b) = 1
      BY <2>4
  <2> HIDE DEF a, b
  <2>6. a \o b \in Seq(LayerTypes) /\ Len(a \o b) = n + 1
    <3>1. IsList(a) /\ IsList(b) /\ (\A i \in DOMAIN a : a[i] \in LayerTypes) /\ (\A i \in DOMAIN b : b[i] \in LayerTypes)
        BY <2>3, <2>5, InSeq
    <3>2. IsJoin(a \o b, a, b)
        BY <3>1, Joined
    <3> DEFINE u == a \o b
    <3> HIDE DEF u
    <3>3. IsList(u) /\ Len(u) = n + 1 /\ ToSet(u) = ToSet(a) \cup ToSet(b)
        BY <2>3, <2>5, <3>1, <3>2, JoinedOf DEF IsJoin, u
    <3>4. \A x \in ToSet(u) : x \in LayerTypes
        BY <3>1, <3>3 DEF ToSet
    <3>5. \A i \in DOMAIN u : u[i] \in LayerTypes
        BY <3>4 DEF ToSet
    <3> QED BY <3>3, <3>5, InSeq DEF u
  <2>7. TrimLayers(s, n) = a \o b
      BY <1>2, <2>2 DEF TrimLayers, a, b
  <2>8. IsList(a \o b) /\ \A i \in DOMAIN (a \o b) : (a \o b)[i] \in LayerTypes
      BY <2>6, InSeq
  <2> DEFINE u == a \o b
  <2> HIDE DEF u
  <2>9. IsList(u) /\ Len(u) = n + 1 /\ \A i \in DOMAIN u : u[i] \in LayerTypes
      BY <2>6, <2>8 DEF u
  <2>10. TrimLayers(s, n) = u
      BY <2>7 DEF u
  <2> QED BY <1>2, <2>2, <2>9, <2>10
<1>3. Len(s) \in Nat
    BY DEF IsList
<1> QED BY <1>1, <1>2, <1>3

\* An entry of the media m.
IsFit(r, m) ==
    /\ ~RingIsEmpty(r) /\ Len(r.layers) <= Layers[m] + 1
    /\ r.offset # 0 => IsCd[m]

LEMMA FitRingIs ==
    ASSUME NEW r \in Rings, NEW m \in Media
    PROVE  LET q == FitRing(r, m) IN
           /\ q \in Rings /\ q.id = r.id
           /\ Len(q.layers) <= Layers[m] + 1 /\ (q.offset # 0 => IsCd[m])
           /\ q.comment = r.comment /\ q.offset = IF IsCd[m] THEN r.offset ELSE 0
           /\ q.layers = TrimLayers(r.layers, Layers[m])
           /\ IsFit(r, m) => q = r
<1> DEFINE n == Layers[m]
           t == TrimLayers(r.layers, n)
           off == IF IsCd[m] THEN r.offset ELSE 0
<1>1. n \in Nat
    BY ReferenceAssumption
<1>2. IsList(r.layers) /\ \A i \in DOMAIN r.layers : r.layers[i] \in LayerTypes
    BY RingLayers DEF LayerTypes
<1>3. /\ IsList(t) /\ Len(t) <= IF Len(r.layers) < n + 1 THEN Len(r.layers) ELSE n + 1
      /\ \A i \in DOMAIN t : t[i] \in LayerTypes
      /\ Len(r.layers) <= n + 1 => t = r.layers
  <2> DEFINE s == r.layers
  <2> HIDE DEF s, n
  <2> QED BY <1>1, <1>2, Trimmed DEF s
<1>4. t \in Seq(LayerTypes)
    BY <1>3, InSeq
<1>5. Len(t) <= n + 1
    BY <1>1, <1>2, <1>3 DEF IsList
<1> HIDE DEF t
<1>6. /\ r = [id |-> r.id, offset |-> r.offset, comment |-> r.comment, layers |-> r.layers]
      /\ FitRing(r, m) = [r EXCEPT !.offset = off, !.layers = t]
      /\ r.id \in Nat \cup {NoId} /\ r.offset \in Nat /\ r.comment \in Nat
    BY DEF Rings, FitRing, t
<1>7. FitRing(r, m) = [id |-> r.id, offset |-> off, comment |-> r.comment, layers |-> t]
    BY <1>6
<1>8. off \in Nat /\ (off # 0 => IsCd[m]) /\ ((r.offset # 0 => IsCd[m]) => off = r.offset)
    BY <1>6
<1> HIDE DEF off
<1> DEFINE q == [id |-> r.id, offset |-> off, comment |-> r.comment, layers |-> t]
<1>9. q \in Rings
    BY <1>4, <1>6, <1>8 DEF Rings, LayerTypes
<1>10. IsFit(r, m) => q = r
    BY <1>3, <1>6, <1>8 DEF IsFit
<1> QED BY <1>5, <1>7, <1>8, <1>9, <1>10 DEF off, t

Fitted(rs, m) == [i \in DOMAIN rs |-> FitRing(rs[i], m)]

LEMMA FilteredRingsAre ==
    ASSUME NEW rs, RingList(rs), NEW m \in Media
    PROVE  LET new == FilteredRings(rs, m) IN
           /\ RingList(new) /\ (HasIds(rs) => HasIds(new))
           /\ \A r \in ToSet(new) : IsFit(r, m)
           /\ (\A r \in ToSet(rs) : IsFit(r, m)) => new = rs
           /\ ToSet(new) = {FitRing(r, m) : r \in {x \in ToSet(rs) : ~RingIsEmpty(FitRing(x, m))}}
<1> DEFINE fs == Fitted(rs, m)
           K == {i \in DOMAIN rs : ~RingIsEmpty(fs[i])}
           order == Ascending(K)
           new == Select(fs, K)
<1>1. FilteredRings(rs, m) = new
    BY DEF FilteredRings, Fitted
<1>2. IsList(rs) /\ DOMAIN rs = 1 .. Len(rs) /\ Len(rs) \in Nat /\ \A i \in DOMAIN rs : rs[i] \in Rings /\ rs[i] \in ToSet(rs)
    BY DEF RingList, IsList, ToSet
<1>3. IsList(fs) /\ DOMAIN fs = DOMAIN rs
  <2>1. DOMAIN fs = DOMAIN rs /\ fs = [i \in DOMAIN rs |-> fs[i]]
      BY DEF Fitted
  <2> HIDE DEF fs
  <2> QED BY <1>2, <2>1, IsNumbered
<1>4. \A i \in DOMAIN rs : /\ fs[i] = FitRing(rs[i], m) /\ fs[i] \in Rings /\ fs[i].id = rs[i].id
                          /\ Len(fs[i].layers) <= Layers[m] + 1 /\ (fs[i].offset # 0 => IsCd[m])
                          /\ (IsFit(rs[i], m) => fs[i] = rs[i])
    BY <1>2, FitRingIs DEF Fitted
<1> HIDE DEF fs
<1>5. K \in SUBSET DOMAIN fs
    BY <1>3
<1>6. /\ IsList(new) /\ Len(new) = Cardinality(K) /\ DOMAIN new = 1 .. Cardinality(K) /\ order \in [1 .. Cardinality(K) -> K]
      /\ \A i \in 1 .. Cardinality(K) : new[i] = fs[order[i]]
      /\ \A i, j \in 1 .. Cardinality(K) : i < j <=> order[i] < order[j]
      /\ Cardinality(K) \in Nat
      /\ \A k \in K : \E i \in 1 .. Cardinality(K) : order[i] = k
  <2> HIDE DEF K
  <2>1. /\ IsList(new) /\ Len(new) = Cardinality(K) /\ order \in [1 .. Cardinality(K) -> K] /\ Cardinality(K) \in Nat
        /\ \A i \in 1 .. Cardinality(K) : new[i] = fs[order[i]]
        /\ \A i, j \in 1 .. Cardinality(K) : i < j <=> order[i] < order[j]
        /\ \A k \in K : \E i \in 1 .. Cardinality(K) : order[i] = k
      BY <1>3, <1>5, Selected
  <2>2. DOMAIN new = 1 .. Cardinality(K)
      BY <2>1 DEF IsList
  <2> QED BY <2>1, <2>2
<1>7. ToSet(new) = {fs[k] : k \in K}
  <2>1. ToSet(new) = Picked(fs, K)
    <3> HIDE DEF K
    <3> QED BY <1>3, <1>5, SelectedOf
  <2> QED BY <2>1 DEF Picked
<1>8. RingList(new) /\ \A r \in ToSet(new) : IsFit(r, m)
  <2>1. ASSUME NEW k \in K PROVE fs[k] \in Rings /\ IsFit(fs[k], m)
      BY <1>4 DEF IsFit
  <2>2. RingList(new)
    <3> HIDE DEF K, new, order
    <3> QED BY <1>6, <2>1 DEF RingList
  <2> HIDE DEF K, new
  <2> QED BY <1>7, <2>1, <2>2
<1>9. HasIds(rs) => HasIds(new)
  <2> SUFFICES ASSUME HasIds(rs), NEW i \in DOMAIN new, NEW j \in DOMAIN new, new[i].id = new[j].id, new[i].id # NoId
               PROVE  i = j
      BY DEF HasIds
  <2>1. order[i] \in DOMAIN rs /\ order[j] \in DOMAIN rs /\ new[i] = fs[order[i]] /\ new[j] = fs[order[j]]
    <3> HIDE DEF new, order
    <3> QED BY <1>6 DEF K
  <2>2. rs[order[i]].id = rs[order[j]].id /\ rs[order[i]].id # NoId
      BY <1>4, <2>1
  <2>3. order[i] = order[j]
      BY <2>1, <2>2 DEF HasIds
  <2>4. i \in 1 .. Cardinality(K) /\ j \in 1 .. Cardinality(K) /\ order[i] \in Nat
      BY <1>2, <1>6, <2>1
  <2> HIDE DEF K, new, order
  <2>5. ~(i < j) /\ ~(j < i)
      BY <1>6, <2>3, <2>4
  <2> QED BY <1>6, <2>4, <2>5
<1>10. (\A r \in ToSet(rs) : IsFit(r, m)) => new = rs
  <2> HAVE \A r \in ToSet(rs) : IsFit(r, m)
  <2>1. \A i \in DOMAIN rs : fs[i] = rs[i] /\ ~RingIsEmpty(rs[i])
      BY <1>2, <1>4 DEF IsFit
  <2>2. K = DOMAIN fs
      BY <1>3, <2>1
  <2>3. fs = rs
      BY <1>2, <1>3, <2>1 DEF IsList
  <2>4. Select(fs, DOMAIN fs) = fs
      BY <1>3, SelectAll
  <2> HIDE DEF K
  <2> QED BY <2>2, <2>3, <2>4
<1>11. ToSet(new) = {FitRing(r, m) : r \in {x \in ToSet(rs) : ~RingIsEmpty(FitRing(x, m))}}
  <2> DEFINE F == {FitRing(r, m) : r \in {x \in ToSet(rs) : ~RingIsEmpty(FitRing(x, m))}}
  <2>1. \A k \in K : fs[k] \in F
      BY <1>2, <1>4
  <2>2. ASSUME NEW r \in ToSet(rs), ~RingIsEmpty(FitRing(r, m)) PROVE \E k \in K : fs[k] = FitRing(r, m)
    <3>1. PICK i \in DOMAIN rs : rs[i] = r
        BY DEF ToSet
    <3> QED BY <1>4, <2>2, <3>1
  <2> HIDE DEF K, new
  <2>3. ToSet(new) \subseteq F
      BY <1>7, <2>1
  <2>4. F \subseteq ToSet(new)
      BY <1>7, <2>2
  <2> QED BY <2>3, <2>4
<1> HIDE DEF new
<1> QED BY <1>1, <1>8, <1>9, <1>10, <1>11

-----------------------------------------------------------------------------
(* The normal form of a form.                                              *)

NormalForm(form) == FlatForm(Filtered(form))

LEMMA SelectedFrom ==
    ASSUME NEW S, NEW s, s \in Seq(S), NEW K, K \subseteq DOMAIN s
    PROVE  Select(s, K) \in Seq(S) /\ Len(Select(s, K)) = Cardinality(K) /\ ToSet(Select(s, K)) = Picked(s, K) /\ IsFiniteSet(K)
<1>1. IsList(s) /\ \A i \in DOMAIN s : s[i] \in S
    BY InSeq
<1>2. IsList(Select(s, K)) /\ Len(Select(s, K)) = Cardinality(K) /\ ToSet(Select(s, K)) = Picked(s, K)
    BY <1>1, SelectedOf
<1>3. \A x \in Picked(s, K) : x \in S
    BY <1>1 DEF Picked
<1> DEFINE u == Select(s, K)
<1> HIDE DEF u
<1>4. \A i \in DOMAIN u : u[i] \in S
    BY <1>2, <1>3 DEF ToSet, u
<1>5. u \in Seq(S)
    BY <1>2, <1>4, InSeq DEF u
<1>6. IsFiniteSet(K)
    BY <1>1, Selected
<1> QED BY <1>2, <1>5, <1>6 DEF u

\* What the fields of a form are.
LEMMA FormFields ==
    ASSUME NEW x, HasTypes(x)
    PROVE  /\ IsRecord(x)
           /\ x.system \in Systems \cup {Null} /\ x.media \in Media \cup {Null} /\ x.status \in Statuses \cup {Null}
           /\ x.title \in Texts \cup {Null} /\ x.version \in Texts \cup {Null} /\ x.dat \in Texts \cup {Null}
           /\ x.comments \in Seq(Texts) \cup {Null} /\ x.errors \in Nat \cup {Null} /\ x.edc \in BOOLEAN \cup {Null}
           /\ x.ranges \in Seq(Nat) \cup {Null} /\ x.breaks \in Seq(Nat) \cup {Null}
           /\ x.bca \in Bcas \cup {Null} /\ x.serial \subseteq Texts /\ x.mastering \subseteq Texts
           /\ RingList(x.rings)
<1>1. IsRecord(x) /\ \A f \in Keys : Fits(f, x[f])
    BY TypesAre
<1>2. RingList(x.rings)
    BY <1>1 DEF Fits, Keys
<1> QED BY <1>1, <1>2 DEF HasTypes

\* A record with such fields is a form.
LEMMA FieldsFit ==
    ASSUME NEW x, IsRecord(x),
           x.system \in Systems \cup {Null}, x.media \in Media \cup {Null}, x.status \in Statuses \cup {Null},
           x.title \in Texts \cup {Null}, x.version \in Texts \cup {Null}, x.dat \in Texts \cup {Null},
           x.comments \in Seq(Texts) \cup {Null}, x.errors \in Nat \cup {Null}, x.edc \in BOOLEAN \cup {Null},
           x.ranges \in Seq(Nat) \cup {Null}, x.breaks \in Seq(Nat) \cup {Null},
           x.bca \in Bcas \cup {Null}, x.serial \subseteq Texts, x.mastering \subseteq Texts,
           RingList(x.rings)
    PROVE  HasTypes(x)
<1>1. x["rings"] \in Seq(Rings)
    BY InSeq DEF RingList
<1> QED BY <1>1 DEF HasTypes, IsRecord

LEMMA NullIsNone ==
    /\ Null \notin Systems \cup Media \cup Statuses \cup Texts \cup Nat \cup BOOLEAN
    /\ Null \notin Seq(Nat) /\ Null \notin Seq(Texts) /\ Null \notin Bcas
    /\ Absent \notin Systems \cup Media \cup Statuses \cup Texts \cup Nat \cup BOOLEAN
    /\ Absent \notin Seq(Nat) /\ Absent \notin Seq(Texts) /\ Absent \notin Bcas
    /\ \A S \in SUBSET Texts : S # Null /\ S # Absent
    /\ Null # Absent
    /\ Null \notin [add : SUBSET Texts, remove : SUBSET Texts] /\ Absent \notin [add : SUBSET Texts, remove : SUBSET Texts]
    BY ValuesAssumption, ReferenceAssumption

LEMMA FilteredTypes ==
    ASSUME NEW form, IsForm(form)
    PROVE  IsForm(Filtered(form))
<1> DEFINE x == Filtered(form)
<1>1. CASE ~Chosen(form)
    BY <1>1, NotFiltered
<1>2. CASE Chosen(form)
  <2>1. /\ IsRecord(form)
           /\ form.system \in Systems \cup {Null} /\ form.media \in Media \cup {Null} /\ form.status \in Statuses \cup {Null}
           /\ form.title \in Texts \cup {Null} /\ form.version \in Texts \cup {Null} /\ form.dat \in Texts \cup {Null}
           /\ form.comments \in Seq(Texts) \cup {Null} /\ form.errors \in Nat \cup {Null} /\ form.edc \in BOOLEAN \cup {Null}
           /\ form.ranges \in Seq(Nat) \cup {Null} /\ form.breaks \in Seq(Nat)
           /\ form.bca \in Bcas \cup {Null} /\ form.serial \subseteq Texts /\ form.mastering \subseteq Texts
           /\ RingList(form.rings) /\ HasIds(form.rings)
      BY FormFields DEF IsForm
  <2> DEFINE K == {i \in DOMAIN form.breaks : i < Layers[form.media]}
  <2>2. Select(form.breaks, K) \in Seq(Nat)
    <3>1. K \subseteq DOMAIN form.breaks
        OBVIOUS
    <3> HIDE DEF K
    <3> QED BY <2>1, <3>1, SelectedFrom
  <2>3. form.media \in Media
      BY <1>2 DEF Chosen
  <2>4. RingList(FilteredRings(form.rings, form.media)) /\ HasIds(FilteredRings(form.rings, form.media))
      BY <2>1, <2>3, FilteredRingsAre
  <2>5. /\ IsRecord(x) /\ Same(x, form, {"system", "media", "title", "comments", "dat", "serial", "status"})
        /\ x.version \in {form.version, Null} /\ x.errors \in {form.errors, Null} /\ x.edc \in {form.edc, Null}
        /\ x.ranges \in {form.ranges, Null} /\ x.bca \in {form.bca, Null} /\ x.mastering \in {form.mastering, {}}
        /\ x.breaks = Select(form.breaks, K) /\ x.rings = FilteredRings(form.rings, form.media)
      BY <1>2, <2>1, FilteredIs
  <2> HIDE DEF x, K
  <2>6. /\ x.system = form.system /\ x.media = form.media /\ x.title = form.title /\ x.comments = form.comments
        /\ x.dat = form.dat /\ x.serial = form.serial /\ x.status = form.status
      BY <2>5 DEF Same
  <2>7. HasTypes(x)
    <3>1. /\ x.version \in Texts \cup {Null} /\ x.errors \in Nat \cup {Null} /\ x.edc \in BOOLEAN \cup {Null}
          /\ x.ranges \in Seq(Nat) \cup {Null} /\ x.bca \in Bcas \cup {Null} /\ x.mastering \subseteq Texts
        BY <2>1, <2>5
    <3>2. x.breaks \in Seq(Nat) \cup {Null} /\ RingList(x.rings)
        BY <2>2, <2>4, <2>5
    <3> QED BY <2>1, <2>5, <2>6, <3>1, <3>2, FieldsFit
  <2>8. x.breaks # Null
      BY <2>2, <2>5, NullIsNone
  <2> QED BY <2>4, <2>5, <2>7, <2>8 DEF IsForm, x
<1> QED BY <1>1, <1>2

LEMMA FlatTypes ==
    ASSUME NEW form, IsForm(form)
    PROVE  IsForm(FlatForm(form))
<1> DEFINE x == FlatForm(form)
<1>1. /\ IsRecord(form)
           /\ form.system \in Systems \cup {Null} /\ form.media \in Media \cup {Null} /\ form.status \in Statuses \cup {Null}
           /\ form.title \in Texts \cup {Null} /\ form.version \in Texts \cup {Null} /\ form.dat \in Texts \cup {Null}
           /\ form.comments \in Seq(Texts) \cup {Null} /\ form.errors \in Nat \cup {Null} /\ form.edc \in BOOLEAN \cup {Null}
           /\ form.ranges \in Seq(Nat) \cup {Null} /\ form.breaks \in Seq(Nat)
           /\ form.bca \in Bcas \cup {Null} /\ form.serial \subseteq Texts /\ form.mastering \subseteq Texts
           /\ RingList(form.rings) /\ HasIds(form.rings)
    BY FormFields DEF IsForm
<1> DEFINE K == {i \in DOMAIN form.breaks : form.breaks[i] <= MaxInt}
<1>2. Select(form.breaks, K) \in Seq(Nat)
  <2>1. K \subseteq DOMAIN form.breaks
      OBVIOUS
  <2> HIDE DEF K
  <2> QED BY <1>1, <2>1, SelectedFrom
<1>3. /\ IsRecord(x) /\ Same(x, form, {"system", "media", "title", "version", "bca", "dat", "serial", "status", "rings"})
      /\ x.errors \in {form.errors, Null}
      /\ x.edc = (IF form.edc = Null THEN FALSE ELSE form.edc)
      /\ x.ranges = (IF form.ranges = Null THEN <<>> ELSE form.ranges)
      /\ x.comments \in {form.comments, Null} /\ x.mastering \in {form.mastering, {}}
      /\ x.breaks = Select(form.breaks, K)
    BY <1>1, FlatIs DEF AsInteger
<1> HIDE DEF x, K
<1>4. /\ x.system = form.system /\ x.media = form.media /\ x.title = form.title /\ x.version = form.version
      /\ x.bca = form.bca /\ x.dat = form.dat /\ x.serial = form.serial /\ x.status = form.status /\ x.rings = form.rings
    BY <1>3 DEF Same
<1>5. HasTypes(x)
  <2>1. x.ranges \in Seq(Nat) \cup {Null}
    <3>1. <<>> \in Seq(Nat)
        OBVIOUS
    <3> QED BY <1>1, <1>3, <3>1
  <2>2. x.errors \in Nat \cup {Null} /\ x.comments \in Seq(Texts) \cup {Null} /\ x.mastering \subseteq Texts
      BY <1>1, <1>3
  <2>3. x.edc \in BOOLEAN \cup {Null}
      BY <1>1, <1>3
  <2> QED BY <1>1, <1>2, <1>3, <1>4, <2>1, <2>2, <2>3, FieldsFit
<1>6. x.breaks # Null
    BY <1>2, <1>3, NullIsNone
<1> QED BY <1>1, <1>4, <1>5, <1>6 DEF IsForm, x

LEMMA NormalTypes ==
    ASSUME NEW form, IsForm(form)
    PROVE  IsForm(NormalForm(form))
<1>1. IsForm(Filtered(form))
    BY FilteredTypes
<1> DEFINE x == Filtered(form)
<1> HIDE DEF x
<1>2. IsForm(FlatForm(x))
    BY <1>1, FlatTypes DEF x
<1> QED BY <1>2 DEF NormalForm, x

\* What a form of a system and a media is normalised to.
IsNormal(n, form) ==
    /\ IsForm(n) /\ Same(n, form, {"system", "media", "title", "dat", "serial", "status"})
    /\ n.system \in Systems /\ n.media \in MediaOf[n.system] /\ n.media \in Media
    /\ n.comments = IF form.comments = <<>> THEN Null ELSE form.comments
    /\ n.version = IF "version" \in Has[form.system] THEN form.version ELSE Null
    /\ n.bca = IF "bca" \in Has[form.system] THEN form.bca ELSE Null
    /\ n.errors = IF form.errors # Null /\ "errors" \in Has[n.system] /\ IsCd[n.media] /\ form.errors <= MaxInt
                  THEN form.errors ELSE Null
    /\ n.edc = IF "edc" \in Has[n.system] /\ form.edc # Null THEN form.edc ELSE FALSE
    /\ n.ranges = IF "ranges" \in Has[n.system] /\ form.ranges # Null THEN form.ranges ELSE <<>>
    /\ n.edc \in BOOLEAN /\ n.ranges \in Seq(Nat) /\ n.breaks \in Seq(Nat)
    /\ n.mastering = IF AllowsMastering[n.media] THEN form.mastering ELSE {}
    /\ Len(n.breaks) < Layers[n.media] /\ \A i \in DOMAIN n.breaks : n.breaks[i] <= MaxInt
    /\ Len(form.breaks) < Layers[n.media] /\ (\A i \in DOMAIN form.breaks : form.breaks[i] <= MaxInt)
          => n.breaks = form.breaks
    /\ n.rings = FilteredRings(form.rings, form.media)

BreaksOf(s, L) ==
    LET t == Select(s, {i \in DOMAIN s : i < L}) IN Select(t, {i \in DOMAIN t : t[i] <= MaxInt})

LEMMA BreaksIn ==
    ASSUME NEW s \in Seq(Nat), NEW L \in Nat \ {0}
    PROVE  LET u == BreaksOf(s, L) IN
               /\ u \in Seq(Nat) /\ Len(u) < L /\ \A i \in DOMAIN u : u[i] <= MaxInt
               /\ Len(s) < L /\ (\A i \in DOMAIN s : s[i] <= MaxInt) => u = s
<1> DEFINE K == {i \in DOMAIN s : i < L}
           t == Select(s, K)
           J == {i \in DOMAIN t : t[i] <= MaxInt}
           u == Select(t, J)
<1>1. IsList(s) /\ K \subseteq DOMAIN s
    BY InSeq
<1>2. t \in Seq(Nat) /\ Len(t) = Cardinality(K) /\ IsFiniteSet(K)
  <2> HIDE DEF K
  <2> QED BY <1>1, SelectedFrom
<1>3. Cardinality(K) < L
  <2>1. K \subseteq 1 .. L - 1
      BY <1>1 DEF IsList
  <2>2. L - 1 \in Nat /\ IsFiniteSet(1 .. L - 1) /\ Cardinality(1 .. L - 1) = L - 1
    <3>1. L - 1 \in Nat
        OBVIOUS
    <3> DEFINE m == L - 1
    <3> HIDE DEF m
    <3>2. IsFiniteSet(1 .. m) /\ Cardinality(1 .. m) = m
        BY <3>1, NumbersTo DEF m
    <3> QED BY <3>1, <3>2 DEF m
  <2> HIDE DEF K
  <2>3. Cardinality(K) <= Cardinality(1 .. L - 1)
      BY <2>1, <2>2, FS_Subset
  <2>4. Cardinality(K) \in Nat
      BY <1>2, FS_CardinalityType
  <2> QED BY <2>2, <2>3, <2>4
<1>a. Len(s) < L /\ (\A i \in DOMAIN s : s[i] <= MaxInt) => u = s
  <2> HAVE Len(s) < L /\ (\A i \in DOMAIN s : s[i] <= MaxInt)
  <2>1. K = DOMAIN s
      BY <1>1 DEF IsList
  <2>2. t = s
    <3> HIDE DEF K
    <3> QED BY <1>1, <2>1, SelectAll
  <2> HIDE DEF t
  <2>3. J = DOMAIN t
      BY <2>2
  <2> HIDE DEF J
  <2> QED BY <1>1, <2>2, <2>3, SelectAll
<1> HIDE DEF t
<1>4. J \subseteq DOMAIN t /\ IsList(t) /\ DOMAIN t = 1 .. Len(t) /\ Len(t) \in Nat
  <2>1. IsList(t)
      BY <1>2, InSeq
  <2> QED BY <2>1 DEF IsList
<1>5. u \in Seq(Nat) /\ Len(u) = Cardinality(J) /\ ToSet(u) = Picked(t, J)
  <2> HIDE DEF J
  <2> QED BY <1>2, <1>4, SelectedFrom
<1>6. \A x \in Picked(t, J) : x <= MaxInt
    BY DEF Picked
<1>7. Cardinality(J) <= Len(t)
  <2>1. IsFiniteSet(1 .. Len(t)) /\ Cardinality(1 .. Len(t)) = Len(t)
      BY <1>4, NumbersTo
  <2>2. J \subseteq 1 .. Len(t)
      BY <1>4
  <2> HIDE DEF J
  <2> QED BY <2>1, <2>2, FS_Subset
<1> HIDE DEF u, J
<1>8. \A i \in DOMAIN u : u[i] <= MaxInt
    BY <1>5, <1>6 DEF ToSet
<1>9. Len(u) < L
  <2>1. Cardinality(J) <= Len(t) /\ Len(t) < L /\ Len(u) = Cardinality(J)
      BY <1>2, <1>3, <1>5, <1>7
  <2>2. Len(u) \in Nat /\ Len(t) \in Nat
      BY <1>4, <1>5
  <2> QED BY <2>1, <2>2
<1> QED BY <1>5, <1>8, <1>9, <1>a DEF u, t, J, BreaksOf

LEMMA NormalIs ==
    ASSUME NEW form, IsForm(form), Chosen(form)
    PROVE  IsNormal(NormalForm(form), form)
<1> DEFINE x == Filtered(form)
           n == FlatForm(x)
           s == form.system
           m == form.media
<1>1. IsForm(x) /\ IsForm(n)
    BY FilteredTypes, FlatTypes
<1>2. IsRecord(form) /\ IsRecord(x) /\ IsRecord(n)
    BY <1>1, FormFields DEF IsForm
<1>3. /\ Same(x, form, {"system", "media", "title", "comments", "dat", "serial", "status"})
      /\ x.version = IF "version" \in Has[s] THEN form.version ELSE Null
      /\ x.errors = IF "errors" \in Has[s] /\ IsCd[m] THEN form.errors ELSE Null
      /\ x.edc = IF "edc" \in Has[s] THEN form.edc ELSE Null
      /\ x.ranges = IF "ranges" \in Has[s] THEN form.ranges ELSE Null
      /\ x.bca = IF "bca" \in Has[s] THEN form.bca ELSE Null
      /\ x.mastering = IF AllowsMastering[m] THEN form.mastering ELSE {}
      /\ x.breaks = Select(form.breaks, {i \in DOMAIN form.breaks : i < Layers[m]})
      /\ x.rings = FilteredRings(form.rings, m)
    BY <1>2, FilteredIs
<1> HIDE DEF x
<1>4. /\ Same(n, x, {"system", "media", "title", "version", "bca", "dat", "serial", "status", "rings"})
      /\ n.errors = AsInteger(x.errors)
      /\ n.edc = IF x.edc = Null THEN FALSE ELSE x.edc
      /\ n.ranges = IF x.ranges = Null THEN <<>> ELSE x.ranges
      /\ n.breaks = Select(x.breaks, {i \in DOMAIN x.breaks : x.breaks[i] <= MaxInt})
      /\ n.comments = IF x.comments = <<>> THEN Null ELSE x.comments
      /\ n.mastering = IF x.media \in Media /\ AllowsMastering[x.media] THEN x.mastering ELSE {}
    BY <1>2, FlatIs
<1> HIDE DEF n
<1>5. /\ n.system = s /\ n.media = m /\ n.title = form.title /\ n.dat = form.dat /\ n.serial = form.serial
      /\ n.status = form.status /\ x.comments = form.comments /\ n.version = x.version /\ n.bca = x.bca /\ n.rings = x.rings
      /\ x.media = m
    BY <1>3, <1>4 DEF Same
<1>6. s \in Systems /\ m \in Media /\ m \in MediaOf[s] /\ Layers[m] \in Nat \ {0}
    BY ReferenceAssumption DEF Chosen
<1>7. Same(n, form, {"system", "media", "title", "dat", "serial", "status"})
    BY <1>5 DEF Same
<1>8. /\ n.errors = IF form.errors # Null /\ "errors" \in Has[s] /\ IsCd[m] /\ form.errors <= MaxInt
                     THEN form.errors ELSE Null
      /\ n.mastering = IF AllowsMastering[m] THEN form.mastering ELSE {}
      /\ n.comments = IF form.comments = <<>> THEN Null ELSE form.comments
      /\ n.version = IF "version" \in Has[s] THEN form.version ELSE Null
      /\ n.bca = IF "bca" \in Has[s] THEN form.bca ELSE Null
  <2>1. n.errors = IF form.errors # Null /\ "errors" \in Has[s] /\ IsCd[m] /\ form.errors <= MaxInt
                   THEN form.errors ELSE Null
    <3>1. CASE x.errors = Null
        BY <1>3, <1>4, <3>1 DEF AsInteger
    <3>2. CASE x.errors # Null
      <4>1. x.errors = form.errors /\ "errors" \in Has[s] /\ IsCd[m]
          BY <1>3, <3>2
      <4>2. form.errors \in Nat /\ MaxInt \in Nat
        <5>1. form.errors \in Nat \cup {Null}
            BY FormFields DEF IsForm
        <5> QED BY <3>2, <4>1, <5>1, ReferenceAssumption
      <4> QED BY <1>4, <3>2, <4>1, <4>2 DEF AsInteger
    <3> QED BY <3>1, <3>2
  <2> QED BY <1>3, <1>4, <1>5, <1>6, <2>1
<1>9. n.edc \in BOOLEAN /\ n.edc = IF "edc" \in Has[s] /\ form.edc # Null THEN form.edc ELSE FALSE
  <2>1. form.edc \in BOOLEAN \cup {Null}
      BY FormFields DEF IsForm
  <2>2. CASE "edc" \in Has[s] /\ form.edc # Null
    <3>1. x.edc = form.edc
        BY <1>3, <2>2
    <3>2. n.edc = form.edc
        BY <1>4, <2>2, <3>1
    <3> QED BY <2>1, <2>2, <3>2
  <2>3. CASE ~("edc" \in Has[s] /\ form.edc # Null)
    <3>1. x.edc = Null
        BY <1>3, <2>3
    <3>2. n.edc = FALSE
        BY <1>4, <3>1
    <3> QED BY <2>3, <3>2
  <2> QED BY <2>2, <2>3
<1>10. n.ranges \in Seq(Nat) /\ n.ranges = IF "ranges" \in Has[s] /\ form.ranges # Null THEN form.ranges ELSE <<>>
  <2>1. x.ranges \in Seq(Nat) \cup {Null}
      BY <1>1, FormFields DEF IsForm
  <2>2. <<>> \in Seq(Nat)
      OBVIOUS
  <2> QED BY <1>3, <1>4, <2>1, <2>2
<1>11. /\ n.breaks \in Seq(Nat) /\ Len(n.breaks) < Layers[m] /\ \A i \in DOMAIN n.breaks : n.breaks[i] <= MaxInt
       /\ Len(form.breaks) < Layers[m] /\ (\A i \in DOMAIN form.breaks : form.breaks[i] <= MaxInt) => n.breaks = form.breaks
  <2>1. form.breaks \in Seq(Nat)
    <3>1. form.breaks \in Seq(Nat) \cup {Null}
        BY FormFields DEF IsForm
    <3> QED BY <3>1 DEF IsForm
  <2> DEFINE b == form.breaks
             L == Layers[m]
             u == BreaksOf(b, L)
  <2>2. /\ u \in Seq(Nat) /\ Len(u) < L /\ \A i \in DOMAIN u : u[i] <= MaxInt
        /\ Len(b) < L /\ (\A i \in DOMAIN b : b[i] <= MaxInt) => u = b
    <3>1. b \in Seq(Nat) /\ L \in Nat \ {0}
        BY <1>6, <2>1
    <3> HIDE DEF b, L
    <3> QED BY <3>1, BreaksIn
  <2>3. n.breaks = u
      BY <1>3, <1>4 DEF BreaksOf
  <2> HIDE DEF u
  <2> QED BY <2>2, <2>3
<1> QED BY <1>1, <1>5, <1>6, <1>7, <1>8, <1>9, <1>10, <1>11, <1>3 DEF IsNormal, NormalForm, n, x

-----------------------------------------------------------------------------
(* Change sets.                                                            *)

SetChanges == [add : SUBSET Texts, remove : SUBSET Texts]

IsChange(ch) ==
    /\ IsRecord(ch)
    /\ \A f \in ScalarFields : ch[f] = Absent \/ Fits(f, ch[f])
    /\ \A f \in SetFields : ch[f] = Absent \/ ch[f] \in SetChanges
    /\ ChangeList(ch.rings)

\* What a change set is resolved on: a content, or the empty snapshot.
IsBase(x) == HasTypes(x) /\ HasIds(x.rings) /\ \A k \in DOMAIN x.rings : x.rings[k].id # NoId

LEMMA BlankBase == IsBase(Blank)
  <1>1. DOMAIN <<>> = {}
      OBVIOUS
  <1> QED BY <1>1, BlankIs DEF IsBase

LEMMA KindsOfFields ==
    /\ ScalarFields \subseteq Keys /\ SetFields \subseteq Keys /\ "rings" \in Keys
    /\ ScalarFields \cap SetFields = {} /\ "rings" \notin ScalarFields \cup SetFields /\ Keys = ScalarFields \cup SetFields \cup {"rings"}
    BY DEF Keys, ScalarFields, SetFields

AreHistory(ch, n, base, allow) ==
    /\ ch.rings = RingChanges(base.rings, n.rings, allow)
    /\ \A f \in SetFields : ch[f] = SetChange(base[f], n[f], allow)
    /\ \A f \in ScalarFields \ {"status"} : ch[f] = ScalarChange(f, base[f], n[f])

LEMMA SetChangeIs ==
    ASSUME NEW old \in SUBSET Texts, NEW new \in SUBSET Texts, NEW allow
    PROVE  SetChange(old, new, allow) = Absent \/ SetChange(old, new, allow) \in SetChanges
    BY DEF SetChange, SetChanges

LEMMA ScalarChangeIs ==
    ASSUME NEW f \in ScalarFields, NEW old, NEW new, Fits(f, new)
    PROVE  ScalarChange(f, old, new) = Absent \/ Fits(f, ScalarChange(f, old, new))
    BY NullFits DEF ScalarChange

LEMMA HistoryIs ==
    ASSUME NEW form, IsForm(form), NEW base, IsBase(base), NEW allow, NEW withStatus
    PROVE  LET ch == HistoryChanges(form, base, allow, withStatus) IN
           /\ IsChange(ch) /\ AreHistory(ch, NormalForm(form), base, allow)
           /\ ch.status \in {Absent, ScalarChange("status", base.status, NormalForm(form).status)}
           /\ withStatus => ch.status = ScalarChange("status", base.status, NormalForm(form).status)
<1> DEFINE n == NormalForm(form)
           ch == HistoryChanges(form, base, allow, withStatus)
<1>1. IsForm(n)
    BY NormalTypes
<1>2. ch = [f \in Keys |->
            IF f = "rings" THEN RingChanges(base.rings, n.rings, allow)
            ELSE IF f \in SetFields THEN SetChange(base[f], n[f], allow)
            ELSE IF f = "status" /\ ~withStatus THEN Absent
            ELSE ScalarChange(f, base[f], n[f])]
    BY DEF HistoryChanges, NormalForm
<1> HIDE DEF ch, n
<1>3. IsRecord(ch)
    BY <1>2 DEF IsRecord
<1>4. AreHistory(ch, n, base, allow)
    BY <1>2, KindsOfFields DEF AreHistory
<1>5. /\ ch.status \in {Absent, ScalarChange("status", base.status, n.status)}
      /\ withStatus => ch.status = ScalarChange("status", base.status, n.status)
    BY <1>2 DEF Keys, ScalarFields, SetFields
<1>6. (\A f \in Keys : Fits(f, n[f]) /\ Fits(f, base[f])) /\ RingList(n.rings) /\ RingList(base.rings) /\ HasIds(n.rings)
  <2>1. HasTypes(n) /\ HasTypes(base) /\ HasIds(n.rings)
      BY <1>1 DEF IsForm, IsBase
  <2> QED BY <2>1, TypesAre, FormFields
<1>7. \A f \in ScalarFields : ch[f] = Absent \/ Fits(f, ch[f])
  <2> SUFFICES ASSUME NEW f \in ScalarFields PROVE ch[f] = Absent \/ Fits(f, ch[f])
      OBVIOUS
  <2>1. ch[f] = Absent \/ ch[f] = ScalarChange(f, base[f], n[f])
      BY <1>2, KindsOfFields
  <2>2. Fits(f, n[f])
      BY <1>6, KindsOfFields
  <2> QED BY <2>1, <2>2, ScalarChangeIs
<1>8. \A f \in SetFields : ch[f] = Absent \/ ch[f] \in SetChanges
  <2> SUFFICES ASSUME NEW f \in SetFields PROVE ch[f] = Absent \/ ch[f] \in SetChanges
      OBVIOUS
  <2>1. ch[f] = SetChange(base[f], n[f], allow)
      BY <1>4 DEF AreHistory
  <2>2. base[f] \in SUBSET Texts /\ n[f] \in SUBSET Texts
    <3>1. Fits(f, n[f]) /\ Fits(f, base[f])
        BY <1>6, KindsOfFields
    <3> QED BY <3>1 DEF Fits
  <2> QED BY <2>1, <2>2, SetChangeIs
<1>9. ChangeList(ch.rings)
  <2> DEFINE old == base.rings
             new == n.rings
  <2>1. RingList(old) /\ HasIds(old) /\ (\A k \in DOMAIN old : old[k].id # NoId) /\ RingList(new) /\ HasIds(new)
      BY <1>6 DEF IsBase
  <2> HIDE DEF old, new
  <2>2. ChangeList(RingChanges(old, new, allow))
      BY <2>1, RingChangesAre DEF PlainChanges
  <2> QED BY <1>4, <2>2 DEF AreHistory, old, new
<1>10. IsChange(ch)
    BY <1>3, <1>7, <1>8, <1>9 DEF IsChange
<1> QED BY <1>4, <1>5, <1>10 DEF ch, n

IsResolved(x, base, ch, merge) ==
    /\ HasTypes(x) /\ HasIds(x.rings) /\ \A q \in ToSet(x.rings) : q.id = NoId \/ q.id \in RingIds(base.rings)
    /\ x.rings = (IF ch.rings = <<>> THEN base.rings ELSE ApplyRings(base.rings, ch.rings, merge))
    /\ \A f \in ScalarFields : x[f] = IF ch[f] = Absent THEN base[f] ELSE ch[f]
    /\ \A f \in SetFields : x[f] = IF ch[f] = Absent THEN base[f] ELSE SetApplied(base[f], ch[f])

LEMMA ResolveIs ==
    ASSUME NEW base, IsBase(base), NEW ch, IsChange(ch), NEW merge
    PROVE  IsResolved(Resolve(base, ch, merge), base, ch, merge)
<1> DEFINE x == Resolve(base, ch, merge)
<1>1. x = [f \in Keys |->
        IF f = "rings" THEN (IF ch.rings = <<>> THEN base.rings ELSE ApplyRings(base.rings, ch.rings, merge))
        ELSE IF ch[f] = Absent THEN base[f]
        ELSE IF f \in SetFields THEN SetApplied(base[f], ch[f])
        ELSE ch[f]]
    BY DEF Resolve
<1> HIDE DEF x
<1>2. IsRecord(x)
    BY <1>1 DEF IsRecord
<1>3. x.rings = (IF ch.rings = <<>> THEN base.rings ELSE ApplyRings(base.rings, ch.rings, merge))
    BY <1>1, KindsOfFields
<1>4. \A f \in ScalarFields : x[f] = IF ch[f] = Absent THEN base[f] ELSE ch[f]
    BY <1>1, KindsOfFields
<1>5. \A f \in SetFields : x[f] = IF ch[f] = Absent THEN base[f] ELSE SetApplied(base[f], ch[f])
    BY <1>1, KindsOfFields
<1>6. (\A f \in Keys : Fits(f, base[f])) /\ RingList(base.rings)
  <2>1. HasTypes(base)
      BY DEF IsBase
  <2> QED BY <2>1, TypesAre, FormFields
<1>7. RingList(x.rings) /\ HasIds(x.rings) /\ \A q \in ToSet(x.rings) : q.id = NoId \/ q.id \in RingIds(base.rings)
  <2> DEFINE old == base.rings
             chs == ch.rings
  <2>1. RingList(old) /\ HasIds(old) /\ (\A k \in DOMAIN old : old[k].id # NoId) /\ ChangeList(chs)
      BY <1>6 DEF IsBase, IsChange
  <2>2. x.rings = IF chs = <<>> THEN old ELSE ApplyRings(old, chs, merge)
      BY <1>3
  <2> HIDE DEF old, chs
  <2>3. /\ RingList(ApplyRings(old, chs, merge)) /\ HasIds(ApplyRings(old, chs, merge))
        /\ \A q \in ToSet(ApplyRings(old, chs, merge)) : q.id = NoId \/ q.id \in RingIds(old)
      BY <2>1, AppliedRings
  <2>4. \A q \in ToSet(old) : q.id \in RingIds(old)
      BY <2>1 DEF ToSet, RingIds
  <2>5. RingList(x.rings) /\ HasIds(x.rings) /\ \A q \in ToSet(x.rings) : q.id = NoId \/ q.id \in RingIds(old)
    <3>1. CASE chs = <<>>
        BY <2>1, <2>2, <2>4, <3>1
    <3>2. CASE chs # <<>>
        BY <2>2, <2>3, <3>2
    <3> QED BY <3>1, <3>2
  <2> QED BY <2>5 DEF old
<1>8. ASSUME NEW f \in Keys PROVE Fits(f, x[f])
  <2>1. CASE f \in ScalarFields
      BY <1>4, <1>6, <2>1 DEF IsChange
  <2>2. CASE f \in SetFields
    <3>1. base[f] \subseteq Texts /\ (ch[f] = Absent \/ ch[f] \in SetChanges)
        BY <1>6, <2>2 DEF Fits, IsChange
    <3>2. x[f] \subseteq Texts
        BY <1>5, <2>2, <3>1 DEF SetApplied, SetChanges
    <3> QED BY <2>2, <3>2 DEF Fits, SetFields, ListFields
  <2>3. CASE f = "rings"
      BY <1>7, <2>3 DEF Fits, SetFields, ListFields
  <2> QED BY <2>1, <2>2, <2>3, KindsOfFields
<1>9. HasTypes(x)
    BY <1>2, <1>8, TypesAre
<1> QED BY <1>3, <1>4, <1>5, <1>7, <1>9 DEF IsResolved, x

-----------------------------------------------------------------------------
(* What is stored.                                                         *)

\* A layer for each layer of the media and the label side.
MediaLayers(r, m) == [i \in 1 .. Layers[m] + 1 |-> LayerAt(r, i)]

\* A stored entry, but for its id.
Unnamed(r, m) == [id |-> NoId, offset |-> r.offset, comment |-> r.comment, layers |-> MediaLayers(r, m)]

LEMMA MediaLayersAre ==
    ASSUME NEW r \in Rings, NEW m \in Media
    PROVE  /\ MediaLayers(r, m) \in Seq(LayerTypes) /\ Len(MediaLayers(r, m)) = Layers[m] + 1
           /\ DOMAIN MediaLayers(r, m) = 1 .. Layers[m] + 1
           /\ \A i \in 1 .. Layers[m] + 1 : MediaLayers(r, m)[i] = LayerAt(r, i)
<1> DEFINE n == Layers[m] + 1
           s == MediaLayers(r, m)
<1>1. n \in Nat
    BY ReferenceAssumption
<1>2. s = [i \in 1 .. n |-> LayerAt(r, i)]
    BY DEF MediaLayers
<1>3. \A i \in 1 .. n : LayerAt(r, i) \in LayerTypes
    BY <1>1, RingLayers DEF LayerTypes
<1> HIDE DEF s, n
<1>4. DOMAIN s = 1 .. n /\ s = [i \in 1 .. n |-> s[i]] /\ \A i \in 1 .. n : s[i] = LayerAt(r, i)
    BY <1>2
<1>5. IsList(s) /\ Len(s) = n
    BY <1>1, <1>4, IsNumbered
<1>6. s \in Seq(LayerTypes)
    BY <1>3, <1>4, <1>5, InSeq
<1> QED BY <1>4, <1>5, <1>6 DEF s, n

LEMMA StoredRingIs ==
    ASSUME NEW r \in Rings, NEW m \in Media, NEW id \in Nat
    PROVE  LET q == StoredRing(r, m, id) IN
           /\ q \in Rings /\ q.id = IF r.id = NoId THEN id ELSE r.id
           /\ q.offset = r.offset /\ q.comment = r.comment /\ q.layers = MediaLayers(r, m)
           /\ [q EXCEPT !.id = NoId] = Unnamed(r, m)
<1> DEFINE s == MediaLayers(r, m)
           new == IF r.id = NoId THEN id ELSE r.id
<1>1. s \in Seq(LayerTypes)
    BY MediaLayersAre
<1>2. StoredRing(r, m, id) = [r EXCEPT !.id = new, !.layers = s]
    BY DEF StoredRing, MediaLayers
<1>3. new \in Nat
    BY DEF Rings
<1> HIDE DEF s, new
<1>4. /\ r = [id |-> r.id, offset |-> r.offset, comment |-> r.comment, layers |-> r.layers]
      /\ r.offset \in Nat /\ r.comment \in Nat
    BY DEF Rings
<1> DEFINE q == [id |-> new, offset |-> r.offset, comment |-> r.comment, layers |-> s]
<1>5. [r EXCEPT !.id = new, !.layers = s] = q
  <2> DEFINE r1 == [r EXCEPT !.id = new]
  <2>1. r1 = [id |-> new, offset |-> r.offset, comment |-> r.comment, layers |-> r.layers]
      BY <1>4
  <2>2. r1.offset = r.offset /\ r1.comment = r.comment /\ r1.id = new
      BY <2>1
  <2>3. [r1 EXCEPT !.layers = s] = q
    <3> HIDE DEF r1
    <3> QED BY <2>1
  <2> QED BY <2>3
<1>6. q \in Rings
    BY <1>1, <1>3, <1>4 DEF Rings, LayerTypes
<1>7. [q EXCEPT !.id = NoId] = Unnamed(r, m)
    BY DEF Unnamed, s
<1> QED BY <1>2, <1>5, <1>6, <1>7 DEF s, new

LEMMA UnnamedAlike ==
    ASSUME NEW q \in Rings, NEW r \in Rings, Alike(q, r), NEW m \in Media
    PROVE  Unnamed(q, m) = Unnamed(r, m)
<1>1. Layers[m] + 1 \in Nat
    BY ReferenceAssumption
<1>2. \A i \in 1 .. Layers[m] + 1 : LayerAt(q, i) = LayerAt(r, i)
    BY <1>1 DEF Alike
<1>3. MediaLayers(q, m) = MediaLayers(r, m)
    BY <1>2 DEF MediaLayers
<1> QED BY <1>3 DEF Unnamed, Alike

\* The ids that new entries get.
FreshId(rs, k, nextId) == nextId + Cardinality({j \in 1 .. k - 1 : rs[j].id = NoId})
Numbered(rs, m, nextId) == [k \in DOMAIN rs |-> StoredRing(rs[k], m, FreshId(rs, k, nextId))]

LEMMA FreshIds ==
    ASSUME NEW rs, RingList(rs), NEW nextId \in Nat
    PROVE  /\ NewRings(rs) \in Nat
           /\ \A k \in DOMAIN rs : FreshId(rs, k, nextId) \in Nat /\ FreshId(rs, k, nextId) >= nextId
           /\ \A k \in DOMAIN rs : rs[k].id = NoId => FreshId(rs, k, nextId) < nextId + NewRings(rs)
           /\ \A j, k \in DOMAIN rs : j < k /\ rs[j].id = NoId => FreshId(rs, j, nextId) < FreshId(rs, k, nextId)
<1> DEFINE To(k) == {j \in 1 .. k - 1 : rs[j].id = NoId}
           All == {k \in DOMAIN rs : rs[k].id = NoId}
           N == Len(rs)
<1>1. N \in Nat /\ DOMAIN rs = 1 .. N
    BY DEF RingList, IsList
<1>2. IsFiniteSet(All) /\ Cardinality(All) \in Nat
  <2>1. IsFiniteSet(1 .. N) /\ All \subseteq 1 .. N
      BY <1>1, NumbersTo
  <2> HIDE DEF All
  <2>2. IsFiniteSet(All)
      BY <2>1, FS_Subset
  <2> QED BY <2>2, FS_CardinalityType
<1>3. ASSUME NEW k \in DOMAIN rs
      PROVE  /\ To(k) \subseteq All /\ k \notin To(k) /\ IsFiniteSet(To(k)) /\ Cardinality(To(k)) \in Nat
             /\ \A S \in SUBSET All : IsFiniteSet(S) /\ Cardinality(S) \in Nat
                                      /\ (To(k) \cup {k} \subseteq S => Cardinality(To(k)) < Cardinality(S))
  <2> DEFINE T == To(k)
  <2>1. T \subseteq All /\ k \notin T
      BY <1>1
  <2> HIDE DEF T, All
  <2>2. IsFiniteSet(T) /\ Cardinality(T) \in Nat
      BY <1>2, <2>1, FS_Subset, FS_CardinalityType
  <2>3. ASSUME NEW S \in SUBSET All
        PROVE  IsFiniteSet(S) /\ Cardinality(S) \in Nat /\ (T \cup {k} \subseteq S => Cardinality(T) < Cardinality(S))
    <3>1. IsFiniteSet(S) /\ Cardinality(S) \in Nat
        BY <1>2, FS_Subset, FS_CardinalityType
    <3>2. ASSUME T \cup {k} \subseteq S PROVE Cardinality(T) < Cardinality(S)
      <4>1. Cardinality(T \cup {k}) = Cardinality(T) + 1
          BY <2>1, <2>2, FS_AddElement
      <4>2. Cardinality(T \cup {k}) <= Cardinality(S)
          BY <3>1, <3>2, FS_Subset
      <4> QED BY <2>2, <3>1, <4>1, <4>2
    <3> QED BY <3>1, <3>2
  <2> QED BY <2>1, <2>2, <2>3 DEF T
<1>4. NewRings(rs) = Cardinality(All)
    BY DEF NewRings
<1>5. \A k \in DOMAIN rs : FreshId(rs, k, nextId) = nextId + Cardinality(To(k))
    BY DEF FreshId
<1>6. ASSUME NEW k \in DOMAIN rs, rs[k].id = NoId PROVE Cardinality(To(k)) < Cardinality(All)
  <2>1. To(k) \cup {k} \subseteq All
      BY <1>3, <1>6
  <2> DEFINE T == To(k)
  <2>2. \A S \in SUBSET All : T \cup {k} \subseteq S => Cardinality(T) < Cardinality(S)
      BY <1>3
  <2> HIDE DEF All, T
  <2>3. Cardinality(T) < Cardinality(All)
      BY <2>1, <2>2 DEF T
  <2> QED BY <2>3 DEF T
<1>7. ASSUME NEW j \in DOMAIN rs, NEW k \in DOMAIN rs, j < k, rs[j].id = NoId PROVE Cardinality(To(j)) < Cardinality(To(k))
  <2>1. To(j) \cup {j} \subseteq To(k) /\ To(k) \subseteq All
      BY <1>1, <1>7
  <2> DEFINE T == To(j)
             U == To(k)
  <2>2. \A S \in SUBSET All : T \cup {j} \subseteq S => Cardinality(T) < Cardinality(S)
      BY <1>3
  <2>3. T \cup {j} \subseteq U /\ U \subseteq All
      BY <2>1
  <2> HIDE DEF All, T, U
  <2>4. Cardinality(T) < Cardinality(U)
      BY <2>2, <2>3
  <2> QED BY <2>4 DEF T, U
<1>8. \A k \in DOMAIN rs : Cardinality(To(k)) \in Nat
    BY <1>3
<1> HIDE DEF To, All
<1> QED BY <1>2, <1>4, <1>5, <1>6, <1>7, <1>8

IsStored(t, rs, m, nextId) ==
    /\ RingList(t) /\ HasIds(t) /\ Len(t) = Len(rs)
    /\ \A q \in ToSet(t) : q.id \in Nat /\ q.id # NoId /\ q.id < nextId + NewRings(rs)
    /\ \A q \in ToSet(t) : \E r \in ToSet(rs) : /\ q.offset = r.offset /\ q.comment = r.comment
                                               /\ q.layers = MediaLayers(r, m) /\ (r.id # NoId => q.id = r.id)
                                               /\ [q EXCEPT !.id = NoId] = Unnamed(r, m)
    /\ \A r \in ToSet(rs) : \E q \in ToSet(t) : /\ q.offset = r.offset /\ q.comment = r.comment
                                               /\ q.layers = MediaLayers(r, m) /\ (r.id # NoId => q.id = r.id)
                                               /\ [q EXCEPT !.id = NoId] = Unnamed(r, m)
    /\ \A q \in ToSet(t) : q.id < nextId => \E r \in ToSet(rs) : r.id = q.id

LEMMA StoredAre ==
    ASSUME NEW rs, RingList(rs), HasIds(rs), NEW m \in Media, NEW nextId \in Nat,
           \A q \in ToSet(rs) : q.id # NoId => q.id < nextId
    PROVE  IsStored(StoredRings(rs, m, nextId), rs, m, nextId)
<1> DEFINE u == Numbered(rs, m, nextId)
           t == SortRings(u)
           N == Len(rs)
<1>1. StoredRings(rs, m, nextId) = t
    BY DEF StoredRings, Numbered, FreshId
<1>2. N \in Nat /\ DOMAIN rs = 1 .. N /\ \A k \in DOMAIN rs : rs[k] \in Rings /\ rs[k] \in ToSet(rs)
    BY DEF RingList, IsList, ToSet
<1>3. /\ NewRings(rs) \in Nat
      /\ \A k \in DOMAIN rs : FreshId(rs, k, nextId) \in Nat /\ FreshId(rs, k, nextId) >= nextId
      /\ \A k \in DOMAIN rs : rs[k].id = NoId => FreshId(rs, k, nextId) < nextId + NewRings(rs)
      /\ \A j, k \in DOMAIN rs : j < k /\ rs[j].id = NoId => FreshId(rs, j, nextId) < FreshId(rs, k, nextId)
    BY FreshIds
<1>4. DOMAIN u = 1 .. N /\ IsList(u) /\ Len(u) = N
  <2>1. DOMAIN u = 1 .. N /\ u = [i \in 1 .. N |-> u[i]]
      BY <1>2 DEF Numbered
  <2> HIDE DEF u
  <2> QED BY <1>2, <2>1, IsNumbered
<1>5. \A k \in 1 .. N : /\ u[k] \in Rings /\ u[k].id = IF rs[k].id = NoId THEN FreshId(rs, k, nextId) ELSE rs[k].id
                        /\ u[k].offset = rs[k].offset /\ u[k].comment = rs[k].comment /\ u[k].layers = MediaLayers(rs[k], m)
                        /\ [u[k] EXCEPT !.id = NoId] = Unnamed(rs[k], m)
  <2> SUFFICES ASSUME NEW k \in 1 .. N
               PROVE  /\ u[k] \in Rings /\ u[k].id = IF rs[k].id = NoId THEN FreshId(rs, k, nextId) ELSE rs[k].id
                      /\ u[k].offset = rs[k].offset /\ u[k].comment = rs[k].comment /\ u[k].layers = MediaLayers(rs[k], m)
                      /\ [u[k] EXCEPT !.id = NoId] = Unnamed(rs[k], m)
      OBVIOUS
  <2> DEFINE r == rs[k]
             id == FreshId(rs, k, nextId)
  <2>1. u[k] = StoredRing(r, m, id)
      BY <1>2 DEF Numbered
  <2>2. r \in Rings /\ id \in Nat
      BY <1>2, <1>3
  <2> HIDE DEF u, r, id
  <2>3. /\ u[k] \in Rings /\ u[k].id = IF r.id = NoId THEN id ELSE r.id
        /\ u[k].offset = r.offset /\ u[k].comment = r.comment /\ u[k].layers = MediaLayers(r, m)
        /\ [u[k] EXCEPT !.id = NoId] = Unnamed(r, m)
      BY <2>1, <2>2, StoredRingIs
  <2> QED BY <2>3 DEF r, id
<1> HIDE DEF u
<1>6. \A k \in 1 .. N : /\ u[k].id \in Nat /\ u[k].id # NoId /\ u[k].id < nextId + NewRings(rs)
                        /\ u[k].id < nextId <=> rs[k].id # NoId
  <2> SUFFICES ASSUME NEW k \in 1 .. N
               PROVE  /\ u[k].id \in Nat /\ u[k].id # NoId /\ u[k].id < nextId + NewRings(rs)
                      /\ u[k].id < nextId <=> rs[k].id # NoId
      OBVIOUS
  <2>1. NoId \notin Nat /\ (rs[k].id = NoId \/ rs[k].id \in Nat)
      BY <1>2, RingTypes
  <2>2. CASE rs[k].id = NoId
      BY <1>2, <1>3, <1>5, <2>1, <2>2
  <2>3. CASE rs[k].id # NoId
    <3>1. u[k].id = rs[k].id /\ rs[k].id < nextId /\ rs[k].id \in Nat
        BY <1>2, <1>5, <2>1, <2>3
    <3> QED BY <1>3, <2>1, <2>3, <3>1
  <2> QED BY <2>2, <2>3
<1>7. RingList(u)
    BY <1>4, <1>5 DEF RingList
<1>8. \A j, k \in 1 .. N : j < k => u[j].id # u[k].id
  <2> SUFFICES ASSUME NEW j \in 1 .. N, NEW k \in 1 .. N, j < k, u[j].id = u[k].id PROVE FALSE
      OBVIOUS
  <2>1. rs[j].id # NoId <=> rs[k].id # NoId
      BY <1>6
  <2>2. CASE rs[j].id = NoId
    <3>1. u[j].id = FreshId(rs, j, nextId) /\ u[k].id = FreshId(rs, k, nextId)
        BY <1>5, <2>1, <2>2
    <3>2. FreshId(rs, j, nextId) < FreshId(rs, k, nextId) /\ FreshId(rs, j, nextId) \in Nat /\ FreshId(rs, k, nextId) \in Nat
        BY <1>2, <1>3, <2>2
    <3>3. FreshId(rs, j, nextId) = FreshId(rs, k, nextId)
        BY <3>1
    <3> DEFINE a == FreshId(rs, j, nextId)
               b == FreshId(rs, k, nextId)
    <3>4. a \in Nat /\ b \in Nat /\ a < b /\ a = b
        BY <3>2, <3>3
    <3> HIDE DEF a, b
    <3> QED BY <3>4
  <2>3. CASE rs[j].id # NoId
    <3>1. rs[j].id = rs[k].id
        BY <1>5, <2>1, <2>3
    <3> QED BY <1>2, <2>3, <3>1 DEF HasIds
  <2> QED BY <2>2, <2>3
<1>9. HasIds(u)
  <2> SUFFICES ASSUME NEW j \in 1 .. N, NEW k \in 1 .. N, u[j].id = u[k].id PROVE j = k
      BY <1>4 DEF HasIds
  <2>1. ~(j < k) /\ ~(k < j)
      BY <1>8
  <2> QED BY <1>2, <2>1
<1>10. /\ RingList(t) /\ Len(t) = N /\ ToSet(t) = ToSet(u) /\ HasIds(t)
    BY <1>4, <1>7, <1>9, SortedRings, SortedHas, SortedIds
<1>11. \A q \in ToSet(u) : \E k \in 1 .. N : q = u[k]
    BY <1>4 DEF ToSet
<1>12. \A k \in 1 .. N : u[k] \in ToSet(u)
    BY <1>4 DEF ToSet
<1>13. \A r \in ToSet(rs) : \E k \in 1 .. N : r = rs[k]
    BY <1>2 DEF ToSet
<1> HIDE DEF t
<1>14. \A q \in ToSet(t) : q.id \in Nat /\ q.id # NoId /\ q.id < nextId + NewRings(rs)
    BY <1>6, <1>10, <1>11
<1>15. ASSUME NEW k \in 1 .. N
       PROVE  /\ u[k].offset = rs[k].offset /\ u[k].comment = rs[k].comment
              /\ u[k].layers = MediaLayers(rs[k], m) /\ (rs[k].id # NoId => u[k].id = rs[k].id)
              /\ [u[k] EXCEPT !.id = NoId] = Unnamed(rs[k], m)
    BY <1>5
<1>16. ASSUME NEW q \in ToSet(t)
       PROVE  \E r \in ToSet(rs) : /\ q.offset = r.offset /\ q.comment = r.comment
                                   /\ q.layers = MediaLayers(r, m) /\ (r.id # NoId => q.id = r.id)
                                   /\ [q EXCEPT !.id = NoId] = Unnamed(r, m)
  <2>1. PICK k \in 1 .. N : q = u[k]
      BY <1>10, <1>11
  <2> QED BY <1>2, <1>15, <2>1
<1>17. ASSUME NEW r \in ToSet(rs)
       PROVE  \E q \in ToSet(t) : /\ q.offset = r.offset /\ q.comment = r.comment
                                   /\ q.layers = MediaLayers(r, m) /\ (r.id # NoId => q.id = r.id)
                                   /\ [q EXCEPT !.id = NoId] = Unnamed(r, m)
  <2>1. PICK k \in 1 .. N : r = rs[k]
      BY <1>13
  <2>2. u[k] \in ToSet(t)
      BY <1>10, <1>12
  <2> QED BY <1>15, <2>1, <2>2
<1>18. ASSUME NEW q \in ToSet(t), q.id < nextId PROVE \E r \in ToSet(rs) : r.id = q.id
  <2>1. PICK k \in 1 .. N : q = u[k]
      BY <1>10, <1>11
  <2>2. rs[k].id # NoId
      BY <1>6, <1>18, <2>1
  <2>3. rs[k].id = q.id /\ rs[k] \in ToSet(rs)
      BY <1>2, <1>5, <2>1, <2>2
  <2> QED BY <2>3
<1> QED BY <1>1, <1>10, <1>14, <1>16, <1>17, <1>18 DEF IsStored

-----------------------------------------------------------------------------
(* A change set gives back what it was made of.                            *)

LEMMA NeverAbsent ==
    ASSUME NEW f \in ScalarFields, NEW v, Fits(f, v)
    PROVE  v # Absent
<1>1. f \in {"system", "media", "title", "version", "comments", "errors", "edc", "ranges", "breaks", "bca", "dat", "status"}
    BY DEF ScalarFields
<1> QED BY <1>1, NullIsNone DEF Fits, ListFields

LEMMA ScalarRestored ==
    ASSUME NEW f \in ScalarFields, NEW old, NEW new, Fits(f, new)
    PROVE  LET ch == ScalarChange(f, old, new)
               v == IF ch = Absent THEN old ELSE ch
           IN  v = new \/ (IsEmpty(f, v) /\ IsEmpty(f, new))
<1>1. new # Absent /\ Null # Absent
    BY NeverAbsent, NullIsNone
<1> QED BY <1>1 DEF ScalarChange, IsEmpty

LEMMA SetRestored ==
    ASSUME NEW old \in SUBSET Texts, NEW new \in SUBSET Texts, NEW allow, allow \/ old = {}
    PROVE  LET ch == SetChange(old, new, allow) IN
           (IF ch = Absent THEN old ELSE SetApplied(old, ch)) = new
<1> DEFINE out == IF allow THEN old \ new ELSE {}
           ch == [add |-> new \ old, remove |-> out]
<1>1. out = old \ new
    OBVIOUS
<1>2. SetChange(old, new, allow) = IF new \ old = {} /\ out = {} THEN Absent ELSE ch
    BY DEF SetChange
<1>3. SetApplied(old, ch) = new
  <2>1. ch.remove = old \ new /\ ch.add = new \ old
      BY <1>1
  <2> HIDE DEF ch
  <2> QED BY <2>1 DEF SetApplied
<1>4. ch # Absent
  <2>1. ch \in [add : SUBSET Texts, remove : SUBSET Texts]
      BY <1>1
  <2> QED BY <2>1, NullIsNone
<1> HIDE DEF ch, out
<1>5. CASE new \ old = {} /\ out = {}
  <2>1. old = new
      BY <1>1, <1>5
  <2> QED BY <1>2, <1>5, <2>1
<1>6. CASE ~(new \ old = {} /\ out = {})
    BY <1>2, <1>3, <1>4, <1>6
<1> QED BY <1>5, <1>6

IsRestored(x, n, base) ==
    /\ HasTypes(x) /\ AreEntriesOf(x.rings, n.rings, base.rings)
    /\ \A f \in SetFields : x[f] = n[f]
    /\ \A f \in ScalarFields \ {"status", "ranges", "breaks"} : x[f] = n[f]
    /\ \A f \in ListFields : x[f] = n[f] \/ (x[f] \in {Null, <<>>} /\ n[f] \in {Null, <<>>})

LEMMA ContentRestored ==
    ASSUME NEW form, IsForm(form), Chosen(form), NEW base, IsBase(base), NEW allow, allow \/ base = Blank,
           NEW ch, IsChange(ch), AreHistory(ch, NormalForm(form), base, allow)
    PROVE  IsRestored(Resolve(base, ch, FALSE), NormalForm(form), base)
<1> DEFINE n == NormalForm(form)
           no == FALSE
           x == Resolve(base, ch, no)
<1>1. IsResolved(x, base, ch, no)
  <2> HIDE DEF no
  <2> QED BY ResolveIs
<1>2. IsNormal(n, form) /\ IsForm(n) /\ HasTypes(n)
    BY NormalIs DEF IsNormal, IsForm
<1>3. HasTypes(base) /\ RingList(base.rings) /\ RingList(n.rings) /\ HasIds(n.rings)
    BY <1>2, FormFields DEF IsBase, IsForm
<1>4. (\A f \in Keys : Fits(f, n[f]) /\ Fits(f, base[f]))
    BY <1>2, <1>3, TypesAre
<1>5. Posted(base.rings, n.rings, allow)
  <2>1. allow \/ base.rings = <<>>
      BY BlankIs
  <2>2. \A r \in ToSet(n.rings) : ~RingIsEmpty(r)
    <3>1. form.media \in Media /\ RingList(form.rings)
        BY FormFields DEF Chosen, IsForm
    <3>2. n.rings = FilteredRings(form.rings, form.media)
        BY <1>2 DEF IsNormal
    <3>3. \A r \in ToSet(FilteredRings(form.rings, form.media)) : IsFit(r, form.media)
        BY <3>1, FilteredRingsAre
    <3> HIDE DEF n
    <3> QED BY <3>2, <3>3 DEF IsFit
  <2> HIDE DEF n
  <2> QED BY <1>3, <2>1, <2>2 DEF Posted, IsBase
<1> HIDE DEF n, x
<1>6. AreEntriesOf(x.rings, n.rings, base.rings)
  <2>1. AreEntriesOf(AppliedChanges(base.rings, n.rings, allow), n.rings, base.rings)
      BY <1>5, RingsRoundTrip
  <2>2. ch.rings = RingChanges(base.rings, n.rings, allow)
      BY DEF AreHistory, n
  <2>3. x.rings = AppliedChanges(base.rings, n.rings, allow)
    <3>1. x.rings = IF ch.rings = <<>> THEN base.rings ELSE ApplyRings(base.rings, ch.rings, FALSE)
        BY <1>1 DEF IsResolved, no
    <3> QED BY <2>2, <3>1 DEF AppliedChanges
  <2> QED BY <2>1, <2>3
<1>7. ASSUME NEW f \in SetFields PROVE x[f] = n[f]
  <2>1. base[f] \in SUBSET Texts /\ n[f] \in SUBSET Texts
    <3>1. Fits(f, n[f]) /\ Fits(f, base[f])
        BY <1>4, KindsOfFields
    <3> QED BY <3>1 DEF Fits
  <2>2. ch[f] = SetChange(base[f], n[f], allow)
      BY DEF AreHistory, n
  <2>3. x[f] = IF ch[f] = Absent THEN base[f] ELSE SetApplied(base[f], ch[f])
      BY <1>1 DEF IsResolved
  <2>4. allow \/ base[f] = {}
      BY BlankIs
  <2> QED BY <2>1, <2>2, <2>3, <2>4, SetRestored
<1>8. ASSUME NEW f \in ScalarFields \ {"status"} PROVE x[f] = n[f] \/ (IsEmpty(f, x[f]) /\ IsEmpty(f, n[f]))
  <2>1. Fits(f, n[f])
      BY <1>4, KindsOfFields
  <2>2. ch[f] = ScalarChange(f, base[f], n[f])
      BY DEF AreHistory, n
  <2>3. x[f] = IF ch[f] = Absent THEN base[f] ELSE ch[f]
      BY <1>1 DEF IsResolved
  <2> QED BY <2>1, <2>2, <2>3, ScalarRestored
<1>9. \A f \in ScalarFields \ {"status", "ranges", "breaks"} : x[f] = n[f]
    BY <1>8 DEF IsEmpty, ListFields
<1>10. \A f \in ListFields : x[f] = n[f] \/ (x[f] \in {Null, <<>>} /\ n[f] \in {Null, <<>>})
    BY <1>8 DEF IsEmpty, ListFields, ScalarFields
<1>11. HasTypes(x)
    BY <1>1 DEF IsResolved
<1> QED BY <1>6, <1>7, <1>9, <1>10, <1>11 DEF IsRestored, n, x, no

LEMMA UpdatedIs ==
    ASSUME NEW x, IsRecord(x), NEW old, NEW nextId
    PROVE  LET y == UpdateDisc(old, x, nextId) IN
           /\ IsRecord(y) /\ Same(y, x, {"system", "media", "title", "version", "comments", "errors", "bca", "dat", "serial"})
           /\ y.ranges = IF x.ranges = Null THEN old.ranges ELSE x.ranges
           /\ y.breaks = IF x.breaks = <<>> THEN Null ELSE x.breaks
           /\ y.edc = IF x.edc = Null THEN FALSE ELSE x.edc
           /\ y.mastering = IF AllowsMastering[x.media] THEN x.mastering ELSE {}
           /\ y.status = IF x.status = Null THEN "Unverified" ELSE x.status
           /\ y.rings = StoredRings(x.rings, x.media, nextId)
<1>1. x = [f \in Keys |-> x[f]] /\ DOMAIN x = Keys
    BY DEF IsRecord
<1> DEFINE y == UpdateDisc(old, x, nextId)
<1>2. IsRecord(y) /\ Same(y, x, {"system", "media", "title", "version", "comments", "errors", "bca", "dat", "serial"})
    BY <1>1, ZenonT(60) DEF UpdateDisc, IsRecord, Same, Keys, ScalarFields, SetFields
<1>3. /\ y.ranges = IF x.ranges = Null THEN old.ranges ELSE x.ranges
      /\ y.breaks = IF x.breaks = <<>> THEN Null ELSE x.breaks
      /\ y.edc = IF x.edc = Null THEN FALSE ELSE x.edc
    BY <1>1 DEF UpdateDisc, Keys, ScalarFields, SetFields
<1>4. /\ y.mastering = IF AllowsMastering[x.media] THEN x.mastering ELSE {}
      /\ y.status = IF x.status = Null THEN "Unverified" ELSE x.status
      /\ y.rings = StoredRings(x.rings, x.media, nextId)
    BY <1>1 DEF UpdateDisc, Keys, ScalarFields, SetFields
<1> QED BY <1>2, <1>3, <1>4
===============================================================================
