--------------------------- MODULE ListingProofs ---------------------------
(***************************************************************************)
(* Lemmas about Listings: an order without ties has a first, a second and  *)
(* so on to the last, a listing has each element once, and what comes      *)
(* after all others is listed last.                                        *)
(***************************************************************************)
EXTENDS Listings, Sequences, FiniteSetTheorems, WellFoundedInduction, TLAPS

-----------------------------------------------------------------------------
(* Finite sets of numbers.                                                 *)

\* The numbers to m are m numbers.
LEMMA NumbersTo == \A m \in Nat : IsFiniteSet(1 .. m) /\ Cardinality(1 .. m) = m
<1>1. ASSUME NEW m \in Nat PROVE IsFiniteSet(1 .. m) /\ Cardinality(1 .. m) = m
    BY FS_Interval
<1> QED BY <1>1

\* A finite set of numbers has a greatest one.
LEMMA GreatestNumber ==
    ASSUME NEW S \in SUBSET Nat, IsFiniteSet(S), S # {}
    PROVE  \E p \in S : \A q \in S : q <= p
<1> DEFINE Order == StrictSubsetOrdering(Nat)
           Bad == {T \in FiniteSubsetsOf(Nat) : T # {} /\ ~\E p \in T : \A q \in T : q <= p}
<1>1. IsWellFoundedOn(Order, FiniteSubsetsOf(Nat))
    BY FS_StrictSubsetOrderingWellFounded
<1>2. CASE Bad # {}
  <2>1. PICK T \in Bad : \A U \in Bad : ~(<<U, T>> \in Order)
    <3> HIDE DEF Order
    <3> QED BY <1>1, <1>2, WFMin
  <2>2. PICK p \in T : TRUE
      OBVIOUS
  <2> DEFINE U == T \ {p}
  <2>3. U \in FiniteSubsetsOf(Nat) /\ U # T /\ U \subseteq T
      BY FS_RemoveElement DEF FiniteSubsetsOf
  <2>4. U \notin Bad
      BY <2>1, <2>3 DEF StrictSubsetOrdering, FiniteSubsetsOf
  <2>5. T \subseteq Nat /\ T = U \cup {p}
      BY DEF FiniteSubsetsOf
  <2>6. CASE U = {}
      BY <2>5, <2>6
  <2>7. CASE U # {}
    <3>1. PICK q \in U : \A r \in U : r <= q
        BY <2>3, <2>4, <2>7
    <3>2. p \in Nat /\ q \in Nat /\ U \subseteq Nat
        BY <2>5
    <3>3. CASE p <= q
        BY <2>5, <3>1, <3>2, <3>3
    <3>4. CASE q <= p
      <4>1. \A r \in U : r <= p
          BY <3>1, <3>2, <3>4
      <4> QED BY <2>5, <3>2, <4>1
    <3> QED BY <3>2, <3>3, <3>4
  <2> QED BY <2>6, <2>7
<1>3. CASE Bad = {}
    BY <1>3 DEF FiniteSubsetsOf
<1> QED BY <1>2, <1>3

\* A set of numbers that is not empty has a least one.
LEMMA LeastNumber ==
    ASSUME NEW S \in SUBSET Nat, S # {}
    PROVE  \E n \in S : \A m \in S : n <= m
<1>1. PICK k \in S : TRUE
    OBVIOUS
<1> DEFINE Below == {k - n : n \in {m \in S : m <= k}}
<1>2. Below \subseteq 0 .. k /\ Below \subseteq Nat /\ 0 \in Below
    OBVIOUS
<1>3. IsFiniteSet(Below)
  <2>1. IsFiniteSet(0 .. k)
      BY FS_Interval
  <2> HIDE DEF Below
  <2> QED BY <1>2, <2>1, FS_Subset
<1>4. PICK p \in Below : \A q \in Below : q <= p
  <2> HIDE DEF Below
  <2> QED BY <1>2, <1>3, GreatestNumber
<1>5. PICK n \in S : n <= k /\ p = k - n
    OBVIOUS
<1>6. ASSUME NEW m \in S PROVE n <= m
  <2>1. CASE m <= k
    <3>1. k - m \in Below
        BY <2>1
    <3> QED BY <1>4, <1>5, <3>1
  <2>2. CASE ~(m <= k)
      BY <1>5, <2>2
  <2> QED BY <2>1, <2>2
<1> QED BY <1>5, <1>6

-----------------------------------------------------------------------------
(* Places.                                                                 *)

\* What comes later has a higher place.
LEMMA RankOrder ==
    ASSUME NEW S, IsFiniteSet(S), NEW f, \A x \in S : f[x] \in Nat
    PROVE  /\ Cardinality(S) \in Nat
           /\ \A x \in S : Rank(S, f, x) \in 1 .. Cardinality(S)
           /\ \A x, y \in S : f[x] < f[y] => Rank(S, f, x) < Rank(S, f, y)
<1> DEFINE upTo(x) == {y \in S : f[y] <= f[x]}
           N == Cardinality(S)
<1>1. N \in Nat
    BY FS_CardinalityType
<1>2. ASSUME NEW x \in S
      PROVE  IsFiniteSet(upTo(x)) /\ Cardinality(upTo(x)) \in 1 .. N /\ x \in upTo(x)
  <2>1. x \in upTo(x) /\ upTo(x) \subseteq S
      OBVIOUS
  <2> HIDE DEF upTo
  <2>2. IsFiniteSet(upTo(x)) /\ Cardinality(upTo(x)) <= N
      BY <2>1, FS_Subset
  <2>3. Cardinality(upTo(x)) \in Nat /\ Cardinality(upTo(x)) # 0
      BY <2>1, <2>2, FS_CardinalityType, FS_EmptySet
  <2> QED BY <1>1, <2>1, <2>2, <2>3
<1>3. ASSUME NEW x \in S, NEW y \in S, f[x] < f[y]
      PROVE  Cardinality(upTo(x)) < Cardinality(upTo(y))
  <2>1. upTo(x) \subseteq upTo(y)
      BY <1>3
  <2>2. y \notin upTo(x)
      BY <1>3
  <2>3. y \in upTo(y) /\ IsFiniteSet(upTo(y))
      BY <1>2
  <2>4. Cardinality(upTo(x)) \in Nat /\ Cardinality(upTo(y)) \in Nat
    <3> HIDE DEF upTo, N
    <3> QED BY <1>1, <1>2
  <2> HIDE DEF upTo
  <2>5. Cardinality(upTo(x)) <= Cardinality(upTo(y)) /\ Cardinality(upTo(x)) # Cardinality(upTo(y))
      BY <2>1, <2>2, <2>3, FS_Subset
  <2> QED BY <2>4, <2>5
<1>4. \A x : Rank(S, f, x) = Cardinality(upTo(x))
    BY DEF Rank
<1> HIDE DEF upTo
<1> QED BY <1>1, <1>2, <1>3, <1>4

\* In an order without ties there is an n-th, and one.
LEMMA Ranking ==
    ASSUME NEW S, IsFiniteSet(S), NEW f, \A x \in S : f[x] \in Nat, \A x, y \in S : f[x] = f[y] => x = y
    PROVE  /\ \A x, y \in S : Rank(S, f, x) = Rank(S, f, y) => x = y
           /\ \A n \in 1 .. Cardinality(S) : \E x \in S : Rank(S, f, x) = n
<1> DEFINE rank == [x \in S |-> Rank(S, f, x)]
           N == Cardinality(S)
<1>1. N \in Nat /\ IsFiniteSet(1 .. N) /\ Cardinality(1 .. N) = N
  <2>1. N \in Nat
      BY FS_CardinalityType
  <2> HIDE DEF N
  <2> QED BY <2>1, FS_Interval
<1>2. rank \in [S -> 1 .. N]
    BY RankOrder
<1>3. ASSUME NEW x \in S, NEW y \in S, Rank(S, f, x) = Rank(S, f, y) PROVE x = y
  <2>1. ~(f[x] < f[y]) /\ ~(f[y] < f[x])
    <3>1. Rank(S, f, x) \in Nat
        BY <1>1, RankOrder
    <3> QED BY <1>3, <3>1, RankOrder
  <2>2. f[x] \in Nat /\ f[y] \in Nat
      OBVIOUS
  <2> QED BY <2>1, <2>2
<1>4. \A x, y \in S : rank[x] = rank[y] => x = y
    BY <1>3
<1>5. \A n \in 1 .. N : \E x \in S : rank[x] = n
  <2> HIDE DEF rank, N
  <2>1. rank \in Injection(S, 1 .. N)
      BY <1>2, <1>4 DEF Injection, IsInjective
  <2>2. rank \in Surjection(S, 1 .. N)
      BY <1>1, <2>1, FS_Injection DEF N
  <2> QED BY <2>2 DEF Surjection
<1>6. \A x \in S : rank[x] = Rank(S, f, x)
    OBVIOUS
<1> HIDE DEF rank
<1> QED BY <1>3, <1>5, <1>6

-----------------------------------------------------------------------------
(* Listings.                                                               *)

\* S is put in order by f, without ties.
InLine(S, f) ==
    IsFiniteSet(S) /\ (\A x \in S : f[x] \in Nat) /\ (\A x, y \in S : f[x] = f[y] => x = y)

LEMMA Listed ==
    ASSUME NEW S, NEW f, InLine(S, f)
    PROVE  /\ Cardinality(S) \in Nat /\ DOMAIN Listing(S, f) = 1 .. Cardinality(S)
           /\ \A n \in 1 .. Cardinality(S) : Listing(S, f)[n] \in S /\ Rank(S, f, Listing(S, f)[n]) = n
           /\ \A x \in S : Rank(S, f, x) \in 1 .. Cardinality(S) /\ Listing(S, f)[Rank(S, f, x)] = x
           /\ \A m, n \in 1 .. Cardinality(S) :
                 /\ Listing(S, f)[m] = Listing(S, f)[n] => m = n
                 /\ m <= n <=> f[Listing(S, f)[m]] <= f[Listing(S, f)[n]]
<1> DEFINE N == Cardinality(S)
           L == Listing(S, f)
<1>1. N \in Nat /\ \A x \in S : Rank(S, f, x) \in 1 .. N
    BY RankOrder DEF InLine
<1>2. /\ \A x, y \in S : Rank(S, f, x) = Rank(S, f, y) => x = y
      /\ \A n \in 1 .. N : \E x \in S : Rank(S, f, x) = n
    BY Ranking DEF InLine
<1>3. ASSUME NEW n \in 1 .. N PROVE L[n] \in S /\ Rank(S, f, L[n]) = n
  <2>1. L[n] = CHOOSE x \in S : Rank(S, f, x) = n
      BY DEF Listing
  <2>2. \E x \in S : Rank(S, f, x) = n
      BY <1>2
  <2> QED BY <2>1, <2>2
<1>4. DOMAIN L = 1 .. N
    BY DEF Listing
<1> HIDE DEF L, N
<1>5. ASSUME NEW x \in S PROVE Rank(S, f, x) \in 1 .. N /\ L[Rank(S, f, x)] = x
    BY <1>1, <1>2, <1>3
<1>6. ASSUME NEW m \in 1 .. N, NEW n \in 1 .. N
      PROVE  (L[m] = L[n] => m = n) /\ (m <= n <=> f[L[m]] <= f[L[n]])
  <2>1. f[L[m]] \in Nat /\ f[L[n]] \in Nat /\ L[m] \in S /\ L[n] \in S /\ (f[L[m]] = f[L[n]] => L[m] = L[n])
      BY <1>3 DEF InLine
  <2>2. (f[L[m]] < f[L[n]] => m < n) /\ (f[L[n]] < f[L[m]] => n < m)
      BY <1>3, <2>1, RankOrder DEF InLine
  <2>3. L[m] = L[n] => m = n
      BY <1>3
  <2> QED BY <1>1, <2>1, <2>2, <2>3
<1> QED BY <1>1, <1>3, <1>4, <1>5, <1>6 DEF L, N

\* A list is the listing if each element has its place.
HasPlaces(t, S, f) ==
    /\ t = [n \in 1 .. Cardinality(S) |-> t[n]]
    /\ \A n \in 1 .. Cardinality(S) : t[n] \in S /\ Rank(S, f, t[n]) = n

LEMMA IsListing ==
    ASSUME NEW S, NEW f, InLine(S, f), NEW t, HasPlaces(t, S, f)
    PROVE  Listing(S, f) = t
<1>1. ASSUME NEW n \in 1 .. Cardinality(S) PROVE Listing(S, f)[n] = t[n]
  <2>1. Listing(S, f)[n] \in S /\ Rank(S, f, Listing(S, f)[n]) = n
      BY Listed
  <2>2. \A x, y \in S : Rank(S, f, x) = Rank(S, f, y) => x = y
      BY Ranking DEF InLine
  <2> QED BY <2>1, <2>2 DEF HasPlaces
<1>2. Listing(S, f) = [n \in 1 .. Cardinality(S) |-> Listing(S, f)[n]]
    BY DEF Listing
<1> QED BY <1>1, <1>2 DEF HasPlaces

\* What is numbered from 1 has as many numbers as its length.
LEMMA LengthIs ==
    ASSUME NEW n \in Nat, NEW s, s = [i \in 1 .. n |-> s[i]]
    PROVE  Len(s) = n
<1> DEFINE S == {s[i] : i \in 1 .. n}
<1>1. s \in [1 .. n -> S]
    OBVIOUS
<1>2. s \in Seq(S)
  <2> HIDE DEF S
  <2> QED BY <1>1
<1> HIDE DEF S
<1>3. Len(s) \in Nat /\ DOMAIN s = 1 .. Len(s)
    BY <1>2
<1> QED BY <1>3

\* What comes after all others is listed last.
ComesLast(S, f, u, T, g) ==
    InLine(S, f) /\ u \notin S /\ T = S \cup {u} /\ g[u] \in Nat /\ \A x \in S : g[x] = f[x] /\ f[x] < g[u]

LEMMA ListedLast ==
    ASSUME NEW S, NEW f, NEW u, NEW T, NEW g, ComesLast(S, f, u, T, g)
    PROVE  InLine(T, g) /\ Listing(T, g) = Append(Listing(S, f), u)
<1> DEFINE N == Cardinality(S)
           L == Listing(S, f)
           t == [n \in 1 .. N + 1 |-> IF n = N + 1 THEN u ELSE L[n]]
<1> USE DEF ComesLast
<1>1. InLine(T, g)
  <2>1. IsFiniteSet(T)
      BY FS_AddElement DEF InLine
  <2>2. \A x \in T : g[x] \in Nat
      BY DEF InLine
  <2>3. ASSUME NEW x \in T, NEW y \in T, g[x] = g[y] PROVE x = y
      BY <2>2, <2>3 DEF InLine
  <2> QED BY <2>1, <2>2, <2>3 DEF InLine
<1>2. N \in Nat /\ Cardinality(T) = N + 1 /\ IsFiniteSet(T)
  <2>1. IsFiniteSet(S)
      BY DEF InLine
  <2> QED BY <2>1, FS_AddElement, FS_CardinalityType
<1>3. /\ DOMAIN L = 1 .. N
      /\ \A n \in 1 .. N : L[n] \in S /\ Rank(S, f, L[n]) = n
    BY Listed
<1>4. Append(L, u) = t
  <2>1. L = [n \in 1 .. N |-> L[n]]
      BY DEF Listing
  <2> HIDE DEF L, N
  <2>2. Len(L) = N
      BY <1>2, <2>1, LengthIs
  <2> QED BY <1>2, <2>1, <2>2 DEF Append
<1>5. ASSUME NEW x \in S PROVE Rank(T, g, x) = Rank(S, f, x)
  <2>1. g[x] = f[x] /\ f[x] \in Nat /\ f[x] < g[u]
      BY DEF InLine
  <2>2. {y \in T : g[y] <= g[x]} = {y \in S : f[y] <= f[x]}
      BY <2>1
  <2> QED BY <2>2 DEF Rank
<1>6. Rank(T, g, u) = N + 1
  <2>1. {y \in T : g[y] <= g[u]} = T
      BY DEF InLine
  <2> QED BY <1>2, <2>1 DEF Rank
<1> HIDE DEF N, L
<1>7. \A n \in 1 .. N + 1 : t[n] \in T /\ Rank(T, g, t[n]) = n
  <2> SUFFICES ASSUME NEW n \in 1 .. N + 1 PROVE t[n] \in T /\ Rank(T, g, t[n]) = n
      OBVIOUS
  <2>1. CASE n = N + 1
      BY <1>2, <1>6, <2>1
  <2>2. CASE n # N + 1
    <3>1. n \in 1 .. N /\ t[n] = L[n]
        BY <1>2, <2>2
    <3> HIDE DEF t
    <3> QED BY <1>3, <1>5, <3>1
  <2> QED BY <2>1, <2>2
<1>8. t = [n \in 1 .. Cardinality(T) |-> t[n]]
    BY <1>2
<1> HIDE DEF t
<1>9. Listing(T, g) = t
  <2>1. HasPlaces(t, T, g)
      BY <1>2, <1>7, <1>8 DEF HasPlaces
  <2> QED BY <1>1, <2>1, IsListing
<1> QED BY <1>1, <1>4, <1>9 DEF L

\* Numbers that are listed in their own order.
LEMMA Ascends ==
    ASSUME NEW S \in SUBSET Nat, IsFiniteSet(S)
    PROVE  /\ Cardinality(S) \in Nat /\ Ascending(S) \in [1 .. Cardinality(S) -> S]
           /\ \A x \in S : \E n \in 1 .. Cardinality(S) : Ascending(S)[n] = x
           /\ \A m, n \in 1 .. Cardinality(S) : m < n <=> Ascending(S)[m] < Ascending(S)[n]
<1> DEFINE f == [x \in S |-> x]
           N == Cardinality(S)
           L == Listing(S, f)
<1>1. InLine(S, f) /\ \A x \in S : f[x] = x
    BY DEF InLine
<1> HIDE DEF f
<1>2. /\ N \in Nat
      /\ \A n \in 1 .. N : L[n] \in S
      /\ \A x \in S : Rank(S, f, x) \in 1 .. N /\ L[Rank(S, f, x)] = x
      /\ \A m, n \in 1 .. N : m <= n <=> f[L[m]] <= f[L[n]]
    BY <1>1, Listed
<1>3. L = [n \in 1 .. N |-> L[n]]
    BY DEF Listing
<1> HIDE DEF L
<1>4. ASSUME NEW m \in 1 .. N, NEW n \in 1 .. N PROVE m < n <=> L[m] < L[n]
  <2>1. L[m] \in S /\ L[n] \in S /\ (m <= n <=> L[m] <= L[n]) /\ (n <= m <=> L[n] <= L[m])
      BY <1>1, <1>2
  <2>2. L[m] \in Nat /\ L[n] \in Nat
      BY <2>1
  <2> HIDE DEF N
  <2>3. m \in Nat /\ n \in Nat
      BY <1>2
  <2> QED BY <2>1, <2>2, <2>3
<1>5. L \in [1 .. N -> S]
    BY <1>2, <1>3
<1> QED BY <1>2, <1>4, <1>5 DEF Ascending, L, f

\* A number after all others is listed last.
LEMMA AscendsLast ==
    ASSUME NEW S \in SUBSET Nat, IsFiniteSet(S), NEW u \in Nat, \A x \in S : x < u
    PROVE  Ascending(S \cup {u}) = Append(Ascending(S), u)
<1> DEFINE T == S \cup {u}
           f == [x \in S |-> x]
           g == [x \in T |-> x]
<1>1. ComesLast(S, f, u, T, g)
    BY DEF ComesLast, InLine
<1>2. Ascending(T) = Listing(T, g) /\ Ascending(S) = Listing(S, f)
    BY DEF Ascending
<1> HIDE DEF T, f, g
<1>3. Listing(T, g) = Append(Listing(S, f), u)
    BY <1>1, ListedLast
<1> QED BY <1>2, <1>3 DEF T

\* The numbers up to n are listed as they are.
LEMMA AscendsFromOne ==
    ASSUME NEW n \in Nat
    PROVE  Ascending(1 .. n) = [i \in 1 .. n |-> i]
<1> DEFINE f == [x \in 1 .. n |-> x]
<1>1. IsFiniteSet(1 .. n) /\ Cardinality(1 .. n) = n
    BY FS_Interval
<1>2. InLine(1 .. n, f)
    BY <1>1 DEF InLine
<1>3. ASSUME NEW i \in 1 .. n PROVE Rank(1 .. n, f, i) = i
  <2>1. {y \in 1 .. n : f[y] <= f[i]} = 1 .. i
      OBVIOUS
  <2>2. Cardinality(1 .. i) = i
      BY FS_Interval
  <2> QED BY <2>1, <2>2 DEF Rank
<1>4. HasPlaces(f, 1 .. n, f)
  <2>1. f = [i \in 1 .. n |-> f[i]] /\ \A i \in 1 .. n : f[i] = i
      OBVIOUS
  <2> HIDE DEF f
  <2> QED BY <1>1, <1>3, <2>1 DEF HasPlaces
<1>5. Listing(1 .. n, f) = f
    BY <1>2, <1>4, IsListing
<1> QED BY <1>5 DEF Ascending

\* Elements that f tells apart have as many values.
LEMMA AsManyValues ==
    ASSUME NEW S, IsFiniteSet(S), NEW f, \A x, y \in S : f[x] = f[y] => x = y
    PROVE  IsFiniteSet({f[x] : x \in S}) /\ Cardinality({f[x] : x \in S}) = Cardinality(S)
<1> DEFINE I == {f[x] : x \in S}
           g == [x \in S |-> f[x]]
<1>1. g \in Bijection(S, I)
    BY DEF Bijection, Injection, Surjection, IsInjective
<1>2. ExistsBijection(S, I)
    BY <1>1 DEF ExistsBijection
<1> HIDE DEF I, g
<1>3. IsFiniteSet(I) /\ Cardinality(I) = Cardinality(S)
    BY <1>2, FS_Bijection
<1> QED BY <1>3 DEF I

\* Elements that have the numbers up to n are listed by their numbers.
LEMMA ListedByNumber ==
    ASSUME NEW S, NEW f, InLine(S, f), NEW n \in Nat, {f[x] : x \in S} = 1 .. n
    PROVE  Cardinality(S) = n /\ \A i \in 1 .. n : f[Listing(S, f)[i]] = i
<1>1. Cardinality(S) = n
  <2>1. Cardinality({f[x] : x \in S}) = Cardinality(S)
      BY AsManyValues DEF InLine
  <2>2. Cardinality(1 .. n) = n
      BY FS_Interval
  <2> QED BY <2>1, <2>2
<1>2. ASSUME NEW x \in S PROVE Rank(S, f, x) = f[x]
  <2> DEFINE U == {y \in S : f[y] <= f[x]}
  <2>1. {f[y] : y \in U} = 1 .. f[x]
    <3>1. f[x] \in 1 .. n /\ \A y \in S : f[y] \in 1 .. n
        OBVIOUS
    <3>2. ASSUME NEW i \in 1 .. f[x] PROVE \E y \in U : f[y] = i
      <4>1. i \in 1 .. n /\ i <= f[x]
          BY <3>1
      <4>2. PICK y \in S : f[y] = i
          BY <4>1
      <4> QED BY <4>1, <4>2
    <3>3. \A y \in U : f[y] \in 1 .. f[x]
        BY <3>1
    <3> HIDE DEF U
    <3> QED BY <3>2, <3>3
  <2>2. IsFiniteSet(U)
      BY FS_Subset DEF InLine
  <2>3. f[x] \in Nat /\ \A y, z \in U : f[y] = f[z] => y = z
      BY DEF InLine
  <2> HIDE DEF U
  <2>4. Cardinality({f[y] : y \in U}) = Cardinality(U)
      BY <2>2, <2>3, AsManyValues
  <2>5. Cardinality(1 .. f[x]) = f[x]
      BY <2>3, FS_Interval
  <2> QED BY <2>1, <2>4, <2>5 DEF Rank, U
<1>3. \A i \in 1 .. n : Listing(S, f)[i] \in S /\ Rank(S, f, Listing(S, f)[i]) = i
    BY <1>1, Listed
<1> QED BY <1>1, <1>2, <1>3

-----------------------------------------------------------------------------
(* Selections.                                                             *)

IsList(s) == Len(s) \in Nat /\ DOMAIN s = 1 .. Len(s) /\ s = [i \in 1 .. Len(s) |-> s[i]]

\* What is numbered from 1 is a list.
LEMMA IsNumbered ==
    ASSUME NEW n \in Nat, NEW s, DOMAIN s = 1 .. n, s = [i \in 1 .. n |-> s[i]]
    PROVE  IsList(s) /\ Len(s) = n
<1>1. Len(s) = n
    BY LengthIs
<1> QED BY <1>1 DEF IsList

\* A selection has the elements at the positions, in their order.
LEMMA Selected ==
    ASSUME NEW s, IsList(s), NEW K \in SUBSET DOMAIN s
    PROVE  LET order == Ascending(K) IN
           /\ IsFiniteSet(K) /\ Cardinality(K) \in Nat
           /\ IsList(Select(s, K)) /\ Len(Select(s, K)) = Cardinality(K)
           /\ order \in [1 .. Cardinality(K) -> K]
           /\ \A i \in 1 .. Cardinality(K) : Select(s, K)[i] = s[order[i]]
           /\ \A k \in K : \E i \in 1 .. Cardinality(K) : order[i] = k
           /\ \A i, j \in 1 .. Cardinality(K) : i < j <=> order[i] < order[j]
<1> DEFINE order == Ascending(K)
           N == Cardinality(K)
<1>1. IsFiniteSet(K) /\ K \in SUBSET Nat
  <2>1. IsFiniteSet(1 .. Len(s))
      BY NumbersTo DEF IsList
  <2>2. IsFiniteSet(K)
      BY <2>1, FS_Subset DEF IsList
  <2> QED BY <2>2 DEF IsList
<1>2. /\ N \in Nat /\ order \in [1 .. N -> K]
      /\ \A k \in K : \E i \in 1 .. N : order[i] = k
      /\ \A i, j \in 1 .. N : i < j <=> order[i] < order[j]
    BY <1>1, Ascends
<1> HIDE DEF order, N
<1>3. Select(s, K) = [i \in 1 .. N |-> s[order[i]]]
    BY <1>2 DEF Select, order
<1>4. IsList(Select(s, K)) /\ Len(Select(s, K)) = N
  <2> DEFINE t == Select(s, K)
  <2>1. DOMAIN t = 1 .. N /\ t = [i \in 1 .. N |-> t[i]]
      BY <1>3
  <2> HIDE DEF t
  <2>2. IsList(t) /\ Len(t) = N
      BY <1>2, <2>1, IsNumbered
  <2> QED BY <2>2 DEF t
<1>5. \A i \in 1 .. N : Select(s, K)[i] = s[order[i]]
    BY <1>3
<1> QED BY <1>1, <1>2, <1>4, <1>5 DEF order, N

LEMMA SelectAll ==
    ASSUME NEW s, IsList(s)
    PROVE  Select(s, DOMAIN s) = s
<1>1. Ascending(1 .. Len(s)) = [i \in 1 .. Len(s) |-> i]
    BY AscendsFromOne DEF IsList
<1> QED BY <1>1 DEF Select, IsList

LEMMA SelectNone ==
    ASSUME NEW s, IsList(s)
    PROVE  Select(s, {}) = <<>>
<1>1. Cardinality({}) = 0 /\ {} \in SUBSET DOMAIN s
    BY FS_EmptySet
<1>2. Len(Select(s, {})) = 0 /\ IsList(Select(s, {}))
    BY <1>1, Selected
<1> QED BY <1>2 DEF IsList

\* A later position adds its element to the end.
LEMMA SelectNext ==
    ASSUME NEW s, IsList(s), NEW K \in SUBSET DOMAIN s, NEW u \in DOMAIN s, \A k \in K : k < u
    PROVE  Select(s, K \cup {u}) = Append(Select(s, K), s[u])
<1> DEFINE A == Ascending(K)
           N == Cardinality(K)
           T == K \cup {u}
<1>1. /\ IsFiniteSet(K) /\ N \in Nat /\ A \in [1 .. N -> K]
      /\ IsList(Select(s, K)) /\ Len(Select(s, K)) = N
      /\ \A i \in 1 .. N : Select(s, K)[i] = s[A[i]]
    BY Selected
<1>2. Ascending(T) = Append(A, u)
  <2>1. K \in SUBSET Nat /\ u \in Nat
      BY DEF IsList
  <2> QED BY <1>1, <2>1, AscendsLast
<1> DEFINE B == Append(A, u)
<1> HIDE DEF A, N
<1>3. A \in Seq(K) /\ Len(A) = N
  <2>1. A = [i \in 1 .. N |-> A[i]]
      BY <1>1
  <2>2. Len(A) = N
      BY <1>1, <2>1, LengthIs
  <2> QED BY <1>1, <2>2
<1>4. /\ DOMAIN B = 1 .. N + 1 /\ B[N + 1] = u
      /\ \A i \in 1 .. N : B[i] = A[i]
    BY <1>1, <1>3
<1> HIDE DEF B
<1>5. Select(s, T) = [i \in 1 .. N + 1 |-> s[B[i]]]
    BY <1>2, <1>4 DEF Select, B
<1> DEFINE L == Select(s, K)
<1>6. L \in Seq({L[i] : i \in 1 .. N}) /\ Len(L) = N
    BY <1>1 DEF IsList
<1> HIDE DEF L
<1>7. Append(L, s[u]) = [i \in 1 .. N + 1 |-> IF i = N + 1 THEN s[u] ELSE L[i]]
  <2> DEFINE S == {L[i] : i \in 1 .. N} \cup {s[u]}
             x == s[u]
  <2>1. L \in Seq(S) /\ x \in S /\ Len(L) = N
      BY <1>6
  <2> HIDE DEF S, x
  <2>2. /\ Append(L, x) \in Seq(S) /\ Len(Append(L, x)) = N + 1
        /\ \A i \in 1 .. N : Append(L, x)[i] = L[i]
        /\ Append(L, x)[N + 1] = x
      BY <1>1, <2>1
  <2>3. Append(L, x) = [i \in 1 .. N + 1 |-> Append(L, x)[i]]
    <3> DEFINE t == Append(L, x)
    <3>1. t \in Seq(S) /\ Len(t) = N + 1
        BY <2>2
    <3> HIDE DEF t
    <3>2. t = [i \in 1 .. Len(t) |-> t[i]]
        BY <3>1
    <3> QED BY <3>1, <3>2 DEF t
  <2>4. \A i \in 1 .. N + 1 : Append(L, x)[i] = IF i = N + 1 THEN x ELSE L[i]
      BY <1>1, <2>2
  <2> QED BY <2>3, <2>4 DEF x
<1>8. \A i \in 1 .. N + 1 : s[B[i]] = IF i = N + 1 THEN s[u] ELSE L[i]
    BY <1>1, <1>4 DEF L
<1> QED BY <1>5, <1>7, <1>8 DEF L, T
=============================================================================
