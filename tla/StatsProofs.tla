----------------------------- MODULE StatsProofs -----------------------------
(***************************************************************************)
(* Facts about the operators of module Stats and about sums, for samples   *)
(* of any size: what a sorted sample, a stable order and a sum are.  The   *)
(* proofs about timed jobs and about reports rest on them.                 *)
(***************************************************************************)
EXTENDS Stats, FiniteSetTheorems, TLAPS

-----------------------------------------------------------------------------
(* Extremes.                                                               *)

LEMMA LeastNat ==
    ASSUME NEW N \in SUBSET Nat, N # {}
    PROVE  \E d \in N : \A e \in N : d <= e
<1>1. PICK d \in N : \A e \in N : ~(<<e, d>> \in OpToRel(<, Nat))
  BY NatLessThanWellFounded, WFMin, Zenon
<1>2. \A e \in N : ~(e < d)
  BY <1>1 DEF OpToRel
<1> QED
  BY <1>2

LEMMA Numbered ==
    ASSUME NEW n \in Nat
    PROVE  IsFiniteSet(1 .. n) /\ Cardinality(1 .. n) = n
BY FS_Interval

(* Of finitely many things one has the greatest value, and one the least. *)
LEMMA Greatest ==
    ASSUME NEW I, IsFiniteSet(I), I # {}, NEW s, \A i \in I : s[i] \in Int
    PROVE  \E m \in I : \A i \in I : s[i] <= s[m]
<1> DEFINE above(m) == {i \in I : s[i] > s[m]}
           N == {Cardinality(above(m)) : m \in I}
<1>1. ASSUME NEW m \in I
      PROVE  IsFiniteSet(above(m)) /\ Cardinality(above(m)) \in Nat
  BY FS_Subset, FS_CardinalityType
<1>2. N \in SUBSET Nat /\ N # {}
  BY <1>1
<1>3. PICK d \in N : \A e \in N : d <= e
  BY <1>2, LeastNat
<1>4. PICK m \in I : d = Cardinality(above(m))
  OBVIOUS
<1>5. ASSUME NEW i \in I, s[i] > s[m] PROVE FALSE
  <2>1. above(i) \in SUBSET above(m) /\ above(i) # above(m) /\ IsFiniteSet(above(m))
    BY <1>1, <1>5
  <2> HIDE DEF above
  <2>2. Cardinality(above(i)) <= Cardinality(above(m)) /\ Cardinality(above(i)) # Cardinality(above(m))
    BY <2>1, FS_Subset
  <2>3. d <= Cardinality(above(i))
    BY <1>3
  <2> QED
    BY <1>1, <1>4, <2>2, <2>3
<1> QED
  BY <1>5

LEMMA Least ==
    ASSUME NEW I, IsFiniteSet(I), I # {}, NEW s, \A i \in I : s[i] \in Int
    PROVE  \E m \in I : \A i \in I : s[m] <= s[i]
<1> DEFINE t == [i \in I |-> -s[i]]
<1>1. \A i \in I : t[i] \in Int
  OBVIOUS
<1>2. PICK m \in I : \A i \in I : t[i] <= t[m]
  BY <1>1, Greatest
<1> QED
  BY <1>2

-----------------------------------------------------------------------------
(* Sorted samples.                                                         *)

Sample(s) == IsFiniteSet(DOMAIN s) /\ \A i \in DOMAIN s : s[i] \in Int

LEMMA CountsType ==
    ASSUME NEW s, Sample(s), NEW x
    PROVE  /\ IsFiniteSet(Below(s, x)) /\ IsFiniteSet(UpTo(s, x))
           /\ Cardinality(Below(s, x)) \in Nat /\ Cardinality(UpTo(s, x)) \in Nat
           /\ Count(s) \in Nat /\ Cardinality(UpTo(s, x)) <= Count(s)
<1>1. Below(s, x) \in SUBSET DOMAIN s /\ UpTo(s, x) \in SUBSET DOMAIN s
  BY DEF Below, UpTo
<1> QED
  BY <1>1, FS_Subset, FS_CardinalityType DEF Sample, Count

(* What lies up to a value lies below every greater one. *)
LEMMA UpToBelow ==
    ASSUME NEW s, Sample(s), NEW x \in Int, NEW y \in Int, x < y
    PROVE  Cardinality(UpTo(s, x)) <= Cardinality(Below(s, y))
<1>1. UpTo(s, x) \in SUBSET Below(s, y)
  BY DEF UpTo, Below, Sample
<1> QED
  BY <1>1, CountsType, FS_Subset

(* x is the k-th value of s in ascending order. *)
IsNth(x, s, k) ==
    x \in Range(s) /\ Cardinality(Below(s, x)) < k /\ k <= Cardinality(UpTo(s, x))

LEMMA NthExists ==
    ASSUME NEW s, Sample(s), NEW k \in 1 .. Count(s)
    PROVE  \E x \in Range(s) : IsNth(x, s, k)
<1> DEFINE D == {i \in DOMAIN s : k <= Cardinality(UpTo(s, s[i]))}
<1>1. DOMAIN s # {}
  BY FS_EmptySet DEF Count
<1>2. PICK m \in DOMAIN s : \A i \in DOMAIN s : s[i] <= s[m]
  BY <1>1, Greatest DEF Sample
<1>3. UpTo(s, s[m]) = DOMAIN s
  BY <1>2 DEF UpTo
<1>4. m \in D
  BY <1>3, CountsType DEF Count
<1>5. IsFiniteSet(D) /\ \A i \in D : s[i] \in Int
  BY FS_Subset DEF Sample
<1>6. PICK i \in D : \A j \in D : s[i] <= s[j]
  BY <1>4, <1>5, Least
<1>7. ASSUME k <= Cardinality(Below(s, s[i])) PROVE FALSE
  <2>1. Below(s, s[i]) # {} /\ IsFiniteSet(Below(s, s[i]))
    BY <1>7, CountsType, FS_EmptySet
  <2>2. PICK j \in Below(s, s[i]) : \A l \in Below(s, s[i]) : s[l] <= s[j]
    BY <2>1, Greatest DEF Below, Sample
  <2>3. UpTo(s, s[j]) = Below(s, s[i])
    BY <2>2 DEF UpTo, Below, Sample
  <2>4. j \in D /\ s[j] < s[i]
    BY <1>7, <2>3 DEF Below
  <2> QED
    BY <1>5, <1>6, <2>4
<1>8. Cardinality(Below(s, s[i])) < k
  BY <1>7, CountsType
<1> QED
  BY <1>8 DEF IsNth, Range

(* The k-th of a sorted sample is one of its values, with fewer than k below *)
(* it and no fewer than k up to it; no other value is.                       *)
LEMMA SortedAt ==
    ASSUME NEW s, Sample(s), NEW k \in 1 .. Count(s)
    PROVE  Sorted(s)[k] \in Int /\ IsNth(Sorted(s)[k], s, k)
<1>1. Sorted(s)[k] = CHOOSE x \in Range(s) :
                        Cardinality(Below(s, x)) < k /\ k <= Cardinality(UpTo(s, x))
  BY DEF Sorted
<1>2. IsNth(Sorted(s)[k], s, k)
  BY <1>1, NthExists DEF IsNth
<1> QED
  BY <1>2 DEF IsNth, Range, Sample

LEMMA NthIsSorted ==
    ASSUME NEW s, Sample(s), NEW k \in 1 .. Count(s), NEW x, IsNth(x, s, k)
    PROVE  Sorted(s)[k] = x
<1> DEFINE y == Sorted(s)[k]
<1>1. x \in Int /\ y \in Int /\ IsNth(y, s, k)
  BY SortedAt DEF IsNth, Range, Sample
<1> HIDE DEF y
<1>2. ~(x < y)
  BY <1>1, UpToBelow, CountsType DEF IsNth
<1>3. ~(y < x)
  BY <1>1, UpToBelow, CountsType DEF IsNth
<1> QED
  BY <1>1, <1>2, <1>3 DEF y

LEMMA SortedAscends ==
    ASSUME NEW s, Sample(s), NEW k \in 1 .. Count(s), NEW l \in k .. Count(s)
    PROVE  Sorted(s)[k] <= Sorted(s)[l]
<1> DEFINE x == Sorted(s)[k]  y == Sorted(s)[l]
<1>0. Count(s) \in Nat /\ l \in 1 .. Count(s)
  BY CountsType
<1>1. x \in Int /\ y \in Int /\ IsNth(x, s, k) /\ IsNth(y, s, l)
  BY <1>0, SortedAt
<1> HIDE DEF x, y
<1>2. ~(y < x)
  BY <1>0, <1>1, UpToBelow, CountsType DEF IsNth
<1> QED
  BY <1>1, <1>2 DEF x, y

-----------------------------------------------------------------------------
(* Stable orders.                                                          *)

(* The keys of a list of n elements. *)
Keys(keys, n) == DOMAIN keys = 1 .. n /\ \A i \in 1 .. n : keys[i] \in Int

(* What a stable sort puts no later than i. *)
Ahead(keys, i) == {j \in DOMAIN keys : keys[j] < keys[i] \/ (keys[j] = keys[i] /\ j <= i)}

LEMMA PlaceType ==
    ASSUME NEW n \in Nat, NEW keys, Keys(keys, n), NEW i \in 1 .. n
    PROVE  /\ Place(keys, i) = Cardinality(Ahead(keys, i)) /\ IsFiniteSet(Ahead(keys, i))
           /\ Place(keys, i) \in 1 .. n
<1>1. Place(keys, i) = Cardinality(Ahead(keys, i))
  BY DEF Place, Ahead
<1>2. IsFiniteSet(1 .. n) /\ Cardinality(1 .. n) = n
  BY FS_Interval
<1>3. Ahead(keys, i) \in SUBSET (1 .. n) /\ i \in Ahead(keys, i)
  BY DEF Ahead, Keys
<1>4. IsFiniteSet(Ahead(keys, i)) /\ Cardinality(Ahead(keys, i)) <= n
  BY <1>2, <1>3, FS_Subset
<1>5. Cardinality(Ahead(keys, i)) \in Nat /\ Cardinality(Ahead(keys, i)) # 0
  BY <1>3, <1>4, FS_EmptySet, FS_CardinalityType
<1> QED
  BY <1>1, <1>4, <1>5

(* What comes before something else has the lower place. *)
LEMMA PlaceRises ==
    ASSUME NEW n \in Nat, NEW keys, Keys(keys, n), NEW i \in 1 .. n, NEW j \in 1 .. n,
           keys[i] < keys[j] \/ (keys[i] = keys[j] /\ i < j)
    PROVE  Place(keys, i) < Place(keys, j)
<1>1. Ahead(keys, i) \in SUBSET Ahead(keys, j)
  BY DEF Ahead, Keys
<1>2. j \in Ahead(keys, j) /\ j \notin Ahead(keys, i)
  BY DEF Ahead, Keys
<1>3. Cardinality(Ahead(keys, i)) <= Cardinality(Ahead(keys, j))
      /\ Cardinality(Ahead(keys, i)) # Cardinality(Ahead(keys, j))
  BY <1>1, <1>2, PlaceType, FS_Subset
<1> QED
  BY <1>3, PlaceType

(* A stable order has everything once, at its place. *)
LEMMA OrderAt ==
    ASSUME NEW n \in Nat, NEW keys, Keys(keys, n), NEW k \in 1 .. n
    PROVE  StableOrder(keys)[k] \in 1 .. n /\ Place(keys, StableOrder(keys)[k]) = k
<1> DEFINE place == [i \in 1 .. n |-> Place(keys, i)]
<1>1. place \in [1 .. n -> 1 .. n]
  BY PlaceType
<1>2. ASSUME NEW i \in 1 .. n, NEW j \in 1 .. n, i # j PROVE place[i] # place[j]
  <2>1. \/ keys[i] < keys[j] \/ (keys[i] = keys[j] /\ i < j)
        \/ keys[j] < keys[i] \/ (keys[j] = keys[i] /\ j < i)
    BY <1>2 DEF Keys
  <2>2. Place(keys, i) \in Int /\ Place(keys, j) \in Int /\ Place(keys, i) # Place(keys, j)
    BY <2>1, PlaceRises, PlaceType
  <2> QED
    BY <2>2
<1>3. place \in Injection(1 .. n, 1 .. n)
  BY <1>1, <1>2 DEF Injection, IsInjective
<1>4. place \in Surjection(1 .. n, 1 .. n)
  BY <1>3, FS_Injection, FS_Interval
<1>5. \E i \in 1 .. n : Place(keys, i) = k
  BY <1>4 DEF Surjection
<1>6. StableOrder(keys)[k] = CHOOSE i \in DOMAIN keys : Place(keys, i) = k
  BY DEF StableOrder, Keys
<1> QED
  BY <1>5, <1>6 DEF Keys

LEMMA OrderHas ==
    ASSUME NEW n \in Nat, NEW keys, Keys(keys, n), NEW i \in 1 .. n
    PROVE  \E k \in 1 .. n : StableOrder(keys)[k] = i
<1> DEFINE j == StableOrder(keys)[Place(keys, i)]
<1>1. Place(keys, i) \in 1 .. n
  BY PlaceType
<1>2. j \in 1 .. n /\ Place(keys, j) = Place(keys, i)
  BY <1>1, OrderAt
<1> HIDE DEF j
<1>3. j = i
  <2>1. ~(Place(keys, i) < Place(keys, j)) /\ ~(Place(keys, j) < Place(keys, i))
    BY <1>1, <1>2
  <2>2. ~(keys[i] < keys[j] \/ (keys[i] = keys[j] /\ i < j))
    BY <1>2, <2>1, PlaceRises
  <2>3. ~(keys[j] < keys[i] \/ (keys[j] = keys[i] /\ j < i))
    BY <1>2, <2>1, PlaceRises
  <2> QED
    BY <1>2, <2>2, <2>3 DEF Keys
<1> QED
  BY <1>1, <1>3 DEF j

(* It ascends by key, and keeps the order of equal keys. *)
LEMMA OrderAscends ==
    ASSUME NEW n \in Nat, NEW keys, Keys(keys, n), NEW k \in 1 .. n, NEW l \in 1 .. n, k < l,
           NEW i, i = StableOrder(keys)[k], NEW j, j = StableOrder(keys)[l]
    PROVE  /\ i \in 1 .. n /\ j \in 1 .. n
           /\ keys[i] < keys[j] \/ (keys[i] = keys[j] /\ i < j)
<1>1. i \in 1 .. n /\ Place(keys, i) = k
  BY OrderAt
<1>2. j \in 1 .. n /\ Place(keys, j) = l
  BY OrderAt
<1>3. ~(keys[j] < keys[i] \/ (keys[j] = keys[i] /\ j < i))
  BY <1>1, <1>2, PlaceRises
<1> QED
  BY <1>1, <1>2, <1>3 DEF Keys

(* The k-th in a stable order has the k-th key. *)
LEMMA OrderIsSorted ==
    ASSUME NEW n \in Nat, NEW keys, Keys(keys, n), NEW k \in 1 .. n,
           NEW i, i = StableOrder(keys)[k]
    PROVE  IsNth(keys[i], keys, k) /\ Sorted(keys)[k] = keys[i]
<1>1. i \in 1 .. n /\ Place(keys, i) = k
  BY OrderAt
<1>2. Sample(keys) /\ Count(keys) = n
  BY FS_Interval DEF Sample, Keys, Count
<1>3. k = Cardinality(Ahead(keys, i)) /\ IsFiniteSet(Ahead(keys, i))
  BY <1>1, PlaceType
<1>4. Cardinality(Below(keys, keys[i])) < k
  <2>1. Below(keys, keys[i]) \in SUBSET Ahead(keys, i)
    BY DEF Below, Ahead
  <2>2. i \in Ahead(keys, i) /\ i \notin Below(keys, keys[i])
    BY <1>1 DEF Ahead, Below, Keys
  <2> QED
    BY <1>2, <1>3, <2>1, <2>2, FS_Subset, CountsType
<1>5. k <= Cardinality(UpTo(keys, keys[i]))
  <2>1. Ahead(keys, i) \in SUBSET UpTo(keys, keys[i])
    BY <1>1 DEF UpTo, Ahead, Keys
  <2> QED
    BY <1>2, <1>3, <2>1, FS_Subset, CountsType
<1>6. IsNth(keys[i], keys, k)
  BY <1>1, <1>4, <1>5 DEF IsNth, Range, Keys
<1> QED
  BY <1>2, <1>6, NthIsSorted

-----------------------------------------------------------------------------
(* Sums.                                                                   *)

(* The element a fold takes next. *)
Pick(T) == CHOOSE x \in T : TRUE

(* g has the sum of f over each set of sets. *)
Sums(f, sets, g) ==
    g = [T \in sets |-> IF T = {} THEN 0 ELSE f[Pick(T)] + g[T \ {Pick(T)}]]

LEMMA SumIsChosen ==
    ASSUME NEW f, NEW S
    PROVE  SumFunctionOnSet(f, S) = (CHOOSE g : Sums(f, SUBSET S, g))[S]
BY DEF SumFunctionOnSet, FoldFunctionOnSet, MapThenFoldSet, Sums, Pick

SetsUpTo(S, n) == {T \in SUBSET S : Cardinality(T) <= n}

LEMMA PickSmaller ==
    ASSUME NEW S, IsFiniteSet(S), NEW T \in SUBSET S, T # {}
    PROVE  /\ Pick(T) \in T /\ T \ {Pick(T)} \in SUBSET S
           /\ IsFiniteSet(T) /\ Cardinality(T) \in Nat
           /\ Cardinality(T \ {Pick(T)}) = Cardinality(T) - 1
<1>1. Pick(T) \in T
  BY DEF Pick
<1> QED
  BY <1>1, FS_Subset, FS_CardinalityType, FS_RemoveElement

(* The recursion has a solution for sets of up to n elements, for every n. *)
LEMMA SumsUpTo ==
    ASSUME NEW f, NEW S, IsFiniteSet(S), NEW n \in Nat
    PROVE  \E g : Sums(f, SetsUpTo(S, n), g)
<1> DEFINE Bad == {k \in Nat : ~ \E g : Sums(f, SetsUpTo(S, k), g)}
<1> SUFFICES ASSUME Bad # {} PROVE FALSE
  OBVIOUS
<1>1. PICK k \in Bad : \A e \in Bad : k <= e
  BY LeastNat
<1>2. CASE k = 0
  <2>1. ASSUME NEW T \in SetsUpTo(S, 0) PROVE T = {}
    BY FS_Subset, FS_EmptySet, FS_CardinalityType DEF SetsUpTo
  <2>2. Sums(f, SetsUpTo(S, 0), [T \in SetsUpTo(S, 0) |-> 0])
    BY <2>1 DEF Sums
  <2> QED
    BY <1>1, <1>2, <2>2
<1>3. CASE k # 0
  <2>1. k - 1 \in Nat /\ k - 1 \notin Bad /\ k \in Nat
    BY <1>1, <1>3
  <2>2. PICK g : Sums(f, SetsUpTo(S, k - 1), g)
    BY <2>1
  <2> DEFINE h == [T \in SetsUpTo(S, k) |-> IF T = {} THEN 0 ELSE f[Pick(T)] + g[T \ {Pick(T)}]]
  <2>3. ASSUME NEW T \in SetsUpTo(S, k), T # {}
        PROVE  h[T \ {Pick(T)}] = g[T \ {Pick(T)}]
    <3>1. T \ {Pick(T)} \in SetsUpTo(S, k - 1) /\ T \ {Pick(T)} \in SetsUpTo(S, k)
      BY <2>1, <2>3, PickSmaller DEF SetsUpTo
    <3> QED
      BY <2>2, <3>1 DEF Sums
  <2>4. Sums(f, SetsUpTo(S, k), h)
    BY <2>3 DEF Sums
  <2> QED
    BY <1>1, <2>4
<1> QED
  BY <1>2, <1>3

LEMMA SumsExist ==
    ASSUME NEW f, NEW S, IsFiniteSet(S)
    PROVE  \E g : Sums(f, SUBSET S, g)
<1>1. Cardinality(S) \in Nat /\ SetsUpTo(S, Cardinality(S)) = SUBSET S
  BY FS_CardinalityType, FS_Subset DEF SetsUpTo
<1>2. PICK g : Sums(f, SetsUpTo(S, Cardinality(S)), g)
  BY <1>1, SumsUpTo
<1>3. Sums(f, SUBSET S, g)
  BY <1>1, <1>2 DEF Sums
<1> QED
  BY <1>3

(* and only one. *)
LEMMA SumsAgree ==
    ASSUME NEW f, NEW S, IsFiniteSet(S), NEW R \in SUBSET S, NEW g, NEW h,
           Sums(f, SUBSET S, g), Sums(f, SUBSET R, h)
    PROVE  \A T \in SUBSET R : g[T] = h[T]
<1> DEFINE Bad == {k \in Nat : \E T \in SUBSET R : Cardinality(T) = k /\ g[T] # h[T]}
<1>1. ASSUME NEW T \in SUBSET R PROVE T \in SUBSET S /\ Cardinality(T) \in Nat
  BY FS_Subset, FS_CardinalityType
<1> SUFFICES ASSUME Bad # {} PROVE FALSE
  BY <1>1
<1>2. PICK k \in Bad : \A e \in Bad : k <= e
  BY LeastNat
<1>3. PICK T \in SUBSET R : Cardinality(T) = k /\ g[T] # h[T]
  OBVIOUS
<1>4. T \in SUBSET S /\ g[T] = (IF T = {} THEN 0 ELSE f[Pick(T)] + g[T \ {Pick(T)}])
  BY <1>1 DEF Sums
<1>5. h[T] = (IF T = {} THEN 0 ELSE f[Pick(T)] + h[T \ {Pick(T)}])
  BY DEF Sums
<1>6. T # {}
  BY <1>3, <1>4, <1>5
<1>7. Cardinality(T \ {Pick(T)}) = k - 1 /\ k \in Nat /\ T \ {Pick(T)} \in SUBSET R
  BY <1>1, <1>3, <1>6, PickSmaller
<1>8. g[T \ {Pick(T)}] = h[T \ {Pick(T)}]
  BY <1>1, <1>2, <1>7
<1> QED
  BY <1>3, <1>4, <1>5, <1>6, <1>8

(* A sum over nothing is zero, any other takes an element out. *)
LEMMA SumUnrolls ==
    ASSUME NEW f, NEW S, IsFiniteSet(S)
    PROVE  SumFunctionOnSet(f, S) =
              IF S = {} THEN 0 ELSE f[Pick(S)] + SumFunctionOnSet(f, S \ {Pick(S)})
<1> DEFINE R == S \ {Pick(S)}
           g == CHOOSE g : Sums(f, SUBSET S, g)
           h == CHOOSE h : Sums(f, SUBSET R, h)
<1>1. R \in SUBSET S /\ IsFiniteSet(R)
  BY FS_Subset
<1>2. Sums(f, SUBSET S, g) /\ Sums(f, SUBSET R, h)
  BY <1>1, SumsExist
<1>3. SumFunctionOnSet(f, S) = g[S] /\ SumFunctionOnSet(f, R) = h[R]
  BY SumIsChosen
<1> HIDE DEF g, h
<1>4. g[R] = h[R]
  <2> HIDE DEF R
  <2>1. \A T \in SUBSET R : g[T] = h[T]
    BY <1>1, <1>2, SumsAgree
  <2> QED
    BY <2>1
<1>5. g[S] = IF S = {} THEN 0 ELSE f[Pick(S)] + g[R]
  BY <1>2 DEF Sums
<1> QED
  BY <1>3, <1>4, <1>5

(* What grows by f[x] with each element x is the sum of f. *)
LEMMA SumIs ==
    ASSUME NEW S, IsFiniteSet(S), NEW f, NEW h, h[{}] = 0,
           \A U \in SUBSET S : \A x \in U : h[U] = f[x] + h[U \ {x}]
    PROVE  SumFunctionOnSet(f, S) = h[S]
<1> DEFINE Bad == {k \in Nat : \E U \in SUBSET S :
                      Cardinality(U) = k /\ SumFunctionOnSet(f, U) # h[U]}
<1>1. Cardinality(S) \in Nat
  BY FS_CardinalityType
<1> SUFFICES ASSUME Bad # {} PROVE FALSE
  BY <1>1
<1>2. PICK k \in Bad : \A e \in Bad : k <= e
  BY LeastNat
<1>3. PICK U \in SUBSET S : Cardinality(U) = k /\ SumFunctionOnSet(f, U) # h[U]
  OBVIOUS
<1>4. SumFunctionOnSet(f, U) =
         IF U = {} THEN 0 ELSE f[Pick(U)] + SumFunctionOnSet(f, U \ {Pick(U)})
  BY FS_Subset, SumUnrolls
<1>5. U # {}
  BY <1>3, <1>4
<1>6. /\ Pick(U) \in U /\ U \ {Pick(U)} \in SUBSET S
      /\ Cardinality(U \ {Pick(U)}) = k - 1 /\ k \in Nat
  BY <1>3, <1>5, PickSmaller, FS_CardinalityType
<1>7. k - 1 \in Nat
  BY <1>3, <1>5, <1>6, FS_EmptySet, FS_Subset
<1>8. SumFunctionOnSet(f, U \ {Pick(U)}) = h[U \ {Pick(U)}]
  BY <1>2, <1>6, <1>7
<1>9. h[U] = f[Pick(U)] + h[U \ {Pick(U)}]
  BY <1>6
<1> QED
  BY <1>3, <1>4, <1>5, <1>8, <1>9

LEMMA TwoParts ==
    ASSUME NEW A, IsFiniteSet(A), NEW B, IsFiniteSet(B), A \cap B = {}
    PROVE  Cardinality(A \cup B) = Cardinality(A) + Cardinality(B)
<1>1. Cardinality(A) \in Nat /\ Cardinality(B) \in Nat
  BY FS_CardinalityType
<1>2. Cardinality(A \cap B) = 0
  BY FS_EmptySet, Zenon
<1>3. Cardinality(A \cup B) = Cardinality(A) + Cardinality(B) - Cardinality(A \cap B)
  BY FS_Union, Zenon
<1> QED
  BY <1>1, <1>2, <1>3

(* A finite set has as many elements as its parts have together. *)
LEMMA SumOfParts ==
    ASSUME NEW M, IsFiniteSet(M), NEW f, IsFiniteSet(DOMAIN f),
           NEW part, \A m \in M : part[m] \in DOMAIN f,
           \A w \in DOMAIN f : f[w] = Cardinality({m \in M : part[m] = w})
    PROVE  SumFunction(f) = Cardinality(M)
<1> DEFINE in(U) == {m \in M : part[m] \in U}
           h == [U \in SUBSET DOMAIN f |-> Cardinality(in(U))]
<1>1. h[{}] = 0
  BY FS_EmptySet
<1>2. ASSUME NEW U \in SUBSET DOMAIN f, NEW x \in U
      PROVE  h[U] = f[x] + h[U \ {x}]
  <2> DEFINE own == {m \in M : part[m] = x}
  <2>1. /\ IsFiniteSet(own) /\ IsFiniteSet(in(U \ {x}))
        /\ Cardinality(own) \in Nat /\ Cardinality(in(U \ {x})) \in Nat
    BY FS_Subset, FS_CardinalityType
  <2>2. in(U) = own \cup in(U \ {x}) /\ own \cap in(U \ {x}) = {}
    OBVIOUS
  <2>3. h[U] = Cardinality(in(U)) /\ h[U \ {x}] = Cardinality(in(U \ {x})) /\ f[x] = Cardinality(own)
    OBVIOUS
  <2> DEFINE rest == in(U \ {x})
  <2> HIDE DEF own, in, h, rest
  <2>4. Cardinality(own \cup rest) = Cardinality(own) + Cardinality(rest)
    <3>1. IsFiniteSet(own) /\ IsFiniteSet(rest) /\ own \cap rest = {}
      BY <2>1, <2>2 DEF rest
    <3> QED
      BY <3>1, TwoParts
  <2> QED
    BY <2>2, <2>3, <2>4 DEF rest
<1>3. h[DOMAIN f] = Cardinality(M)
  <2>1. in(DOMAIN f) = M
    OBVIOUS
  <2> QED
    BY <2>1
<1> HIDE DEF h
<1>4. SumFunctionOnSet(f, DOMAIN f) = h[DOMAIN f]
  BY <1>1, <1>2, SumIs
<1> QED
  BY <1>3, <1>4 DEF SumFunction

LEMMA Images ==
    ASSUME NEW I, IsFiniteSet(I), NEW f
    PROVE  IsFiniteSet({f[i] : i \in I})
<1> DEFINE g == [i \in I |-> f[i]]
<1>1. g \in Surjection(I, {f[i] : i \in I})
  BY DEF Surjection
<1> QED
  BY <1>1, FS_Surjection

(* How many there are from a on and before b, for each of a kind. *)
LEMMA Stretch ==
    ASSUME NEW a \in Nat, NEW b \in Nat, a <= b, NEW x
    PROVE  IsFiniteSet({x} \X (a .. b - 1)) /\ Cardinality({x} \X (a .. b - 1)) = b - a
<1> PICK c \in Int : c = b - 1
  OBVIOUS
<1>1. IsFiniteSet(a .. c) /\ Cardinality(a .. c) = b - a
  <2>1. IsFiniteSet(a .. c) /\ Cardinality(a .. c) = IF a > c THEN 0 ELSE c - a + 1
    <3>1. a \in Int
      OBVIOUS
    <3> QED
      BY <3>1, FS_Interval, Zenon
  <2> QED
    BY <2>1
<1> DEFINE s == a .. c  one == {x}
<1>2. IsFiniteSet(one) /\ Cardinality(one) = 1
  BY FS_Singleton
<1>3. IsFiniteSet(s) /\ Cardinality(s) = b - a
  BY <1>1
<1> HIDE DEF s, one
<1>4. IsFiniteSet(one \X s) /\ Cardinality(one \X s) = Cardinality(one) * Cardinality(s)
  BY <1>2, <1>3, FS_Product, Zenon
<1>5. Cardinality(one \X s) = b - a
  BY <1>2, <1>3, <1>4
<1> QED
  BY <1>4, <1>5 DEF s, one

(* Tasks that never share a worker: what they take together is not more than  *)
(* all workers have.                                                          *)
LEMMA TimeFits ==
    ASSUME NEW I, IsFiniteSet(I), NEW W, IsFiniteSet(W), NEW tasks, NEW E \in Nat,
           \A i \in I : /\ tasks[i].worker \in W
                        /\ tasks[i].start \in Nat /\ tasks[i].end \in Nat
                        /\ tasks[i].start <= tasks[i].end /\ tasks[i].end <= E,
           \A i, j \in I : i # j /\ tasks[i].worker = tasks[j].worker
                              => \/ tasks[i].end <= tasks[j].start
                                 \/ tasks[j].end <= tasks[i].start,
           NEW f, f = [i \in I |-> Duration(tasks[i])]
    PROVE  SumFunction(f) \in Nat /\ SumFunction(f) <= E * Cardinality(W)
<1> DEFINE all == W \X (0 .. E - 1)
           On(m, i) == /\ tasks[i].worker = m[1]
                       /\ tasks[i].start <= m[2] /\ m[2] < tasks[i].end
           M == {m \in all : \E i \in I : On(m, i)}
           part == [m \in M |-> CHOOSE i \in I : On(m, i)]
<1>1. IsFiniteSet(all) /\ Cardinality(all) = Cardinality(W) * E /\ Cardinality(W) \in Nat
  <2>1. IsFiniteSet(0 .. E - 1) /\ Cardinality(0 .. E - 1) = E
    BY FS_Interval
  <2> QED
    BY <2>1, FS_Product, FS_CardinalityType
<1>2. IsFiniteSet(M) /\ Cardinality(M) <= Cardinality(all) /\ Cardinality(M) \in Nat
  BY <1>1, FS_Subset, FS_CardinalityType
<1>3. ASSUME NEW m \in M PROVE part[m] \in I /\ On(m, part[m])
  OBVIOUS
<1>4. ASSUME NEW m \in M, NEW i \in I, NEW j \in I, On(m, i), On(m, j) PROVE i = j
  <2>1. m[2] \in Int
    OBVIOUS
  <2> QED
    BY <1>4, <2>1
<1>5. ASSUME NEW i \in I
      PROVE  f[i] = Cardinality({m \in M : part[m] = i})
  <2> DEFINE span == tasks[i].start .. tasks[i].end - 1  own == {tasks[i].worker} \X span
  <2>1. {m \in M : part[m] = i} = {m \in M : On(m, i)}
    BY <1>3, <1>4
  <2>2. {m \in M : On(m, i)} = own
    <3>1. ASSUME NEW m \in M, On(m, i) PROVE m \in own
      BY <3>1
    <3>2. ASSUME NEW m \in own PROVE m \in M /\ On(m, i)
      <4>1. m = <<m[1], m[2]>> /\ m[1] = tasks[i].worker /\ m[2] \in span
        OBVIOUS
      <4> QED
        BY <4>1
    <3> QED
      BY <3>1, <3>2
  <2>3. Cardinality(own) = tasks[i].end - tasks[i].start
    BY Stretch
  <2> HIDE DEF own
  <2> QED
    BY <2>1, <2>2, <2>3 DEF Duration
<1>6. DOMAIN f = I
  OBVIOUS
<1> HIDE DEF M, part, all
<1>7. SumFunction(f) = Cardinality(M)
  BY <1>2, <1>3, <1>5, <1>6, SumOfParts
<1> QED
  BY <1>1, <1>2, <1>7

(* A rounded ratio is at least m, or at most m, when what is divided is. *)
LEMMA RatioBounds ==
    ASSUME NEW a \in Nat, NEW b \in Nat, b > 0, NEW m \in Nat
    PROVE  /\ Thousandths(a, b) \in Nat
           /\ 2000 * a + b >= 2 * b * m => Thousandths(a, b) >= m
           /\ 2000 * a + b < 2 * b * (m + 1) => Thousandths(a, b) <= m
<1> DEFINE x == 2000 * a + b  d == 2 * b  q == x \div d
<1>1. x \in Nat /\ d \in Nat /\ d > 0
  OBVIOUS
<1>2. q = Thousandths(a, b)
  BY DEF Thousandths
<1> HIDE DEF x, d
<1>3. q \in Int /\ d * q <= x /\ x < d * (q + 1)
  BY <1>1
<1> HIDE DEF q
<1>4. q >= 0
  <2>1. CASE q + 1 <= 0
    <3>1. d * (q + 1) <= 0
      BY <1>1, <1>3, <2>1
    <3> QED
      BY <1>1, <1>3, <3>1
  <2> QED
    BY <1>3, <2>1
<1>5. x >= d * m => q >= m
  <2>1. CASE q + 1 <= m
    <3>1. d * (q + 1) <= d * m
      BY <1>1, <1>3, <2>1
    <3> QED
      BY <1>1, <1>3, <3>1
  <2> QED
    BY <1>3, <2>1
<1>6. x < d * (m + 1) => q <= m
  <2>1. CASE q >= m + 1
    <3>1. d * q >= d * (m + 1)
      BY <1>1, <1>3, <2>1
    <3> QED
      BY <1>1, <1>3, <3>1
  <2> QED
    BY <1>3, <2>1
<1> QED
  BY <1>2, <1>3, <1>4, <1>5, <1>6 DEF x, d

(* A part of the whole is at most all of it. *)
LEMMA ShareFits ==
    ASSUME NEW part \in Nat, NEW whole \in Nat, part <= whole, whole > 0
    PROVE  Thousandths(part, whole) <= 1000
<1>1. 2000 * part + whole < 2 * whole * (1000 + 1)
  OBVIOUS
<1> QED
  BY <1>1, RatioBounds

(* What is no smaller is at least the whole. *)
LEMMA ShareExceeds ==
    ASSUME NEW part \in Nat, NEW whole \in Nat, whole <= part, whole > 0
    PROVE  Thousandths(part, whole) >= 1000
<1>1. 2000 * part + whole >= 2 * whole * 1000
  OBVIOUS
<1> QED
  BY <1>1, RatioBounds

(* To divide by the whole or more makes nothing larger. *)
LEMMA RatioShrinks ==
    ASSUME NEW s \in Nat, NEW b \in Nat, b >= 1000
    PROVE  Thousandths(s, b) <= s
<1> PICK c \in Nat : c = b - 1000
  OBVIOUS
<1>1. 2 * b * (s + 1) = 2000 * s + 2 * (c * s) + 2 * b /\ c * s \in Nat
  OBVIOUS
<1>2. 2000 * s + b < 2 * b * (s + 1)
  BY <1>1
<1> QED
  BY <1>2, RatioBounds

-----------------------------------------------------------------------------
(* Summaries of a sample.                                                  *)

LEMMA LowestHighest ==
    ASSUME NEW s, Sample(s), NEW x \in Range(s)
    PROVE  Lowest(s) <= x /\ x <= Highest(s)
<1>1. DOMAIN s # {} /\ IsFiniteSet(DOMAIN s) /\ \A i \in DOMAIN s : s[i] \in Int
  BY DEF Range, Sample
<1>2. \E y \in Range(s) : \A z \in Range(s) : y <= z
  BY <1>1, Least DEF Range
<1>3. \E y \in Range(s) : \A z \in Range(s) : y >= z
  <2>1. PICK i \in DOMAIN s : \A j \in DOMAIN s : s[j] <= s[i]
    BY <1>1, Greatest
  <2>2. \A j \in DOMAIN s : s[i] >= s[j]
    BY <1>1, <2>1
  <2> QED
    BY <2>2 DEF Range
<1>4. \A z \in Range(s) : Min(Range(s)) <= z
  BY <1>2, Zenon DEF Min
<1>5. \A z \in Range(s) : Max(Range(s)) >= z
  BY <1>3, Zenon DEF Max
<1>6. Max(Range(s)) \in Int
  BY <1>1, <1>3 DEF Max, Range
<1>7. x \in Int
  BY <1>1 DEF Range
<1> QED
  BY <1>1, <1>4, <1>5, <1>6, <1>7 DEF Lowest, Highest

(* The nearest rank is the least number that covers p percent of n. *)
LEMMA RankIs ==
    ASSUME NEW n \in Nat, n > 0, NEW p \in 1 .. 100
    PROVE  /\ Rank(n, p) \in 1 .. n
           /\ 100 * Rank(n, p) >= p * n
           /\ 100 * (Rank(n, p) - 1) < p * n
<1> PICK m \in Nat : m = p * n /\ m > 0 /\ m <= 100 * n
  <2>1. p * n \in Nat /\ p * n > 0 /\ p * n <= 100 * n
    OBVIOUS
  <2> QED
    BY <2>1
<1>1. /\ (m + 99) \div 100 \in 1 .. n
      /\ 100 * ((m + 99) \div 100) >= m
      /\ 100 * ((m + 99) \div 100 - 1) < m
  OBVIOUS
<1>2. Rank(n, p) = (m + 99) \div 100
  BY <1>1 DEF Rank, Clamp
<1> QED
  BY <1>1, <1>2

(* A percentile of a sample is the least of its values that p percent of it *)
(* are not above.                                                           *)
LEMMA PercentileIs ==
    ASSUME NEW s, Sample(s), DOMAIN s # {}, NEW p \in 1 .. 100, NEW x, x = Percentile(s, p)
    PROVE  /\ x \in Range(s) /\ 100 * Cardinality(UpTo(s, x)) >= p * Count(s)
           /\ \A y \in Range(s) : 100 * Cardinality(UpTo(s, y)) >= p * Count(s) => x <= y
<1> PICK n \in Nat : n = Count(s) /\ n > 0
  BY FS_EmptySet, FS_CardinalityType DEF Count, Sample
<1> PICK k : k = Rank(n, p)
  OBVIOUS
<1> PICK m \in Nat : m = p * n
  OBVIOUS
<1>1. k \in 1 .. n /\ 100 * k >= m /\ 100 * (k - 1) < m
  BY RankIs
<1>2. x = Sorted(s)[k] /\ x \in Int /\ IsNth(x, s, k)
  BY <1>1, SortedAt DEF Percentile
<1>3. Cardinality(UpTo(s, x)) \in Nat /\ Cardinality(Below(s, x)) \in Nat
  BY CountsType
<1>4. ASSUME NEW y \in Range(s), 100 * Cardinality(UpTo(s, y)) >= m PROVE x <= y
  <2>1. y \in Int
    BY DEF Range, Sample
  <2>2. ASSUME y < x PROVE FALSE
    <3>1. Cardinality(UpTo(s, y)) <= Cardinality(Below(s, x))
      BY <1>2, <2>1, <2>2, UpToBelow
    <3>2. Cardinality(UpTo(s, y)) \in Nat
      BY CountsType
    <3> QED
      BY <1>1, <1>2, <1>3, <1>4, <3>1, <3>2 DEF IsNth
  <2> QED
    BY <1>2, <2>1, <2>2
<1> QED
  BY <1>1, <1>2, <1>3, <1>4 DEF IsNth

(* Half of a sample is not above its middle values, and half not below. *)
LEMMA MiddleIs ==
    ASSUME NEW s, Sample(s), NEW n \in Nat, n = Count(s),
           NEW k \in 1 .. n, 2 * (k - 1) <= n, 2 * (n - k) <= n, NEW x, x = Sorted(s)[k]
    PROVE  /\ 2 * Cardinality({i \in DOMAIN s : s[i] < x}) <= n
           /\ 2 * Cardinality({i \in DOMAIN s : s[i] > x}) <= n
<1> DEFINE above == {i \in DOMAIN s : s[i] > x}  upto == UpTo(s, x)  all == DOMAIN s
<1>1. x \in Int /\ IsNth(x, s, k)
  BY SortedAt
<1>2. /\ Cardinality(Below(s, x)) \in Nat /\ Cardinality(upto) \in Nat /\ IsFiniteSet(upto)
  BY CountsType
<1>3. above \cup upto = all /\ above \cap upto = {} /\ IsFiniteSet(all) /\ above \in SUBSET all
  <2>1. \A i \in DOMAIN s : (s[i] > x \/ s[i] <= x) /\ ~(s[i] > x /\ s[i] <= x)
    BY <1>1 DEF Sample
  <2>2. above \in SUBSET all /\ upto \in SUBSET all
    BY Zenon DEF UpTo
  <2>3. above \cup upto = all /\ above \cap upto = {}
    BY <2>1, <2>2, Zenon DEF UpTo
  <2> QED
    BY <2>2, <2>3, Zenon DEF Sample
<1>4. Cardinality(all) = n
  BY DEF Count
<1> HIDE DEF above, upto, all
<1>5. IsFiniteSet(above) /\ Cardinality(above) \in Nat
  BY <1>3, FS_Subset, FS_CardinalityType
<1>6. Cardinality(above) + Cardinality(upto) = n
  BY <1>2, <1>3, <1>4, <1>5, TwoParts
<1>7. Cardinality(Below(s, x)) < k /\ k <= Cardinality(upto)
  BY <1>1 DEF IsNth, upto
<1>8. 2 * Cardinality(Below(s, x)) <= n /\ 2 * Cardinality(above) <= n
  BY <1>2, <1>5, <1>6, <1>7
<1> QED
  BY <1>8 DEF Below, above

(* The lower of the middle values is not above the mean of the two. *)
LEMMA MedianIs ==
    ASSUME NEW s, Sample(s), NEW n \in Nat, n = Count(s), n > 0,
           NEW x, x = Sorted(s)[(n - 1) \div 2 + 1]
    PROVE  /\ x \in Int /\ TwiceMedian(s) \in Int /\ 2 * x <= TwiceMedian(s)
           /\ n % 2 = 1 => 2 * x = TwiceMedian(s)
<1> PICK m \in Nat : m = n \div 2
  OBVIOUS
<1>1. CASE n % 2 = 1
  <2>1. (n - 1) \div 2 = m /\ m + 1 \in 1 .. n
    BY <1>1
  <2>2. x \in Int /\ TwiceMedian(s) = 2 * x
    BY <1>1, <2>1, SortedAt DEF TwiceMedian
  <2> QED
    BY <2>2
<1>2. CASE n % 2 # 1
  <2>1. (n - 1) \div 2 + 1 = m /\ m \in 1 .. n /\ m + 1 \in m .. n /\ m + 1 \in 1 .. n
    BY <1>2
  <2> PICK y : y = Sorted(s)[m + 1]
    OBVIOUS
  <2>2. TwiceMedian(s) = x + y
    BY <1>2, <2>1 DEF TwiceMedian
  <2>3. x \in Int /\ y \in Int /\ x <= y
    BY <2>1, SortedAt, SortedAscends
  <2> QED
    BY <1>2, <2>2, <2>3
<1> QED
  BY <1>1, <1>2
=============================================================================
