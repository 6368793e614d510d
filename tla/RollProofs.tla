----------------------------- MODULE RollProofs -----------------------------
(***************************************************************************)
(* Pool::draw lands on exactly one stocked tier, for every number of       *)
(* tiers, every weight, every stock and every hash word; and the induction *)
(* that this and the other recursive definitions of the project rest on.   *)
(***************************************************************************)
EXTENDS Roll, FiniteSetTheorems, SequenceTheorems, WellFoundedInduction, TLAPS

-----------------------------------------------------------------------------
(* Induction over the natural numbers, with a set in the place of a        *)
(* predicate, and the existence of recursive functions.                    *)

\* A non-empty set of naturals has a least element.
LEMMA LeastElement ==
    ASSUME NEW T, T \subseteq Nat, T # {}
    PROVE  \E x \in T : \A y \in T : x <= y
<1> DEFINE R == {ss \in Nat \X Nat : ss[1] < ss[2]}
<1>1. IsWellFoundedOn(R, Nat)
  BY NatLessThanWellFounded DEF OpToRel
<1>2. PICK x \in T : \A y \in T : ~ (<<y, x>> \in R)
  <2> HIDE DEF R
  <2> QED
    BY <1>1, WFMin
<1>3. ASSUME NEW y \in T PROVE x <= y
  <2>1. x \in Nat /\ y \in Nat
    OBVIOUS
  <2>2. y < x => <<y, x>> \in R
    BY <2>1
  <2> QED
    BY <1>2, <2>1, <2>2
<1> QED
  BY <1>3

\* A set that holds every number whose predecessors it holds is all of them.
LEMMA StrongInduction ==
    ASSUME NEW S, \A n \in Nat : (\A k \in Nat : k < n => k \in S) => n \in S
    PROVE  \A n \in Nat : n \in S
<1> DEFINE T == Nat \ S
<1> SUFFICES ASSUME T # {} PROVE FALSE
  OBVIOUS
<1>1. PICK x \in T : \A y \in T : x <= y
  <2>1. T \subseteq Nat
    OBVIOUS
  <2> HIDE DEF T
  <2> QED
    BY <2>1, LeastElement
<1>2. \A k \in Nat : k < x => k \in S
  BY <1>1
<1> QED
  BY <1>2

\* Step by step.
LEMMA SetInduction ==
    ASSUME NEW S, 0 \in S, \A n \in Nat : n \in S => n + 1 \in S
    PROVE  \A n \in Nat : n \in S
<1>1. ASSUME NEW n \in Nat, \A k \in Nat : k < n => k \in S PROVE n \in S
  <2>1. CASE n = 0
    BY <2>1
  <2>2. CASE n # 0
    <3>1. n - 1 \in Nat /\ n - 1 < n /\ (n - 1) + 1 = n
      BY <2>2
    <3> QED
      BY <1>1, <3>1
  <2> QED
    BY <2>1, <2>2
<1> QED
  BY <1>1, StrongInduction

\* From the half of each number.
LEMMA HalvingInduction ==
    ASSUME NEW S, 0 \in S, \A n \in Nat \ {0} : n \div 2 \in S => n \in S
    PROVE  \A n \in Nat : n \in S
<1>1. ASSUME NEW n \in Nat, \A k \in Nat : k < n => k \in S PROVE n \in S
  <2>1. n # 0 => n \div 2 \in Nat /\ n \div 2 < n
    OBVIOUS
  <2> QED
    BY <1>1, <2>1
<1> QED
  BY <1>1, StrongInduction

\* The recursion f[x] = IF x \in Base THEN B[x] ELSE F[x, f[p[x]]] on D, with values
\* in V: each argument outside Base depends on one other, of smaller measure m.
Recursive(D, V, Base, B, F, p, m, N) ==
    /\ B \in [D -> V] /\ F \in [D \X V -> V]
    /\ p \in [D -> D]
    /\ N \in Nat /\ m \in [D -> 0 .. N]
    /\ \A x \in D : x \notin Base => m[p[x]] < m[x]

\* It has a solution.
LEMMA RecursionExists ==
    ASSUME NEW D, NEW V, NEW Base, NEW B, NEW F, NEW p, NEW m, NEW N,
           Recursive(D, V, Base, B, F, p, m, N)
    PROVE  \E g \in [D -> V] :
             \A x \in D : g[x] = IF x \in Base THEN B[x] ELSE F[<<x, g[p[x]]>>]
<1>0. /\ B \in [D -> V] /\ F \in [D \X V -> V]
      /\ p \in [D -> D]
      /\ N \in Nat /\ m \in [D -> 0 .. N]
      /\ \A x \in D : x \notin Base => m[p[x]] < m[x]
  BY DEF Recursive
<1> DEFINE Below(n) == {x \in D : m[x] < n}
           Solves(g, n) ==
             /\ g \in [D -> V]
             /\ \A x \in Below(n) :
                  g[x] = IF x \in Base THEN B[x] ELSE F[<<x, g[p[x]]>>]
           S == {n \in Nat : \E g : Solves(g, n)}
<1>1. 0 \in S
  <2>1. Solves(B, 0)
    BY <1>0
  <2> QED
    BY <2>1
<1>2. ASSUME NEW n \in Nat, n \in S PROVE n + 1 \in S
  <2>1. PICK g : Solves(g, n)
    BY <1>2
  <2> DEFINE h == [x \in D |-> IF x \in Below(n) THEN g[x]
                               ELSE IF x \in Base THEN B[x] ELSE F[<<x, g[p[x]]>>]]
  <2>2. g \in [D -> V]
    BY <2>1
  <2>3. h \in [D -> V]
    BY <1>0, <2>2
  <2>4. ASSUME NEW x \in Below(n + 1), x \notin Base PROVE h[p[x]] = g[p[x]]
    <3>1. m[x] \in Nat /\ m[p[x]] \in Nat /\ p[x] \in D
      BY <1>0
    <3>2. m[p[x]] < m[x] /\ m[x] < n + 1
      BY <1>0, <2>4
    <3>3. p[x] \in Below(n)
      BY <3>1, <3>2
    <3> QED
      BY <3>1, <3>3
  <2>5. ASSUME NEW x \in Below(n + 1)
        PROVE  h[x] = IF x \in Base THEN B[x] ELSE F[<<x, h[p[x]]>>]
    <3>1. CASE x \in Below(n)
      <4>1. h[x] = g[x]
        BY <3>1
      <4>2. g[x] = IF x \in Base THEN B[x] ELSE F[<<x, g[p[x]]>>]
        BY <2>1, <3>1
      <4> QED
        BY <2>4, <4>1, <4>2
    <3>2. CASE x \notin Below(n)
      <4>1. h[x] = IF x \in Base THEN B[x] ELSE F[<<x, g[p[x]]>>]
        BY <3>2
      <4> QED
        BY <2>4, <4>1
    <3> QED
      BY <3>1, <3>2
  <2>6. Solves(h, n + 1)
    BY <2>3, <2>5
  <2> HIDE DEF h, Solves
  <2> QED
    BY <2>6
<1>3. N + 1 \in S
  <2>1. \A n \in Nat : n \in S => n + 1 \in S
    BY <1>2
  <2> HIDE DEF S
  <2> QED
    BY <1>0, <1>1, <2>1, SetInduction
<1>4. PICK g : Solves(g, N + 1)
  BY <1>3
<1>5. Below(N + 1) = D
  <2>1. \A x \in D : m[x] < N + 1
    BY <1>0
  <2> QED
    BY <2>1
<1> QED
  BY <1>4, <1>5

-----------------------------------------------------------------------------
(* Scans in ascending order.                                               *)

\* A function on 1 .. m is a sequence of that length.
LEMMA SeqOfFunction ==
    ASSUME NEW S, NEW m \in Nat, NEW e \in [1 .. m -> S]
    PROVE  e \in Seq(S) /\ Len(e) = m
<1>1. e \in Seq(S)
  BY SeqDef
<1>2. Len(e) \in Nat /\ 1 .. m = 1 .. Len(e)
  BY <1>1, LenProperties
<1>3. PICK l \in Nat : l = Len(e)
  BY <1>2
<1>4. m # 0 => m \in 1 .. m
  OBVIOUS
<1>5. l # 0 => l \in 1 .. l
  OBVIOUS
<1>6. m <= l
  BY <1>2, <1>3, <1>4
<1>7. l <= m
  BY <1>2, <1>3, <1>5
<1> QED
  BY <1>1, <1>3, <1>6, <1>7

\* The members of S below x.
Below(S, x) == {q \in S : q < x}

\* They grow with x, by one at each member of S.
LEMMA BelowGrows ==
    ASSUME NEW n \in Nat, NEW S \in SUBSET (0 .. n - 1)
    PROVE  /\ IsFiniteSet(S) /\ Cardinality(S) \in Nat
           /\ \A x : IsFiniteSet(Below(S, x)) /\ Cardinality(Below(S, x)) \in Nat
           /\ Cardinality(Below(S, 0)) = 0
           /\ Below(S, n) = S
           /\ \A x \in S : Cardinality(Below(S, x + 1)) = Cardinality(Below(S, x)) + 1
           /\ \A x \in 0 .. n - 1 :
                x \notin S => Cardinality(Below(S, x + 1)) = Cardinality(Below(S, x))
           /\ \A x, y \in S : x < y =>
                Cardinality(Below(S, x)) < Cardinality(Below(S, y))
<1>a. \A q \in S : q \in Int /\ 0 <= q /\ q < n
  OBVIOUS
<1>1. IsFiniteSet(0 .. n - 1)
  BY FS_Interval
<1>2. IsFiniteSet(S)
  BY <1>1, FS_Subset
<1>3. \A x : IsFiniteSet(Below(S, x)) /\ Cardinality(Below(S, x)) \in Nat
  <2> TAKE x
  <2>1. Below(S, x) \in SUBSET S
    BY DEF Below
  <2> QED
    BY <1>2, <2>1, FS_Subset, FS_CardinalityType
<1>4. Cardinality(Below(S, 0)) = 0
  <2>1. \A q \in S : ~ (q < 0)
    BY <1>a
  <2>2. Below(S, 0) = {}
    BY <2>1 DEF Below
  <2> QED
    BY <2>2, FS_EmptySet
<1>5. Below(S, n) = S
  BY <1>a DEF Below
<1>6. ASSUME NEW x \in 0 .. n - 1
      PROVE  Cardinality(Below(S, x + 1))
               = IF x \in S THEN Cardinality(Below(S, x)) + 1
                 ELSE Cardinality(Below(S, x))
  <2>1. CASE x \in S
    <3>1. ~ (x < x) /\ \A q \in S : q < x + 1 <=> q < x \/ q = x
      BY <1>a, <2>1
    <3>2. Below(S, x + 1) = Below(S, x) \cup {x} /\ x \notin Below(S, x)
      BY <2>1, <3>1, Zenon DEF Below
    <3> QED
      BY <1>3, <2>1, <3>2, FS_AddElement
  <2>2. CASE x \notin S
    <3>1. \A q \in S : q < x + 1 <=> q < x
      BY <2>2
    <3>2. Below(S, x + 1) = Below(S, x)
      BY <3>1 DEF Below
    <3> QED
      BY <2>2, <3>2
  <2> QED
    BY <2>1, <2>2
<1>7. ASSUME NEW x \in S, NEW y \in S, x < y
      PROVE  Cardinality(Below(S, x)) < Cardinality(Below(S, y))
  <2>1. x \in 0 .. n - 1 /\ y \in 0 .. n - 1
    OBVIOUS
  <2>2. Below(S, x + 1) \subseteq Below(S, y)
    <3>1. \A q \in S : q < x + 1 => q < y
      BY <1>a, <1>7
    <3> QED
      BY <3>1 DEF Below
  <2>3. Cardinality(Below(S, x + 1)) <= Cardinality(Below(S, y))
    BY <1>3, <2>2, FS_Subset
  <2>4. Cardinality(Below(S, x + 1)) = Cardinality(Below(S, x)) + 1
    BY <1>6, <2>1
  <2> QED
    BY <1>3, <2>3, <2>4
<1>8. Cardinality(S) \in Nat
  BY <1>2, FS_CardinalityType
<1> QED
  BY <1>2, <1>3, <1>4, <1>5, <1>6, <1>7, <1>8

\* A member of S is the one that its rank names.
LEMMA NthOfRank ==
    ASSUME NEW n \in Nat, NEW S \in SUBSET (0 .. n - 1), NEW p \in S
    PROVE  Nth(S, Cardinality(Below(S, p))) = p
<1>0. /\ \A x : Cardinality(Below(S, x)) \in Nat
      /\ \A x, y \in S : x < y => Cardinality(Below(S, x)) < Cardinality(Below(S, y))
  BY BelowGrows
<1>1. ASSUME NEW q \in S, Cardinality(Below(S, q)) = Cardinality(Below(S, p))
      PROVE  q = p
  <2>1. q \in 0 .. n - 1 /\ p \in 0 .. n - 1
    OBVIOUS
  <2>2. ~ (q < p) /\ ~ (p < q)
    BY <1>0, <1>1
  <2> QED
    BY <2>1, <2>2
<1> QED
  BY <1>1 DEF Nth, Below

\* Every rank below the size of S names a member.
LEMMA NthHasRank ==
    ASSUME NEW n \in Nat, NEW S \in SUBSET (0 .. n - 1), NEW k \in Nat, k < Cardinality(S)
    PROVE  Nth(S, k) \in S /\ Cardinality(Below(S, Nth(S, k))) = k
<1> DEFINE T == {m \in 0 .. n : k < Cardinality(Below(S, m))}
<1>a. Cardinality(Below(S, 0)) = 0
  BY BelowGrows
<1>0. /\ \A x \in S : Cardinality(Below(S, x + 1)) = Cardinality(Below(S, x)) + 1
      /\ \A x \in 0 .. n - 1 :
           x \notin S => Cardinality(Below(S, x + 1)) = Cardinality(Below(S, x))
  BY BelowGrows
<1>1. n \in T
  BY BelowGrows
<1>2. PICK m \in T : \A l \in T : m <= l
  <2>1. T \subseteq Nat
    OBVIOUS
  <2> HIDE DEF T
  <2> QED
    BY <1>1, <2>1, LeastElement
<1>3. m # 0
  BY <1>2, <1>a
<1>4. PICK p \in 0 .. n - 1 : m = p + 1
  <2>1. m - 1 \in 0 .. n - 1 /\ m = (m - 1) + 1
    BY <1>2, <1>3
  <2> QED
    BY <2>1
<1>5. p \notin T /\ p \in 0 .. n
  BY <1>2, <1>4
<1>6. ~ (k < Cardinality(Below(S, p))) /\ k < Cardinality(Below(S, p + 1))
  BY <1>2, <1>4, <1>5
<1>7. PICK c \in Nat : c = Cardinality(Below(S, p))
  BY BelowGrows
<1>8. p \in S /\ c = k
  BY <1>0, <1>6, <1>7
<1> QED
  BY <1>7, <1>8, NthOfRank

\* The list of a finite set of numbers: each member once, in order.
LEMMA AscendingLists ==
    ASSUME NEW n \in Nat, NEW S \in SUBSET (0 .. n - 1)
    PROVE  /\ Cardinality(S) \in Nat /\ Len(Ascending(S)) = Cardinality(S)
           /\ Ascending(S) \in [1 .. Cardinality(S) -> S] /\ Ascending(S) \in Seq(S)
           /\ \A i, j \in 1 .. Cardinality(S) :
                i < j => Ascending(S)[i] < Ascending(S)[j]
           /\ S = {Ascending(S)[i] : i \in 1 .. Cardinality(S)}
<1> DEFINE e == Ascending(S)
<1>1. PICK m \in Nat : m = Cardinality(S)
  BY BelowGrows
<1>2. ASSUME NEW i \in 1 .. m
      PROVE  e[i] \in S /\ e[i] \in 0 .. n - 1 /\ Cardinality(Below(S, e[i])) = i - 1
  <2>1. e[i] = Nth(S, i - 1)
    BY <1>1 DEF Ascending
  <2>2. i - 1 \in Nat /\ i - 1 < m
    OBVIOUS
  <2> QED
    BY <1>1, <2>1, <2>2, NthHasRank
<1>3. e = [i \in 1 .. m |-> e[i]]
  BY <1>1 DEF Ascending
<1> HIDE DEF e
<1>4. e \in [1 .. m -> S]
  BY <1>2, <1>3
<1>5. e \in Seq(S) /\ Len(e) = m
  BY <1>4, SeqOfFunction
<1>6. ASSUME NEW i \in 1 .. m, NEW j \in 1 .. m, i < j PROVE e[i] < e[j]
  <2>1. e[i] \in Int /\ e[j] \in Int
    BY <1>2
  <2>2. Cardinality(Below(S, e[i])) < Cardinality(Below(S, e[j]))
    BY <1>2, <1>6
  <2>3. ~ (e[j] < e[i]) /\ e[i] # e[j]
    <3>1. e[j] < e[i] => Cardinality(Below(S, e[j])) < Cardinality(Below(S, e[i]))
      BY <1>2, BelowGrows
    <3>2. Cardinality(Below(S, e[j])) \in Nat /\ Cardinality(Below(S, e[i])) \in Nat
      BY BelowGrows
    <3> QED
      BY <2>2, <3>1, <3>2
  <2> QED
    BY <2>1, <2>3
<1>7. ASSUME NEW p \in S PROVE \E i \in 1 .. m : e[i] = p
  <2>1. PICK k \in Nat : k = Cardinality(Below(S, p))
    BY BelowGrows
  <2>2. Nth(S, k) = p
    BY <2>1, NthOfRank
  <2>3. k < m
    <3>1. p \in 0 .. n - 1 /\ p \in Int
      OBVIOUS
    <3>2. Below(S, p) \subseteq S /\ p \notin Below(S, p)
      BY <3>1 DEF Below
    <3>3. Below(S, p) # S
      BY <3>2
    <3>4. IsFiniteSet(S) /\ k <= m /\ (k = m => Below(S, p) = S)
      BY <1>1, <2>1, <3>2, BelowGrows, FS_Subset
    <3> QED
      BY <3>3, <3>4
  <2>4. k + 1 \in 1 .. m /\ (k + 1) - 1 = k
    BY <2>3
  <2>5. e[k + 1] = p
    BY <1>1, <2>2, <2>4 DEF e, Ascending
  <2> QED
    BY <2>4, <2>5
<1>8. S = {e[i] : i \in 1 .. m}
  BY <1>2, <1>7
<1> QED
  BY <1>1, <1>4, <1>5, <1>6, <1>8 DEF e

-----------------------------------------------------------------------------
(* The running sum.                                                        *)

\* g holds the sums of f over the first 0, 1, ..., m tiers.
Sums(f, g, m) ==
    /\ g \in [0 .. m -> Nat]
    /\ g[0] = 0
    /\ \A i \in 1 .. m : g[i] = g[i - 1] + f[i - 1]

\* The recursion has a solution.
LEMMA SumExists ==
    ASSUME NEW n \in Nat, NEW f \in [0 .. n - 1 -> Nat] PROVE \E g : Sums(f, g, n)
<1> DEFINE S == {m \in Nat : m <= n => \E g : Sums(f, g, m)}
<1>1. 0 \in S
  <2>1. Sums(f, [i \in 0 .. 0 |-> 0], 0)
    BY DEF Sums
  <2> QED
    BY <2>1
<1>2. ASSUME NEW k \in Nat, k \in S PROVE k + 1 \in S
  <2> SUFFICES ASSUME k + 1 <= n PROVE \E h : Sums(f, h, k + 1)
    OBVIOUS
  <2>1. PICK g : Sums(f, g, k)
    BY <1>2
  <2> DEFINE h == [i \in 0 .. k + 1 |-> IF i <= k THEN g[i] ELSE g[k] + f[k]]
  <2>2. g \in [0 .. k -> Nat] /\ f[k] \in Nat /\ g[k] \in Nat
    BY <2>1 DEF Sums
  <2>3. h \in [0 .. k + 1 -> Nat]
    BY <2>2
  <2>4. h[0] = 0
    BY <2>1 DEF Sums
  <2>5. \A i \in 1 .. k + 1 : h[i] = h[i - 1] + f[i - 1]
    BY <2>1, <2>2 DEF Sums
  <2>6. Sums(f, h, k + 1)
    BY <2>3, <2>4, <2>5 DEF Sums
  <2> QED
    BY <2>6
<1>3. n \in S
  <2> HIDE DEF S
  <2> QED
    BY <1>1, <1>2, SetInduction
<1> QED
  BY <1>3

\* SumBelow is that solution.
LEMMA SumUnfolds ==
    ASSUME NEW n \in Nat, NEW f \in [0 .. n - 1 -> Nat]
    PROVE  /\ SumBelow(n, f, 0) = 0
           /\ \A m \in 1 .. n : SumBelow(n, f, m) = SumBelow(n, f, m - 1) + f[m - 1]
<1> DEFINE Def(g) == [i \in 0 .. n |-> IF i = 0 THEN 0 ELSE g[i - 1] + f[i - 1]]
           sum == CHOOSE g : g = Def(g)
<1>1. \A m : SumBelow(n, f, m) = sum[m]
  BY DEF SumBelow
<1>2. \E g : g = Def(g)
  <2>1. PICK g : Sums(f, g, n)
    BY SumExists
  <2>2. g = Def(g)
    BY <2>1 DEF Sums
  <2> QED
    BY <2>2
<1>3. sum = Def(sum)
  BY <1>2
<1> HIDE DEF sum
<1>4. sum[0] = 0 /\ \A m \in 1 .. n : sum[m] = sum[m - 1] + f[m - 1]
  BY <1>3
<1> QED
  BY <1>1, <1>4

\* The sums are natural numbers.
LEMMA SumType ==
    ASSUME NEW n \in Nat, NEW f \in [0 .. n - 1 -> Nat]
    PROVE  \A m \in 0 .. n : SumBelow(n, f, m) \in Nat
<1> DEFINE S == {m \in Nat : m <= n => SumBelow(n, f, m) \in Nat}
<1>1. 0 \in S
  BY SumUnfolds
<1>2. ASSUME NEW m \in Nat, m \in S PROVE m + 1 \in S
  <2> SUFFICES ASSUME m + 1 <= n PROVE SumBelow(n, f, m + 1) \in Nat
    OBVIOUS
  <2>1. m + 1 \in 1 .. n /\ (m + 1) - 1 = m /\ f[m] \in Nat
    OBVIOUS
  <2>2. SumBelow(n, f, m + 1) = SumBelow(n, f, m) + f[m]
    BY <2>1, SumUnfolds
  <2>3. SumBelow(n, f, m) \in Nat
    BY <1>2
  <2> QED
    BY <2>1, <2>2, <2>3
<1>3. \A m \in Nat : m \in S
  <2> HIDE DEF S
  <2> QED
    BY <1>1, <1>2, SetInduction
<1> QED
  BY <1>3

\* They grow with the number of tiers.
LEMMA SumMonotone ==
    ASSUME NEW n \in Nat, NEW f \in [0 .. n - 1 -> Nat], NEW l \in 0 .. n
    PROVE  \A m \in 0 .. n : l <= m => SumBelow(n, f, l) <= SumBelow(n, f, m)
<1> DEFINE S == {k \in Nat : l + k <= n => SumBelow(n, f, l) <= SumBelow(n, f, l + k)}
<1>0. l \in Nat
  OBVIOUS
<1>1. 0 \in S
  BY <1>0, SumType
<1>2. ASSUME NEW k \in Nat, k \in S PROVE k + 1 \in S
  <2> SUFFICES ASSUME l + (k + 1) <= n
               PROVE  SumBelow(n, f, l) <= SumBelow(n, f, l + (k + 1))
    OBVIOUS
  <2>1. PICK m \in Nat : m = l + k
    BY <1>0
  <2>2. /\ m + 1 = l + (k + 1) /\ m \in 0 .. n
        /\ m + 1 \in 1 .. n /\ m + 1 \in 0 .. n
        /\ (m + 1) - 1 = m /\ f[m] \in Nat
    BY <1>0, <2>1
  <2>3. SumBelow(n, f, m + 1) = SumBelow(n, f, m) + f[m]
    BY <2>2, SumUnfolds
  <2>4. SumBelow(n, f, l) <= SumBelow(n, f, m)
    <3>1. l + k <= n
      BY <1>0
    <3> QED
      BY <1>2, <2>1, <3>1
  <2>5. SumBelow(n, f, l) \in Nat /\ SumBelow(n, f, m) \in Nat
    BY <2>2, SumType
  <2>6. PICK x \in Nat, y \in Nat, z \in Nat :
          x = SumBelow(n, f, l) /\ y = SumBelow(n, f, m) /\ z = f[m]
    BY <2>2, <2>5
  <2>7. x <= y + z
    BY <2>4, <2>6
  <2>8. SumBelow(n, f, l + (k + 1)) = y + z
    BY <2>2, <2>3, <2>6
  <2> QED
    BY <2>6, <2>7, <2>8
<1>3. \A k \in Nat : k \in S
  <2> HIDE DEF S
  <2> QED
    BY <1>1, <1>2, SetInduction
<1>4. ASSUME NEW m \in 0 .. n, l <= m PROVE SumBelow(n, f, l) <= SumBelow(n, f, m)
  <2>1. m - l \in Nat /\ l + (m - l) = m /\ l + (m - l) <= n
    BY <1>0, <1>4
  <2>2. m - l \in S
    BY <1>3, <2>1
  <2> QED
    BY <2>1, <2>2
<1> QED
  BY <1>4

\* The sum of a stretch of g is the difference of two sums.
LEMMA SumOfStretch ==
    ASSUME NEW n \in Nat, NEW g \in [0 .. n - 1 -> Nat], NEW c \in Nat, NEW m \in Nat,
           c + m <= n, NEW f \in [0 .. m - 1 -> Nat], \A i \in 0 .. m - 1 : f[i] = g[c + i]
    PROVE  SumBelow(n, g, c) + SumBelow(m, f, m) = SumBelow(n, g, c + m)
<1> DEFINE S == {k \in Nat : k <= m =>
                   SumBelow(n, g, c) + SumBelow(m, f, k) = SumBelow(n, g, c + k)}
<1>0. \A k \in 0 .. n : SumBelow(n, g, k) \in Nat
  BY SumType
<1>1. 0 \in S
  <2>1. SumBelow(m, f, 0) = 0
    BY SumUnfolds
  <2>2. c \in 0 .. n /\ c + 0 = c
    OBVIOUS
  <2>3. SumBelow(n, g, c) \in Nat
    BY <1>0, <2>2
  <2> QED
    BY <2>1, <2>2, <2>3
<1>2. ASSUME NEW k \in Nat, k \in S PROVE k + 1 \in S
  <2> SUFFICES ASSUME k + 1 <= m
               PROVE  SumBelow(n, g, c) + SumBelow(m, f, k + 1) = SumBelow(n, g, c + (k + 1))
    OBVIOUS
  <2>1. /\ k + 1 \in 1 .. m /\ (k + 1) - 1 = k /\ k \in 0 .. m /\ k \in 0 .. m - 1
        /\ c + (k + 1) \in 1 .. n /\ (c + (k + 1)) - 1 = c + k
        /\ c \in 0 .. n /\ c + k \in 0 .. n - 1 /\ c + k \in 0 .. n
    OBVIOUS
  <2>2. SumBelow(m, f, k + 1) = SumBelow(m, f, k) + f[k]
    BY <2>1, SumUnfolds
  <2>3. SumBelow(n, g, c + (k + 1)) = SumBelow(n, g, c + k) + g[c + k]
    BY <2>1, SumUnfolds
  <2>4. SumBelow(n, g, c) + SumBelow(m, f, k) = SumBelow(n, g, c + k)
    BY <1>2, <2>1
  <2>5. f[k] = g[c + k] /\ f[k] \in Nat
    BY <2>1
  <2>6. SumBelow(m, f, k) \in Nat /\ SumBelow(n, g, c) \in Nat
    BY <1>0, <2>1, SumType
  <2> HIDE DEF S
  <2> QED
    BY <2>2, <2>3, <2>4, <2>5, <2>6
<1>3. m \in S
  <2> HIDE DEF S
  <2> QED
    BY <1>1, <1>2, SetInduction
<1> QED
  BY <1>3

\* And with the numbers added up.
LEMMA SumOrdered ==
    ASSUME NEW n \in Nat, NEW f \in [0 .. n - 1 -> Nat], NEW g \in [0 .. n - 1 -> Nat],
           \A i \in 0 .. n - 1 : f[i] <= g[i]
    PROVE  \A m \in 0 .. n : SumBelow(n, f, m) <= SumBelow(n, g, m)
<1> DEFINE S == {m \in Nat : m <= n => SumBelow(n, f, m) <= SumBelow(n, g, m)}
<1>1. 0 \in S
  BY SumUnfolds
<1>2. ASSUME NEW m \in Nat, m \in S PROVE m + 1 \in S
  <2> SUFFICES ASSUME m + 1 <= n PROVE SumBelow(n, f, m + 1) <= SumBelow(n, g, m + 1)
    OBVIOUS
  <2>1. m + 1 \in 1 .. n /\ (m + 1) - 1 = m /\ m \in 0 .. n - 1 /\ m \in 0 .. n
    OBVIOUS
  <2>2. /\ SumBelow(n, f, m + 1) = SumBelow(n, f, m) + f[m]
        /\ SumBelow(n, g, m + 1) = SumBelow(n, g, m) + g[m]
    BY <2>1, SumUnfolds
  <2>3. SumBelow(n, f, m) <= SumBelow(n, g, m) /\ f[m] <= g[m]
    BY <1>2, <2>1
  <2>4. SumBelow(n, f, m) \in Nat /\ SumBelow(n, g, m) \in Nat
        /\ f[m] \in Nat /\ g[m] \in Nat
    BY <2>1, SumType
  <2> QED
    BY <2>2, <2>3, <2>4
<1>3. \A m \in Nat : m \in S
  <2> HIDE DEF S
  <2> QED
    BY <1>1, <1>2, SetInduction
<1> QED
  BY <1>3

-----------------------------------------------------------------------------
(* One draw.                                                               *)

\* Weights w and stocks a of n tiers: what is in stock weighs something.
Odds(n, w, a) ==
    /\ n \in Nat /\ w \in [0 .. n - 1 -> Nat] /\ a \in [0 .. n - 1 -> Nat]
    /\ \A t \in 0 .. n - 1 : a[t] > 0 => w[t] > 0

\* The roll at which the walk reaches tier t; the last bound is the total.
Bound(n, w, a, t) == SumBelow(n, Shares(n, w, a), t)

\* The bounds are increasing, by the share of each tier.
LEMMA Bounds ==
    ASSUME NEW n, NEW w, NEW a, Odds(n, w, a)
    PROVE  /\ Bound(n, w, a, 0) = 0 /\ Bound(n, w, a, n) = Total(n, w, a)
           /\ \A m \in 0 .. n : Bound(n, w, a, m) \in Nat
           /\ \A t \in 0 .. n - 1 :
                /\ Share(w, a, t) \in Nat
                /\ Bound(n, w, a, t + 1) = Bound(n, w, a, t) + Share(w, a, t)
           /\ \A l, m \in 0 .. n : l <= m => Bound(n, w, a, l) <= Bound(n, w, a, m)
<1>0. n \in Nat
  BY DEF Odds
<1>1. \A t \in 0 .. n - 1 : Share(w, a, t) \in Nat
  BY DEF Odds, Share
<1>2. /\ Shares(n, w, a) \in [0 .. n - 1 -> Nat]
      /\ \A t \in 0 .. n - 1 : Shares(n, w, a)[t] = Share(w, a, t)
  BY <1>1 DEF Shares
<1>3. ASSUME NEW t \in 0 .. n - 1
      PROVE  Bound(n, w, a, t + 1) = Bound(n, w, a, t) + Share(w, a, t)
  <2>1. t + 1 \in 1 .. n /\ (t + 1) - 1 = t
    BY <1>0
  <2> QED
    BY <1>0, <1>2, <2>1, SumUnfolds DEF Bound
<1>4. \A l, m \in 0 .. n : l <= m => Bound(n, w, a, l) <= Bound(n, w, a, m)
  BY <1>0, <1>2, SumMonotone DEF Bound
<1> QED
  BY <1>0, <1>1, <1>2, <1>3, <1>4, SumUnfolds, SumType DEF Bound, Total

\* A prize that is left gives its tier a share of the total.
LEMMA TotalPositive ==
    ASSUME NEW n, NEW w, NEW a, Odds(n, w, a), \E t \in 0 .. n - 1 : a[t] > 0
    PROVE  Total(n, w, a) \in Nat /\ Total(n, w, a) > 0
<1>0. n \in Nat
  BY DEF Odds
<1>1. PICK t \in 0 .. n - 1 : a[t] > 0
  OBVIOUS
<1>2. Share(w, a, t) > 0
  BY <1>1 DEF Odds, Share, Stocked
<1>3. t + 1 \in 0 .. n /\ t \in 0 .. n /\ n \in 0 .. n /\ t + 1 <= n
  BY <1>0
<1>4. /\ Bound(n, w, a, t) \in Nat /\ Bound(n, w, a, t + 1) \in Nat
      /\ Total(n, w, a) \in Nat /\ Share(w, a, t) \in Nat
  BY <1>3, Bounds
<1>5. /\ Bound(n, w, a, t + 1) = Bound(n, w, a, t) + Share(w, a, t)
      /\ Bound(n, w, a, t + 1) <= Total(n, w, a)
  BY <1>3, Bounds
<1> QED
  BY <1>2, <1>4, <1>5

\* A roll between two bounds selects the tier between them, and no other.
LEMMA TierOfRoll ==
    ASSUME NEW n, NEW w, NEW a, Odds(n, w, a),
           NEW x, NEW r \in Nat, r = x % Total(n, w, a), NEW t \in 0 .. n - 1,
           Bound(n, w, a, t) <= r, r < Bound(n, w, a, t + 1)
    PROVE  Stocked(a, t) /\ DrawTier(n, w, a, x) = {t}
<1> DEFINE B(u) == Bound(n, w, a, u)
           hits(u) == Hits(n, w, a, x, u)
<1>0. n \in Nat
  BY DEF Odds
<1>1. \A u \in 0 .. n - 1 :
        /\ B(u) \in Nat /\ B(u + 1) \in Nat /\ Share(w, a, u) \in Nat
        /\ B(u + 1) = B(u) + Share(w, a, u)
        /\ w[u] \in Nat
  <2> TAKE u \in 0 .. n - 1
  <2>1. u \in 0 .. n /\ u + 1 \in 0 .. n
    BY <1>0
  <2>2. w[u] \in Nat
    BY DEF Odds
  <2> QED
    BY <2>1, <2>2, Bounds
<1>2. Stocked(a, t)
  BY <1>1 DEF Share
<1>3. ASSUME NEW u \in 0 .. n - 1, Stocked(a, u) PROVE hits(u) <=> r < B(u + 1)
  <2>1. RollAt(n, w, a, x, u) = r - B(u) /\ Share(w, a, u) = w[u]
    BY <1>3 DEF RollAt, Bound, Share
  <2>2. PICK b \in Nat : b = B(u)
    BY <1>1
  <2>3. PICK y \in Nat : y = w[u]
    BY <1>1
  <2>4. B(u + 1) = b + y
    BY <1>1, <2>1, <2>2, <2>3
  <2>5. hits(u) <=> r - b < y
    BY <2>1, <2>2, <2>3 DEF Hits
  <2> QED
    BY <2>4, <2>5
<1>4. ASSUME NEW u \in 0 .. n - 1, u < t PROVE ~ (Stocked(a, u) /\ hits(u))
  <2>1. u + 1 <= t /\ u + 1 \in 0 .. n /\ t \in 0 .. n
    BY <1>0, <1>4
  <2>2. B(u + 1) <= B(t)
    BY <2>1, Bounds
  <2>3. ~ (r < B(u + 1))
    BY <1>1, <2>2
  <2> HIDE DEF hits
  <2> QED
    BY <1>3, <2>3
<1>5. hits(t)
  BY <1>2, <1>3
<1>6. \A u \in 0 .. t - 1 : u \in 0 .. n - 1 /\ u < t
  BY <1>0
<1>7. DrawTier(n, w, a, x)
        = {u \in 0 .. n - 1 : /\ Stocked(a, u) /\ hits(u)
                              /\ \A v \in 0 .. u - 1 : ~ (Stocked(a, v) /\ hits(v))}
  BY DEF DrawTier
<1> HIDE DEF hits
<1>8. t \in DrawTier(n, w, a, x)
  BY <1>2, <1>4, <1>5, <1>6, <1>7
<1>9. ASSUME NEW v \in DrawTier(n, w, a, x) PROVE v = t
  <2>1. v \in 0 .. n - 1 /\ Stocked(a, v) /\ hits(v)
        /\ \A u \in 0 .. v - 1 : ~ (Stocked(a, u) /\ hits(u))
    BY <1>7
  <2>2. ~ (v < t)
    BY <1>4, <2>1
  <2>3. ~ (t < v)
    <3>1. t < v => t \in 0 .. v - 1
      BY <2>1, <1>0
    <3> QED
      BY <1>2, <1>5, <2>1, <3>1
  <2> QED
    BY <1>0, <2>1, <2>2, <2>3
<1> QED
  BY <1>2, <1>8, <1>9

\* Every roll below the total lies between two bounds: the walk finds the first
\* bound above it before it runs off the end.
LEMMA RollFalls ==
    ASSUME NEW n, NEW w, NEW a, Odds(n, w, a), NEW r \in Nat, r < Total(n, w, a)
    PROVE  \E t \in 0 .. n - 1 : Bound(n, w, a, t) <= r /\ r < Bound(n, w, a, t + 1)
<1> DEFINE B(u) == Bound(n, w, a, u)
           T == {m \in 0 .. n : r < B(m)}
<1>0. n \in Nat
  BY DEF Odds
<1>1. n \in T
  BY <1>0, Bounds
<1>2. T \subseteq Nat
  BY <1>0
<1>3. PICK m \in T : \A l \in T : m <= l
  <2> HIDE DEF T
  <2> QED
    BY <1>1, <1>2, LeastElement
<1>4. m # 0
  BY <1>3, Bounds
<1>5. m \in 1 .. n /\ m - 1 \in 0 .. n - 1 /\ m - 1 \in 0 .. n
      /\ (m - 1) + 1 = m /\ m - 1 < m
  BY <1>0, <1>3, <1>4
<1>6. m - 1 \notin T
  BY <1>0, <1>3, <1>5
<1>7. ~ (r < B(m - 1)) /\ r < B(m)
  BY <1>3, <1>5, <1>6
<1>8. B(m - 1) \in Nat
  BY <1>5, Bounds
<1> QED
  BY <1>5, <1>7, <1>8

\* Whatever the hash, one tier is drawn, and it is stocked.
LEMMA DrawLands ==
    ASSUME NEW n, NEW w, NEW a, Odds(n, w, a), \E t \in 0 .. n - 1 : a[t] > 0,
           NEW x \in Nat
    PROVE  \E t \in 0 .. n - 1 :
             /\ a[t] > 0 /\ DrawTier(n, w, a, x) = {t}
             /\ Bound(n, w, a, t) <= x % Total(n, w, a)
             /\ x % Total(n, w, a) < Bound(n, w, a, t + 1)
<1>1. Total(n, w, a) \in Nat /\ Total(n, w, a) > 0
  BY TotalPositive
<1>2. PICK r \in Nat : r = x % Total(n, w, a) /\ r < Total(n, w, a)
  BY <1>1
<1>3. PICK t \in 0 .. n - 1 : Bound(n, w, a, t) <= r /\ r < Bound(n, w, a, t + 1)
  BY <1>2, RollFalls
<1>4. Stocked(a, t) /\ DrawTier(n, w, a, x) = {t}
  BY <1>2, <1>3, TierOfRoll
<1> QED
  BY <1>2, <1>3, <1>4 DEF Stocked

\* The weights of the tiers in stock add up to no more than all of them.
LEMMA TotalBounded ==
    ASSUME NEW n, NEW w, NEW a, Odds(n, w, a)
    PROVE  Total(n, w, a) <= SumBelow(n, w, n)
<1>1. n \in Nat /\ n \in 0 .. n /\ w \in [0 .. n - 1 -> Nat]
  BY DEF Odds
<1>2. /\ Shares(n, w, a) \in [0 .. n - 1 -> Nat]
      /\ \A t \in 0 .. n - 1 : Shares(n, w, a)[t] <= w[t]
  BY <1>1 DEF Odds, Shares, Share
<1> QED
  BY <1>1, <1>2, SumOrdered DEF Total

\* A number below the divisor is its own remainder.
LEMMA SmallRemainder == \A n \in Nat : \A k \in 0 .. n - 1 : k % n = k
<1> SUFFICES ASSUME NEW n \in Nat, NEW k \in 0 .. n - 1 PROVE k % n = k
  OBVIOUS
<1>1. PICK q \in Int : q = k \div n
  OBVIOUS
<1>2. k = n * q + (k % n) /\ k % n \in 0 .. n - 1
  BY <1>1
<1>3. q = 0
  <2>1. q >= 1 => n * q >= n
    OBVIOUS
  <2>2. q <= -1 => n * q <= -n
    OBVIOUS
  <2> QED
    BY <1>2, <2>1, <2>2
<1> QED
  BY <1>2, <1>3
=============================================================================
