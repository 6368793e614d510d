---------------------------- MODULE BatchesProofs ----------------------------
(***************************************************************************)
(* The packing loop loses nothing, keeps the order, fits every packet and  *)
(* needs the fewest transactions, for every list of instructions, every    *)
(* set of keys and every packet size.                                      *)
(***************************************************************************)
EXTENDS Batches, RollProofs

-----------------------------------------------------------------------------
(* The size of a run of consecutive instructions.                          *)

\* The bytes of all the instructions of l, from 0.
LEMMA SizesNatural ==
    ASSUME NEW l \in Seq(Shapes)
    PROVE  Len(l) \in Nat /\ InstructionSizes(l) \in [0 .. Len(l) - 1 -> Nat]
<1>1. Len(l) \in Nat /\ \A i \in 0 .. Len(l) - 1 : l[i + 1] \in Shapes
  <2>1. Len(l) \in Nat /\ \A i \in 1 .. Len(l) : l[i] \in Shapes
    BY LenProperties
  <2> QED
    BY <2>1
<1>2. \A ix \in Shapes : Cardinality(ix.keys) \in Nat /\ ix.data \in Nat
  BY BatchAssumption, FS_CardinalityType
<1>3. Overhead \in Nat
  BY BatchAssumption
<1>4. \A i \in 0 .. Len(l) - 1 :
        Overhead + Cardinality(l[i + 1].keys) + l[i + 1].data \in Nat
  BY <1>1, <1>2, <1>3
<1> QED
  BY <1>1, <1>4 DEF InstructionSizes

\* The keys a group names are finitely many.
LEMMA KeysFinite ==
    ASSUME NEW l \in Seq(Shapes)
    PROVE  IsFiniteSet(Keys(l)) /\ Cardinality(Keys(l)) \in Nat
<1> DEFINE T == {l[i].keys : i \in DOMAIN l}
           f == [i \in DOMAIN l |-> l[i].keys]
<1>1. IsFiniteSet(DOMAIN l) /\ \A i \in DOMAIN l : l[i] \in Shapes
  <2>1. Len(l) \in Nat /\ DOMAIN l = 1 .. Len(l) /\ \A i \in 1 .. Len(l) : l[i] \in Shapes
    BY LenProperties
  <2>2. IsFiniteSet(1 .. Len(l))
    BY <2>1, FS_Interval
  <2> QED
    BY <2>1, <2>2
<1>2. f \in Surjection(DOMAIN l, T)
  BY DEF Surjection
<1>3. IsFiniteSet(T)
  BY <1>1, <1>2, FS_Surjection
<1>4. \A k \in T : IsFiniteSet(k)
  BY <1>1, BatchAssumption
<1>5. IsFiniteSet(UNION T)
  BY <1>3, <1>4, FS_UNION
<1>6. Keys(l) = (UNION T) \cup {Payer}
  BY DEF Keys
<1>7. IsFiniteSet(Keys(l))
  BY <1>5, <1>6, FS_AddElement
<1> QED
  BY <1>7, FS_CardinalityType

\* Sizes are numbers.
LEMMA SizeNatural ==
    ASSUME NEW l \in Seq(Shapes)
    PROVE  /\ transaction_size(l) \in Nat /\ Limit \in Nat
           /\ TooLarge(l) <=> ~ Fits(l)
<1>1. PICK k \in Nat : k = Cardinality(Keys(l))
  BY KeysFinite
<1>2. PICK s \in Nat : s = SumBelow(Len(l), InstructionSizes(l), Len(l))
  <2>1. Len(l) \in 0 .. Len(l)
    BY SizesNatural
  <2> QED
    BY <2>1, SizesNatural, SumType
<1>3. Base \in Nat /\ KeySize \in Nat /\ Limit \in Nat
  BY BatchAssumption
<1>4. transaction_size(l) = Base + KeySize * k + s
  BY <1>1, <1>2 DEF transaction_size
<1>5. Base + KeySize * k + s \in Nat
  BY <1>3
<1> QED
  BY <1>3, <1>4, <1>5 DEF TooLarge, Fits

\* The instructions of l from the (a + 1)st to the bth.
Run(l, a, b) == SubSeq(l, a + 1, b)

LEMMA RunFacts ==
    ASSUME NEW S, NEW l \in Seq(S), NEW a \in 0 .. Len(l), NEW b \in a .. Len(l)
    PROVE  /\ Run(l, a, b) \in Seq(S) /\ Len(Run(l, a, b)) = b - a
           /\ a \in Nat /\ b \in Nat /\ Len(l) \in Nat
           /\ \A i \in 1 .. b - a : Run(l, a, b)[i] = l[a + i]
           /\ DOMAIN Run(l, a, b) = 1 .. b - a
<1>1. Len(l) \in Nat /\ a \in Nat /\ b \in Nat /\ a <= b /\ b <= Len(l)
  BY LenProperties
<1>2. \A i \in a + 1 .. b : l[i] \in S
  BY <1>1, LenProperties
<1>3. a + 1 \in Int /\ b \in Int /\ b - (a + 1) + 1 = b - a
      /\ (IF a + 1 <= b THEN b - (a + 1) + 1 ELSE 0) = b - a
  BY <1>1
<1>4. /\ Run(l, a, b) \in Seq(S) /\ Len(Run(l, a, b)) = b - a
      /\ \A i \in 1 .. b - a : Run(l, a, b)[i] = l[(a + 1) + i - 1]
  BY <1>2, <1>3, SubSeqProperties DEF Run
<1>5. \A i \in 1 .. b - a : (a + 1) + i - 1 = a + i
  BY <1>1
<1> QED
  BY <1>1, <1>4, <1>5, LenProperties

\* A run inside another names no more keys.
LEMMA RunKeys ==
    ASSUME NEW l \in Seq(Shapes), NEW a \in 0 .. Len(l), NEW b \in a .. Len(l),
           NEW c \in a .. b, NEW d \in c .. b
    PROVE  Keys(Run(l, c, d)) \subseteq Keys(Run(l, a, b))
<1>0. /\ Len(l) \in Nat /\ a \in Nat /\ b \in Nat /\ c \in Nat /\ d \in Nat
      /\ a <= c /\ c <= d /\ d <= b /\ b <= Len(l)
  BY LenProperties
<1>1. c \in 0 .. Len(l) /\ d \in c .. Len(l)
  BY <1>0
<1>2. /\ DOMAIN Run(l, a, b) = 1 .. b - a /\ DOMAIN Run(l, c, d) = 1 .. d - c
      /\ \A i \in 1 .. b - a : Run(l, a, b)[i] = l[a + i]
      /\ \A i \in 1 .. d - c : Run(l, c, d)[i] = l[c + i]
  BY <1>1, RunFacts
<1>3. ASSUME NEW i \in 1 .. d - c
      PROVE  \E j \in 1 .. b - a : Run(l, c, d)[i] = Run(l, a, b)[j]
  <2>1. (c - a) + i \in 1 .. b - a /\ a + ((c - a) + i) = c + i
    BY <1>0
  <2> QED
    BY <1>2, <2>1
<1> QED
  BY <1>2, <1>3 DEF Keys

\* Nor has it more instructions.
LEMMA RunSizes ==
    ASSUME NEW l \in Seq(Shapes), NEW a \in 0 .. Len(l), NEW b \in a .. Len(l)
    PROVE  SumBelow(Len(l), InstructionSizes(l), a)
             + SumBelow(b - a, InstructionSizes(Run(l, a, b)), b - a)
               = SumBelow(Len(l), InstructionSizes(l), b)
<1>0. /\ Len(l) \in Nat /\ a \in Nat /\ b \in Nat /\ a <= b /\ b <= Len(l) /\ b - a \in Nat
      /\ a + (b - a) = b
  BY LenProperties
<1>1. /\ Run(l, a, b) \in Seq(Shapes) /\ Len(Run(l, a, b)) = b - a
      /\ \A i \in 1 .. b - a : Run(l, a, b)[i] = l[a + i]
  BY RunFacts
<1>2. InstructionSizes(Run(l, a, b)) \in [0 .. (b - a) - 1 -> Nat]
  BY <1>1, SizesNatural
<1>3. ASSUME NEW i \in 0 .. (b - a) - 1
      PROVE  InstructionSizes(Run(l, a, b))[i] = InstructionSizes(l)[a + i]
  <2>1. i + 1 \in 1 .. b - a /\ a + (i + 1) = (a + i) + 1 /\ a + i \in 0 .. Len(l) - 1
    BY <1>0
  <2>2. Run(l, a, b)[i + 1] = l[(a + i) + 1]
    BY <1>1, <2>1, SMTT(20)
  <2> QED
    BY <1>1, <2>1, <2>2 DEF InstructionSizes
<1>4. InstructionSizes(l) \in [0 .. Len(l) - 1 -> Nat]
  BY SizesNatural
<1>5. PICK m \in Nat : m = b - a
  BY <1>0
<1>6. a + m <= Len(l) /\ a + m = b
  BY <1>0, <1>5
<1>7. PICK f \in [0 .. m - 1 -> Nat] : f = InstructionSizes(Run(l, a, b))
  BY <1>2, <1>5
<1>n. PICK n \in Nat : n = Len(l)
  BY <1>0
<1>8. PICK g \in [0 .. n - 1 -> Nat] : g = InstructionSizes(l)
  BY <1>4, <1>n
<1>c. PICK c \in Nat : c = a
  BY <1>0
<1>9. \A i \in 0 .. m - 1 : f[i] = g[a + i]
  BY <1>3, <1>5, <1>7, <1>8
<1>10. c + m <= n /\ \A i \in 0 .. m - 1 : f[i] = g[c + i]
  BY <1>6, <1>9, <1>n, <1>c
<1>11. SumBelow(n, g, c) + SumBelow(m, f, m) = SumBelow(n, g, c + m)
  BY <1>10, SumOfStretch
<1> QED
  BY <1>5, <1>6, <1>7, <1>8, <1>11, <1>n, <1>c

\* So what fits still fits without its first and its last instructions.
LEMMA PartFits ==
    ASSUME NEW l \in Seq(Shapes), NEW a \in 0 .. Len(l), NEW b \in a .. Len(l),
           NEW c \in a .. b, NEW d \in c .. b, Fits(Run(l, a, b))
    PROVE  Fits(Run(l, c, d))
<1>0. /\ Len(l) \in Nat /\ a \in Nat /\ b \in Nat /\ c \in Nat /\ d \in Nat
      /\ a <= c /\ c <= d /\ d <= b /\ b <= Len(l)
      /\ c \in 0 .. Len(l) /\ d \in c .. Len(l)
      /\ a \in 0 .. Len(l) /\ b \in 0 .. Len(l) /\ d \in 0 .. Len(l)
  BY LenProperties
<1>1. /\ Run(l, a, b) \in Seq(Shapes) /\ Len(Run(l, a, b)) = b - a
      /\ Run(l, c, d) \in Seq(Shapes) /\ Len(Run(l, c, d)) = d - c
  BY <1>0, RunFacts
<1> DEFINE S(m) == SumBelow(Len(l), InstructionSizes(l), m)
           u == SumBelow(b - a, InstructionSizes(Run(l, a, b)), b - a)
           v == SumBelow(d - c, InstructionSizes(Run(l, c, d)), d - c)
           j == Cardinality(Keys(Run(l, a, b)))
           k == Cardinality(Keys(Run(l, c, d)))
<1>2. v <= u /\ v \in Int /\ u \in Int
  <2>1. InstructionSizes(l) \in [0 .. Len(l) - 1 -> Nat]
    BY SizesNatural
  <2>2. S(a) \in Nat /\ S(b) \in Nat /\ S(c) \in Nat /\ S(d) \in Nat
    BY <1>0, <2>1, SumType
  <2>3. S(a) <= S(c) /\ S(d) <= S(b)
    BY <1>0, <2>1, SumMonotone
  <2>4. S(a) + u = S(b)
    BY RunSizes
  <2>5. S(c) + v = S(d)
    BY <1>0, RunSizes
  <2>6. u \in Nat
    <3>1. InstructionSizes(Run(l, a, b)) \in [0 .. (b - a) - 1 -> Nat]
      BY <1>1, SizesNatural
    <3>2. b - a \in Nat /\ b - a \in 0 .. b - a
      BY <1>0
    <3> QED
      BY <3>1, <3>2, SumType
  <2>7. v \in Nat
    <3>1. InstructionSizes(Run(l, c, d)) \in [0 .. (d - c) - 1 -> Nat]
      BY <1>1, SizesNatural
    <3>2. d - c \in Nat /\ d - c \in 0 .. d - c
      BY <1>0
    <3> QED
      BY <3>1, <3>2, SumType
  <2> HIDE DEF S, u, v
  <2> QED
    BY <2>2, <2>3, <2>4, <2>5, <2>6, <2>7
<1>3. k <= j /\ k \in Nat /\ j \in Nat
  BY <1>0, <1>1, KeysFinite, RunKeys, FS_Subset
<1>4. Base \in Nat /\ KeySize \in Nat /\ Limit \in Nat
  BY BatchAssumption
<1>5. /\ transaction_size(Run(l, a, b)) = Base + KeySize * j + u
      /\ transaction_size(Run(l, c, d)) = Base + KeySize * k + v
  BY <1>1 DEF transaction_size
<1>6. KeySize * k <= KeySize * j /\ KeySize * k \in Nat /\ KeySize * j \in Nat
  <2> HIDE DEF k, j
  <2>1. j - k \in Nat /\ KeySize * (j - k) >= 0
    BY <1>3, <1>4
  <2>2. KeySize * (j - k) = KeySize * j - KeySize * k
    BY <1>3, <1>4
  <2> QED
    BY <1>3, <1>4, <2>1, <2>2
<1> HIDE DEF u, v, j, k
<1>7. Base + KeySize * k + v <= Base + KeySize * j + u
  BY <1>2, <1>4, <1>6
<1>8. Base + KeySize * j + u <= Limit
  BY <1>5 DEF Fits
<1>9. Base + KeySize * k + v <= Limit
  BY <1>2, <1>4, <1>6, <1>7, <1>8
<1> QED
  BY <1>5, <1>9 DEF Fits

-----------------------------------------------------------------------------
(* Groups that cover the first m instructions of l.                        *)

\* Group k is the run of l from at[k - 1] to at[k].
Tiled(l, groups, m, at) ==
    /\ at \in [0 .. Len(groups) -> 0 .. Len(l)]
    /\ at[0] = 0 /\ at[Len(groups)] = m
    /\ \A k \in 1 .. Len(groups) :
         at[k - 1] <= at[k] /\ groups[k] = Run(l, at[k - 1], at[k])

\* Put together again, they are those instructions.
LEMMA TilesFlatten ==
    ASSUME NEW S, NEW l \in Seq(S), NEW groups \in Seq(Seq(S)), NEW m, NEW at,
           Tiled(l, groups, m, at)
    PROVE  FlattenSeq(groups) = Run(l, 0, m)
<1>0. PICK n \in Nat : n = Len(groups)
  BY LenProperties
<1>1. /\ at \in [0 .. n -> 0 .. Len(l)] /\ Len(l) \in Nat
      /\ at[0] = 0 /\ at[n] = m
      /\ \A k \in 1 .. n : at[k - 1] <= at[k] /\ groups[k] = Run(l, at[k - 1], at[k])
  BY <1>0, LenProperties DEF Tiled
<1>2. CASE n = 0
  <2>1. FlattenSeq(groups) = groups /\ groups = <<>>
    BY <1>0, <1>2, EmptySeq DEF FlattenSeq
  <2>2. m = 0
    BY <1>1, <1>2
  <2>3. Run(l, 0, m) = <<>>
    BY <2>2, SubSeqEmpty DEF Run
  <2> QED
    BY <2>1, <2>3
<1>3. CASE n # 0
  <2> DEFINE Def(g) == [i \in 1 .. n |-> IF i = 1 THEN groups[i] ELSE g[i - 1] \o groups[i]]
             flat == CHOOSE g : g = Def(g)
             h == [i \in 1 .. n |-> Run(l, 0, at[i])]
  <2>1. FlattenSeq(groups) = flat[n]
    BY <1>0, <1>3 DEF FlattenSeq
  <2>2. ASSUME NEW i \in 1 .. n, i # 1
        PROVE  Run(l, 0, at[i - 1]) \o groups[i] = Run(l, 0, at[i])
    <3>1. /\ i - 1 \in 1 .. n /\ at[i - 1] \in Nat /\ at[i] \in Nat /\ at[i - 1] <= at[i]
          /\ at[i] <= Len(l)
      BY <1>1, <2>2
    <3>2. /\ 0 + 1 \in 1 .. Len(l) + 1 /\ at[i - 1] \in (0 + 1) - 1 .. Len(l)
          /\ at[i] \in at[i - 1] .. Len(l)
      BY <1>1, <3>1
    <3>3. SubSeq(l, 0 + 1, at[i - 1]) \o SubSeq(l, at[i - 1] + 1, at[i])
            = SubSeq(l, 0 + 1, at[i])
      BY <3>2, ConcatAdjacentSubSeq
    <3> QED
      BY <1>1, <3>3 DEF Run
  <2>3. h = Def(h)
    <3>1. ASSUME NEW i \in 1 .. n
          PROVE  h[i] = IF i = 1 THEN groups[i] ELSE h[i - 1] \o groups[i]
      <4>1. CASE i = 1
        <5>1. i - 1 = 0
          BY <4>1
        <5> QED
          BY <1>1, <4>1, <5>1
      <4>2. CASE i # 1
        <5>1. i - 1 \in 1 .. n
          BY <4>2
        <5>2. h[i - 1] = Run(l, 0, at[i - 1]) /\ h[i] = Run(l, 0, at[i])
          BY <5>1
        <5> QED
          BY <2>2, <4>2, <5>2
      <4> QED
        BY <4>1, <4>2
    <3> HIDE DEF h
    <3>2. h = [i \in 1 .. n |-> h[i]]
      BY DEF h
    <3> QED
      BY <3>1, <3>2
  <2>4. flat = Def(flat)
    <3> HIDE DEF h
    <3> QED
      BY <2>3
  <2> DEFINE T == {k \in Nat : k + 1 <= n => flat[k + 1] = Run(l, 0, at[k + 1])}
  <2> HIDE DEF flat
  <2>5. 0 \in T
    <3>1. 0 + 1 \in 1 .. n /\ (0 + 1) - 1 = 0
      BY <1>3
    <3>2. flat[1] = groups[1]
      BY <2>4, <3>1
    <3>3. groups[1] = Run(l, at[0], at[1])
      BY <1>1, <3>1
    <3> QED
      BY <1>1, <3>1, <3>2, <3>3
  <2>6. ASSUME NEW k \in Nat, k \in T PROVE k + 1 \in T
    <3> SUFFICES ASSUME (k + 1) + 1 <= n PROVE flat[(k + 1) + 1] = Run(l, 0, at[(k + 1) + 1])
      OBVIOUS
    <3>1. /\ (k + 1) + 1 \in 1 .. n /\ (k + 1) + 1 # 1 /\ ((k + 1) + 1) - 1 = k + 1
          /\ k + 1 <= n
      OBVIOUS
    <3>2. flat[(k + 1) + 1] = flat[k + 1] \o groups[(k + 1) + 1]
      BY <2>4, <3>1
    <3>3. flat[k + 1] = Run(l, 0, at[k + 1])
      BY <2>6, <3>1
    <3>4. Run(l, 0, at[k + 1]) \o groups[(k + 1) + 1] = Run(l, 0, at[(k + 1) + 1])
      BY <2>2, <3>1
    <3> QED
      BY <3>2, <3>3, <3>4
  <2>7. n - 1 \in Nat /\ (n - 1) + 1 = n
    BY <1>3
  <2>8. n - 1 \in T
    <3> HIDE DEF T
    <3> QED
      BY <2>5, <2>6, <2>7, SetInduction
  <2>9. flat[n] = Run(l, 0, at[n])
    BY <2>7, <2>8
  <2> QED
    BY <1>1, <2>1, <2>9
<1> QED
  BY <1>2, <1>3

\* A scan of an interval from 1 is the identity.
LEMMA AscendingInterval ==
    ASSUME NEW n \in Nat
    PROVE  Ascending(1 .. n) = [i \in 1 .. n |-> i]
<1>1. Cardinality(1 .. n) = n
  <2>1. 1 \in Int /\ n \in Int /\ (IF 1 > n THEN 0 ELSE n - 1 + 1) = n
    OBVIOUS
  <2> QED
    BY <2>1, FS_Interval
<1>2. ASSUME NEW i \in 1 .. n PROVE Nth(1 .. n, i - 1) = i
  <2>1. n + 1 \in Nat /\ 1 .. n \in SUBSET (0 .. (n + 1) - 1)
    OBVIOUS
  <2>2. Below(1 .. n, i) = 1 .. i - 1
    BY DEF Below
  <2>3. Cardinality(1 .. i - 1) = i - 1
    <3>1. 1 \in Int /\ i - 1 \in Int /\ (IF 1 > i - 1 THEN 0 ELSE (i - 1) - 1 + 1) = i - 1
      OBVIOUS
    <3> QED
      BY <3>1, FS_Interval
  <2>4. Nth(1 .. n, Cardinality(Below(1 .. n, i))) = i
    BY <2>1, NthOfRank
  <2> QED
    BY <2>2, <2>3, <2>4
<1> QED
  BY <1>1, <1>2 DEF Ascending

\* Groups that all hold something are all retained.
LEMMA NoneRemoved ==
    ASSUME NEW S, NEW groups \in Seq(S), \A k \in DOMAIN groups : groups[k] # <<>>
    PROVE  NonEmpty(groups) = groups
<1>1. PICK n \in Nat : n = Len(groups)
  BY LenProperties
<1>2. DOMAIN groups = 1 .. n /\ groups = [i \in 1 .. n |-> groups[i]]
  BY <1>1, LenProperties
<1>3. {k \in DOMAIN groups : groups[k] # <<>>} = 1 .. n
  BY <1>2
<1>4. Ascending(1 .. n) = [i \in 1 .. n |-> i]
  BY AscendingInterval
<1>5. NonEmpty(groups) = [i \in 1 .. n |-> groups[i]]
  BY <1>3, <1>4 DEF NonEmpty
<1> QED
  BY <1>2, <1>5

\* If none holds anything, nothing is left.
LEMMA AllRemoved ==
    ASSUME NEW groups, \A k \in DOMAIN groups : groups[k] = <<>>
    PROVE  NonEmpty(groups) = <<>>
<1>1. {k \in DOMAIN groups : groups[k] # <<>>} = {}
  OBVIOUS
<1>2. Ascending({}) = [i \in 1 .. 0 |-> Nth({}, i - 1)]
  BY FS_EmptySet DEF Ascending
<1>3. DOMAIN Ascending({}) = {}
  BY <1>2
<1>4. NonEmpty(groups) = [i \in {} |-> groups[Ascending({})[i]]]
  BY <1>1, <1>3 DEF NonEmpty
<1> QED
  BY <1>4

-----------------------------------------------------------------------------
(* What the loop maintains.                                                *)

\* The groups cover the first m instructions, each fits, and none but the last
\* had room for the instruction after it.  Only an empty list leaves the group
\* the loop starts from empty.
Packed(l, groups, m, at) ==
    /\ Tiled(l, groups, m, at)
    /\ \A k \in 1 .. Len(groups) : Fits(groups[k])
    /\ \A k \in 1 .. Len(groups) - 1 :
         at[k - 1] < at[k] /\ at[k] < m /\ ~ Fits(Run(l, at[k - 1], at[k] + 1))
    /\ Len(groups) > 0 /\ m > 0 => at[Len(groups) - 1] < m
    /\ \A i \in 1 .. m : Fits(<<l[i]>>)

\* One instruction is a run.
LEMMA RunOfOne ==
    ASSUME NEW S, NEW l \in Seq(S), NEW m \in Nat, m < Len(l)
    PROVE  /\ <<l[m + 1]>> = Run(l, m, m + 1) /\ <<l[m + 1]>> \in Seq(S)
           /\ l[m + 1] \in S /\ m + 1 \in 1 .. Len(l)
<1>1. Len(l) \in Nat /\ m \in 0 .. Len(l) /\ m + 1 \in m .. Len(l) /\ m + 1 \in 1 .. Len(l)
  BY LenProperties
<1>2. l[m + 1] \in S
  BY <1>1, LenProperties
<1>3. PICK r : r = Run(l, m, m + 1)
  OBVIOUS
<1>4. /\ r \in Seq(S) /\ Len(r) = (m + 1) - m
      /\ \A i \in 1 .. (m + 1) - m : r[i] = l[m + i]
  BY <1>1, <1>3, RunFacts
<1>5. (m + 1) - m = 1 /\ 1 \in 1 .. 1
  BY <1>1
<1>6. Len(r) = 1 /\ r[1] = l[m + 1]
  BY <1>4, <1>5
<1>7. r = <<l[m + 1]>>
  BY <1>4, <1>6
<1> QED
  BY <1>1, <1>2, <1>3, <1>4, <1>7

\* The last group with the next instruction is a longer run.
LEMMA GrownRun ==
    ASSUME NEW l \in Seq(Shapes), NEW groups \in Seq(Seq(Shapes)), NEW m \in Nat, NEW at,
           Tiled(l, groups, m, at), Len(groups) > 0, m < Len(l)
    PROVE  /\ at[Len(groups) - 1] \in 0 .. m
           /\ Append(groups[Len(groups)], l[m + 1]) = Run(l, at[Len(groups) - 1], m + 1)
           /\ Append(groups[Len(groups)], l[m + 1]) \in Seq(Shapes)
<1>0. PICK n \in Nat : n = Len(groups) /\ n > 0
  BY LenProperties
<1>1. /\ n - 1 \in 0 .. n /\ n \in 1 .. n /\ n \in 0 .. n
      /\ Len(l) \in Nat /\ l[m + 1] \in Shapes
  BY <1>0, LenProperties, RunOfOne
<1>2. PICK a : a = at[n - 1]
  OBVIOUS
<1>3. a \in 0 .. Len(l) /\ at[n] = m /\ a <= m /\ groups[n] = Run(l, a, m)
  BY <1>0, <1>1, <1>2 DEF Tiled
<1>4. m + 1 \in a + 1 .. Len(l) /\ a + 1 \in 1 .. Len(l) /\ (m + 1) - 1 = m
  BY <1>1, <1>3
<1>5. SubSeq(l, a + 1, m + 1) = SubSeq(l, a + 1, m) \o <<l[m + 1]>>
  BY <1>4, SubSeqRecursiveSecond
<1>6. m \in a .. Len(l)
  BY <1>3
<1>7. Run(l, a, m) \in Seq(Shapes)
  BY <1>3, <1>6, RunFacts
<1>8. Append(Run(l, a, m), l[m + 1]) = Run(l, a, m) \o <<l[m + 1]>>
  BY <1>1, <1>7, AppendIsConcat
<1>9. Append(Run(l, a, m), l[m + 1]) \in Seq(Shapes)
  BY <1>1, <1>7, AppendProperties
<1>10. Run(l, a, m + 1) = Run(l, a, m) \o <<l[m + 1]>>
  BY <1>5 DEF Run
<1>11. Append(groups[n], l[m + 1]) = Run(l, a, m + 1)
  BY <1>3, <1>8, <1>10
<1>12. Append(groups[n], l[m + 1]) \in Seq(Shapes)
  BY <1>3, <1>9
<1>13. a \in 0 .. m
  BY <1>3
<1> QED
  BY <1>0, <1>2, <1>11, <1>12, <1>13

\* The groups once ix has joined the last one.
Join(groups, ix) ==
    [groups EXCEPT ![Len(groups)] = Append(groups[Len(groups)], ix)]

\* An instruction that fits joins the last group.
LEMMA PackJoins ==
    ASSUME NEW l \in Seq(Shapes), NEW groups \in Seq(Seq(Shapes)), NEW m \in Nat, NEW at,
           Packed(l, groups, m, at), Len(groups) > 0, m < Len(l),
           Fits(Append(groups[Len(groups)], l[m + 1]))
    PROVE  /\ Join(groups, l[m + 1]) \in Seq(Seq(Shapes))
           /\ Len(Join(groups, l[m + 1])) = Len(groups)
           /\ \E a2 : Packed(l, Join(groups, l[m + 1]), m + 1, a2)
<1>0. PICK n \in Nat : n = Len(groups) /\ n > 0
  BY LenProperties
<1>g. PICK grown : grown = Append(groups[n], l[m + 1])
  OBVIOUS
<1>j. PICK joined : joined = Join(groups, l[m + 1])
  OBVIOUS
<1>i. joined = [groups EXCEPT ![n] = grown]
  BY <1>0, <1>g, <1>j DEF Join
<1>f. Fits(grown)
  BY <1>0, <1>g
<1>1. /\ n - 1 \in 0 .. n /\ n \in 1 .. n /\ n \in 0 .. n /\ n - 1 # n
      /\ Len(l) \in Nat /\ l[m + 1] \in Shapes
  BY <1>0, LenProperties, RunOfOne
<1>t. /\ at \in [0 .. n -> 0 .. Len(l)] /\ at[0] = 0 /\ at[n] = m
      /\ \A k \in 1 .. n : at[k - 1] <= at[k] /\ groups[k] = Run(l, at[k - 1], at[k])
  BY <1>0 DEF Packed, Tiled
<1>p. /\ \A k \in 1 .. n : Fits(groups[k])
      /\ \A k \in 1 .. n - 1 :
           at[k - 1] < at[k] /\ at[k] < m /\ ~ Fits(Run(l, at[k - 1], at[k] + 1))
      /\ \A i \in 1 .. m : Fits(<<l[i]>>)
  BY <1>0 DEF Packed
<1>2. /\ at[n - 1] \in 0 .. m /\ grown = Run(l, at[n - 1], m + 1) /\ grown \in Seq(Shapes)
  BY <1>0, <1>g, GrownRun DEF Packed
<1> DEFINE a2 == [at EXCEPT ![n] = m + 1]
<1>3. joined \in Seq(Seq(Shapes)) /\ Len(joined) = n
  BY <1>0, <1>1, <1>2, <1>i, ExceptSeq
<1>4. \A k \in 1 .. n : joined[k] = IF k = n THEN grown ELSE groups[k]
  BY <1>0, <1>i, LenProperties
<1>5. \A k \in 0 .. n : a2[k] = IF k = n THEN m + 1 ELSE at[k]
  BY <1>t
<1>6. a2 \in [0 .. n -> 0 .. Len(l)]
  BY <1>t
<1> HIDE DEF a2
<1>7. Tiled(l, joined, m + 1, a2)
  <2>1. a2[0] = 0 /\ a2[n] = m + 1
    BY <1>1, <1>5, <1>t, <1>0
  <2>2. ASSUME NEW k \in 1 .. n PROVE a2[k - 1] <= a2[k] /\ joined[k] = Run(l, a2[k - 1], a2[k])
    <3>1. k - 1 \in 0 .. n /\ k - 1 # n /\ k \in 0 .. n
      OBVIOUS
    <3>2. a2[k - 1] = at[k - 1]
      BY <1>5, <3>1
    <3>3. CASE k = n
      BY <1>2, <1>4, <1>5, <3>1, <3>2, <3>3
    <3>4. CASE k # n
      BY <1>4, <1>5, <1>t, <3>1, <3>2, <3>4
    <3> QED
      BY <3>3, <3>4
  <2> QED
    BY <1>3, <1>6, <2>1, <2>2 DEF Tiled
<1>8. \A k \in 1 .. n : Fits(joined[k])
  BY <1>4, <1>f, <1>p
<1>9. ASSUME NEW k \in 1 .. n - 1
      PROVE  a2[k - 1] < a2[k] /\ a2[k] < m + 1 /\ ~ Fits(Run(l, a2[k - 1], a2[k] + 1))
  <2>1. k \in 0 .. n /\ k # n /\ k - 1 \in 0 .. n /\ k - 1 # n
    OBVIOUS
  <2>2. a2[k] = at[k] /\ a2[k - 1] = at[k - 1]
    BY <1>5, <2>1
  <2>3. at[k] \in Int
    BY <1>1, <1>t, <2>1
  <2> QED
    BY <1>p, <2>2, <2>3
<1>10. a2[n - 1] < m + 1
  BY <1>1, <1>2, <1>5
<1>11. Fits(<<l[m + 1]>>)
  <2>1. /\ at[n - 1] \in 0 .. Len(l) /\ m + 1 \in at[n - 1] .. Len(l)
        /\ m \in at[n - 1] .. m + 1 /\ m + 1 \in m .. m + 1
    BY <1>1, <1>2
  <2>2. Fits(Run(l, m, m + 1))
    BY <1>2, <1>f, <2>1, PartFits
  <2> QED
    BY <2>2, RunOfOne
<1>12. ASSUME NEW i \in 1 .. m + 1 PROVE Fits(<<l[i]>>)
  <2>1. i \in 1 .. m \/ i = m + 1
    OBVIOUS
  <2> QED
    BY <1>11, <1>p, <2>1
<1>13. Packed(l, joined, m + 1, a2)
  BY <1>3, <1>7, <1>8, <1>9, <1>10, <1>12 DEF Packed
<1> QED
  BY <1>0, <1>j, <1>3, <1>13

\* One that does not fit there opens a group.
LEMMA PackOpens ==
    ASSUME NEW l \in Seq(Shapes), NEW groups \in Seq(Seq(Shapes)), NEW m \in Nat, NEW at,
           Packed(l, groups, m, at), Len(groups) > 0, m < Len(l),
           NEW grown, grown = Append(groups[Len(groups)], l[m + 1]), ~ Fits(grown),
           Fits(<<l[m + 1]>>)
    PROVE  /\ Append(groups, <<l[m + 1]>>) \in Seq(Seq(Shapes))
           /\ Len(Append(groups, <<l[m + 1]>>)) = Len(groups) + 1
           /\ \E a2 : Packed(l, Append(groups, <<l[m + 1]>>), m + 1, a2)
<1>0. PICK n \in Nat : n = Len(groups) /\ n > 0
  BY LenProperties
<1>1. /\ n - 1 \in 0 .. n /\ n \in 1 .. n /\ n \in 0 .. n /\ (n + 1) - 1 = n
      /\ Len(l) \in Nat /\ <<l[m + 1]>> \in Seq(Shapes)
      /\ <<l[m + 1]>> = Run(l, m, m + 1) /\ m + 1 \in 1 .. Len(l)
  BY <1>0, LenProperties, RunOfOne
<1>2. /\ at \in [0 .. n -> 0 .. Len(l)] /\ at[0] = 0 /\ at[n] = m
      /\ \A k \in 1 .. n : at[k - 1] <= at[k] /\ groups[k] = Run(l, at[k - 1], at[k])
  BY <1>0 DEF Packed, Tiled
<1>3. /\ \A k \in 1 .. n : Fits(groups[k])
      /\ \A k \in 1 .. n - 1 :
           at[k - 1] < at[k] /\ at[k] < m /\ ~ Fits(Run(l, at[k - 1], at[k] + 1))
      /\ m > 0 => at[n - 1] < m
      /\ \A i \in 1 .. m : Fits(<<l[i]>>)
  BY <1>0 DEF Packed
<1>4. at[n - 1] \in 0 .. m /\ grown = Run(l, at[n - 1], m + 1)
  BY <1>0, GrownRun DEF Packed
<1>5. at[n - 1] < m
  <2>1. m = 0 => at[n - 1] = 0
    BY <1>4
  <2>2. m # 0
    BY <1>1, <1>4, <2>1
  <2> QED
    BY <1>3, <2>2
<1> DEFINE g2 == Append(groups, <<l[m + 1]>>)
           a2 == [k \in 0 .. n + 1 |-> IF k = n + 1 THEN m + 1 ELSE at[k]]
<1>6. /\ g2 \in Seq(Seq(Shapes)) /\ Len(g2) = n + 1
      /\ \A k \in 1 .. n : g2[k] = groups[k]
      /\ g2[n + 1] = <<l[m + 1]>>
  BY <1>0, <1>1, AppendProperties
<1>7. /\ \A k \in 0 .. n : a2[k] = at[k]
      /\ a2[n + 1] = m + 1
  BY <1>2
<1>8. a2 \in [0 .. n + 1 -> 0 .. Len(l)]
  BY <1>1, <1>2
<1> HIDE DEF g2, a2
<1>9. Tiled(l, g2, m + 1, a2)
  <2>1. a2[0] = 0 /\ a2[n + 1] = m + 1
    BY <1>2, <1>7
  <2>2. ASSUME NEW k \in 1 .. n + 1
        PROVE  a2[k - 1] <= a2[k] /\ g2[k] = Run(l, a2[k - 1], a2[k])
    <3>1. CASE k = n + 1
      <4>1. k - 1 = n /\ a2[n] = m
        BY <1>1, <1>2, <1>7, <3>1
      <4>2. a2[k] = m + 1 /\ g2[k] = Run(l, m, m + 1)
        BY <1>1, <1>6, <1>7, <3>1
      <4> QED
        BY <4>1, <4>2
    <3>2. CASE k # n + 1
      <4>1. k \in 1 .. n /\ k - 1 \in 0 .. n /\ k \in 0 .. n
        BY <3>2
      <4> QED
        BY <1>2, <1>6, <1>7, <4>1
    <3> QED
      BY <3>1, <3>2
  <2> QED
    BY <1>6, <1>8, <2>1, <2>2 DEF Tiled
<1>10. ASSUME NEW k \in 1 .. n + 1 PROVE Fits(g2[k])
  <2>1. k \in 1 .. n \/ k = n + 1
    OBVIOUS
  <2> QED
    BY <1>3, <1>6, <2>1
<1>11. ASSUME NEW k \in 1 .. n
       PROVE  a2[k - 1] < a2[k] /\ a2[k] < m + 1 /\ ~ Fits(Run(l, a2[k - 1], a2[k] + 1))
  <2>1. k - 1 \in 0 .. n /\ k \in 0 .. n
    OBVIOUS
  <2>2. a2[k - 1] = at[k - 1] /\ a2[k] = at[k]
    BY <1>7, <2>1
  <2>3. CASE k = n
    BY <1>2, <1>4, <1>5, <2>2, <2>3
  <2>4. CASE k # n
    <3>1. k \in 1 .. n - 1
      BY <2>4
    <3>2. at[k] \in Int
      BY <1>1, <1>2, <2>1
    <3> QED
      BY <1>3, <2>2, <3>1, <3>2, SMTT(20)
  <2> QED
    BY <2>3, <2>4
<1>12. a2[n] < m + 1
  BY <1>2, <1>7, <1>1
<1>13. ASSUME NEW i \in 1 .. m + 1 PROVE Fits(<<l[i]>>)
  <2>1. i \in 1 .. m \/ i = m + 1
    OBVIOUS
  <2> QED
    BY <1>3, <2>1
<1>14. Packed(l, g2, m + 1, a2)
  BY <1>1, <1>6, <1>9, <1>10, <1>11, <1>12, <1>13 DEF Packed
<1> QED
  BY <1>0, <1>6, <1>14 DEF g2

-----------------------------------------------------------------------------
(* The inductive invariant.                                                *)

BatchTypeOK ==
    /\ initial \in {<<>>} \cup {<<ix>> : ix \in Shapes}
    /\ instructions \in Seq(Shapes)
    /\ placed \in 0 .. Len(instructions)
    /\ result \in {"running", "ok", "too_large"}

BatchInv ==
    /\ BatchTypeOK
    /\ result = "running" =>
         /\ transactions \in Seq(Seq(Shapes)) /\ Len(transactions) > 0
         /\ \E at : Packed(all, transactions, Len(initial) + placed, at)
    /\ result = "ok" =>
         /\ transactions \in Seq(Seq(Shapes))
         /\ \A k \in DOMAIN transactions : transactions[k] # <<>>
         /\ \E at : Packed(all, transactions, Len(all), at)
    /\ result = "too_large" => \E i \in DOMAIN all : ~ Fits(<<all[i]>>)

\* The instructions to place come after the initial ones.
LEMMA AllFacts ==
    ASSUME BatchTypeOK
    PROVE  /\ initial \in Seq(Shapes) /\ all \in Seq(Shapes)
           /\ Len(initial) \in 0 .. 1 /\ Len(instructions) \in Nat
           /\ Len(all) = Len(initial) + Len(instructions) /\ DOMAIN all = 1 .. Len(all)
           /\ \A i \in 1 .. Len(initial) : all[i] = initial[i]
           /\ \A i \in 1 .. Len(instructions) : all[Len(initial) + i] = instructions[i]
<1>1. initial \in Seq(Shapes) /\ Len(initial) \in 0 .. 1 /\ instructions \in Seq(Shapes)
  <2>1. CASE initial = <<>>
    BY <2>1, EmptySeq DEF BatchTypeOK
  <2>2. CASE initial # <<>>
    <3>1. PICK ix \in Shapes : initial = <<ix>>
      BY <2>2 DEF BatchTypeOK
    <3>2. <<ix>> \in Seq(Shapes) /\ Len(<<ix>>) = 1
      OBVIOUS
    <3> QED
      BY <3>1, <3>2 DEF BatchTypeOK
  <2> QED
    BY <2>1, <2>2
<1>2. /\ initial \o instructions \in Seq(Shapes)
      /\ Len(initial \o instructions) = Len(initial) + Len(instructions)
      /\ \A i \in 1 .. Len(initial) + Len(instructions) :
           (initial \o instructions)[i] =
             IF i <= Len(initial) THEN initial[i] ELSE instructions[i - Len(initial)]
  BY <1>1, ConcatProperties
<1>3. Len(instructions) \in Nat /\ DOMAIN all = 1 .. Len(all)
  BY <1>1, <1>2, LenProperties DEF all
<1>4. PICK k \in Nat : k = Len(initial)
  BY <1>1
<1>5. ASSUME NEW i \in 1 .. Len(instructions) PROVE all[Len(initial) + i] = instructions[i]
  <2>1. /\ k + i \in 1 .. k + Len(instructions) /\ ~ (k + i <= k) /\ (k + i) - k = i
    BY <1>3
  <2> QED
    BY <1>2, <1>4, <2>1 DEF all
<1>6. ASSUME NEW i \in 1 .. Len(initial) PROVE all[i] = initial[i]
  <2>1. i \in 1 .. k + Len(instructions) /\ i <= k
    BY <1>3, <1>4
  <2> QED
    BY <1>2, <1>4, <2>1 DEF all
<1> QED
  BY <1>1, <1>2, <1>3, <1>5, <1>6 DEF all

\* A message with no instruction fits.
LEMMA NothingFits == Fits(<<>>)
<1>1. Keys(<<>>) = {Payer}
  BY DEF Keys
<1>2. Cardinality(Keys(<<>>)) = 1
  BY <1>1, FS_Singleton
<1>3. <<>> \in Seq(Shapes) /\ Len(<<>>) = 0
  BY EmptySeq
<1>4. SumBelow(0, InstructionSizes(<<>>), 0) = 0
  BY <1>3, SizesNatural, SumUnfolds
<1>5. Base \in Nat /\ KeySize \in Nat /\ Limit \in Nat /\ Base + KeySize <= Limit
  BY BatchAssumption
<1>6. transaction_size(<<>>) = Base + KeySize * 1 + 0
  BY <1>2, <1>3, <1>4 DEF transaction_size
<1>7. Base + KeySize * 1 + 0 = Base + KeySize
  BY <1>5
<1> QED
  BY <1>5, <1>6, <1>7 DEF Fits

\* The group the loop starts from.
LEMMA BatchInitial == BatchInit => BatchInv
<1> SUFFICES ASSUME BatchInit PROVE BatchInv
  OBVIOUS
<1>1. instructions \in Seq(Shapes)
  <2>1. PICK m \in 0 .. MaxLen : instructions \in [1 .. m -> Shapes]
    BY DEF BatchInit, BoundedSeq, SeqOf
  <2>2. m \in Nat
    BY BatchAssumption
  <2> QED
    BY <2>1, <2>2, SeqOfFunction
<1>2. BatchTypeOK
  <2>1. 0 \in 0 .. Len(instructions)
    BY <1>1, LenProperties
  <2> QED
    BY <1>1, <2>1 DEF BatchInit, BatchTypeOK
<1>3. /\ initial \in Seq(Shapes) /\ all \in Seq(Shapes) /\ Len(initial) \in 0 .. 1
      /\ Len(initial) <= Len(all) /\ Len(all) \in Nat /\ DOMAIN all = 1 .. Len(all)
      /\ \A i \in 1 .. Len(initial) : all[i] = initial[i]
  BY <1>2, AllFacts
<1>4. Len(initial) = 1 => initial = <<all[1]>> /\ 1 \in DOMAIN all /\ 0 < Len(all)
  <2> SUFFICES ASSUME Len(initial) = 1
               PROVE  initial = <<all[1]>> /\ 1 \in DOMAIN all /\ 0 < Len(all)
    OBVIOUS
  <2>1. 1 \in 1 .. Len(initial) /\ 1 \in 1 .. Len(all)
    BY <1>3
  <2> QED
    BY <1>3, <2>1
<1>5. Len(initial) = 0 => initial = <<>>
  BY <1>3, EmptySeq
<1>6. TooLarge(initial) <=> ~ Fits(initial)
  BY <1>3, SizeNatural
<1>7. CASE TooLarge(initial)
  <2>1. Len(initial) = 1
    BY <1>3, <1>5, <1>6, <1>7, NothingFits
  <2>2. result = "too_large"
    BY <1>7 DEF BatchInit
  <2> QED
    BY <1>2, <1>4, <1>6, <1>7, <2>1, <2>2 DEF BatchInv
<1>8. CASE ~ TooLarge(initial)
  <2>1. PICK m \in 0 .. 1 : m = Len(initial)
    BY <1>3
  <2>2. initial = Run(all, 0, m)
    <3>1. CASE m = 0
      <4>1. Run(all, 0, 0) = <<>>
        BY SubSeqEmpty DEF Run
      <4> QED
        BY <1>5, <2>1, <3>1, <4>1
    <3>2. CASE m # 0
      <4>1. m = 1
        BY <3>2
      <4>2. <<all[0 + 1]>> = Run(all, 0, 0 + 1)
        BY <1>3, <1>4, <2>1, <4>1, RunOfOne
      <4> QED
        BY <1>4, <2>1, <4>1, <4>2
    <3> QED
      BY <3>1, <3>2
  <2> DEFINE at == [k \in 0 .. 1 |-> IF k = 0 THEN 0 ELSE m]
  <2>3. transactions = <<initial>> /\ Len(transactions) = 1 /\ result = "running" /\ placed = 0
    BY <1>8 DEF BatchInit
  <2>4. transactions \in Seq(Seq(Shapes))
    BY <1>3, <2>3
  <2>5. Packed(all, transactions, m, at)
    <3>1. at \in [0 .. 1 -> 0 .. Len(all)] /\ at[0] = 0 /\ at[1] = m
      BY <1>3, <2>1
    <3>2. Tiled(all, transactions, m, at)
      <4>1. \A k \in 1 .. 1 : k = 1 /\ k - 1 = 0
        OBVIOUS
      <4> HIDE DEF at
      <4> QED
        BY <2>2, <2>3, <3>1, <4>1 DEF Tiled
    <3>3. Fits(initial) /\ \A i \in 1 .. m : Fits(<<all[i]>>)
      <4>1. \A i \in 1 .. m : i = 1 /\ m = 1
        OBVIOUS
      <4> QED
        BY <1>4, <1>6, <1>8, <2>1, <4>1
    <3>4. /\ \A k \in 1 .. 1 : transactions[k] = initial
          /\ 1 .. 1 - 1 = {} /\ 1 - 1 = 0
      BY <2>3
    <3> HIDE DEF at
    <3> QED
      BY <2>3, <3>1, <3>2, <3>3, <3>4 DEF Packed
  <2>6. m = Len(initial) + placed
    BY <2>1, <2>3
  <2> HIDE DEF at
  <2> QED
    BY <1>2, <2>3, <2>4, <2>5, <2>6 DEF BatchInv
<1> QED
  BY <1>7, <1>8

\* One iteration.
LEMMA BatchPlaces == BatchInv /\ Place => BatchInv'
<1> SUFFICES ASSUME BatchInv, Place PROVE BatchInv'
  OBVIOUS
<1> DEFINE ix == instructions[placed + 1]
           m == Len(initial) + placed
           grown == Append(Last(transactions), ix)
<1>1. BatchTypeOK /\ result = "running" /\ placed < Len(instructions)
  BY DEF Place, BatchInv
<1>2. /\ transactions \in Seq(Seq(Shapes)) /\ Len(transactions) > 0
      /\ \E at : Packed(all, transactions, m, at)
  BY <1>1 DEF BatchInv
<1>3. PICK at : Packed(all, transactions, m, at)
  BY <1>2
<1>4. /\ all \in Seq(Shapes) /\ m \in Nat /\ m < Len(all) /\ ix = all[m + 1]
      /\ m + 1 \in DOMAIN all /\ m + 1 = Len(initial) + (placed + 1)
  <2>1. /\ Len(initial) \in Nat /\ Len(instructions) \in Nat /\ placed \in Nat
        /\ Len(all) = Len(initial) + Len(instructions) /\ DOMAIN all = 1 .. Len(all)
        /\ all \in Seq(Shapes)
        /\ \A i \in 1 .. Len(instructions) : all[Len(initial) + i] = instructions[i]
    BY <1>1, AllFacts DEF BatchTypeOK
  <2>2. placed + 1 \in 1 .. Len(instructions) /\ Len(initial) + (placed + 1) = m + 1
    BY <1>1, <2>1
  <2> QED
    BY <1>1, <2>1, <2>2
<1>5. /\ placed' = placed + 1 /\ initial' = initial /\ instructions' = instructions
      /\ all' = all
      /\ transactions' = IF TooLarge(grown) THEN Append(transactions, <<ix>>)
                         ELSE [transactions EXCEPT ![Len(transactions)] = grown]
      /\ result' = IF TooLarge(grown) /\ TooLarge(<<ix>>) THEN "too_large" ELSE result
  BY DEF Place, Overflowed, all
<1>6. grown = Append(transactions[Len(transactions)], all[m + 1])
  BY <1>4 DEF Last
<1>7. /\ TooLarge(grown) <=> ~ Fits(grown)
      /\ TooLarge(<<ix>>) <=> ~ Fits(<<ix>>)
  <2>1. grown \in Seq(Shapes)
    BY <1>2, <1>3, <1>4, <1>6, GrownRun DEF Packed
  <2>2. <<ix>> \in Seq(Shapes)
    BY <1>4, RunOfOne
  <2> QED
    BY <2>1, <2>2, SizeNatural
<1>8. BatchTypeOK'
  BY <1>1, <1>5 DEF BatchTypeOK
<1>9. m + 1 = Len(initial') + placed'
  BY <1>4, <1>5
<1> HIDE DEF ix, m, grown
<1>10. CASE Fits(grown)
  <2>1. result' = "running" /\ transactions' = [transactions EXCEPT ![Len(transactions)] = grown]
    BY <1>1, <1>5, <1>7, <1>10
  <2>2. transactions' = Join(transactions, all[m + 1])
    BY <1>6, <2>1 DEF Join
  <2>3. Fits(Append(transactions[Len(transactions)], all[m + 1]))
    BY <1>6, <1>10
  <2>4. /\ transactions' \in Seq(Seq(Shapes)) /\ Len(transactions') = Len(transactions)
        /\ \E a2 : Packed(all, transactions', m + 1, a2)
    BY <1>2, <1>3, <1>4, <2>2, <2>3, PackJoins
  <2> QED
    BY <1>2, <1>5, <1>8, <1>9, <2>1, <2>4 DEF BatchInv
<1>11. CASE ~ Fits(grown) /\ Fits(<<ix>>)
  <2>1. result' = "running" /\ transactions' = Append(transactions, <<all[m + 1]>>)
    BY <1>1, <1>4, <1>5, <1>7, <1>11
  <2>2. Fits(<<all[m + 1]>>)
    BY <1>4, <1>11
  <2>3. /\ transactions' \in Seq(Seq(Shapes)) /\ Len(transactions') = Len(transactions) + 1
        /\ \E a2 : Packed(all, transactions', m + 1, a2)
    BY <1>2, <1>3, <1>4, <1>6, <1>11, <2>1, <2>2, PackOpens
  <2>4. Len(transactions') > 0
    BY <1>2, <2>3, LenProperties
  <2> QED
    BY <1>5, <1>8, <1>9, <2>1, <2>3, <2>4 DEF BatchInv
<1>12. CASE ~ Fits(grown) /\ ~ Fits(<<ix>>)
  <2>1. result' = "too_large"
    BY <1>5, <1>7, <1>12
  <2>2. \E i \in DOMAIN all' : ~ Fits(<<all'[i]>>)
    BY <1>4, <1>5, <1>12
  <2> QED
    BY <1>8, <2>1, <2>2 DEF BatchInv
<1> QED
  BY <1>10, <1>11, <1>12

\* The empty group goes.
LEMMA BatchFinishes == BatchInv /\ Finish => BatchInv'
<1> SUFFICES ASSUME BatchInv, Finish PROVE BatchInv'
  OBVIOUS
<1>1. BatchTypeOK /\ result = "running" /\ placed = Len(instructions)
  BY DEF Finish, BatchInv
<1>2. /\ transactions \in Seq(Seq(Shapes)) /\ Len(transactions) > 0
      /\ \E at : Packed(all, transactions, Len(initial) + placed, at)
  BY <1>1 DEF BatchInv
<1>3. /\ initial' = initial /\ instructions' = instructions /\ placed' = placed
      /\ result' = "ok" /\ all' = all /\ transactions' = NonEmpty(transactions)
  BY DEF Finish, all
<1>4. BatchTypeOK'
  BY <1>1, <1>3 DEF BatchTypeOK
<1>5. PICK m \in Nat : m = Len(all)
  BY <1>1, AllFacts
<1>6. all \in Seq(Shapes) /\ Len(initial) + placed = m
  BY <1>1, <1>5, AllFacts
<1>7. PICK at : Packed(all, transactions, m, at)
  BY <1>2, <1>6
<1>8. PICK n \in Nat : n = Len(transactions) /\ n > 0
  BY <1>2, LenProperties
<1>9. /\ at \in [0 .. n -> 0 .. m] /\ at[0] = 0 /\ at[n] = m
      /\ \A k \in 1 .. n : at[k - 1] <= at[k] /\ transactions[k] = Run(all, at[k - 1], at[k])
      /\ \A k \in 1 .. n - 1 : at[k - 1] < at[k] /\ at[k] < m
      /\ m > 0 => at[n - 1] < m
      /\ DOMAIN transactions = 1 .. n
  BY <1>2, <1>5, <1>7, <1>8, LenProperties DEF Packed, Tiled
<1>10. CASE m > 0
  <2>1. ASSUME NEW k \in 1 .. n PROVE transactions[k] # <<>>
    <3>1. k - 1 \in 0 .. n /\ k \in 0 .. n
      OBVIOUS
    <3>2. at[k - 1] < at[k]
      <4>1. CASE k = n
        BY <1>9, <1>10, <4>1
      <4>2. CASE k # n
        <5>1. k \in 1 .. n - 1
          BY <4>2
        <5> QED
          BY <1>9, <5>1
      <4> QED
        BY <4>1, <4>2
    <3>3. PICK a \in 0 .. m : a = at[k - 1]
      BY <1>9, <3>1
    <3>4. PICK b \in 0 .. m : b = at[k]
      BY <1>9, <3>1
    <3>5. a \in 0 .. Len(all) /\ b \in a .. Len(all) /\ b - a # 0
      BY <1>5, <3>2, <3>3, <3>4
    <3>6. Len(Run(all, a, b)) = b - a
      BY <1>6, <3>5, RunFacts
    <3>7. Run(all, a, b) # <<>>
      BY <3>5, <3>6, EmptySeq
    <3> QED
      BY <1>9, <3>3, <3>4, <3>7
  <2>2. transactions' = transactions
    BY <1>2, <1>3, <1>9, <2>1, NoneRemoved
  <2> QED
    BY <1>2, <1>3, <1>4, <1>5, <1>7, <1>9, <2>1, <2>2 DEF BatchInv
<1>11. CASE m = 0
  <2>1. n = 1
    <3>1. n # 1 => 1 \in 1 .. n - 1 /\ 1 \in 0 .. n
      BY <1>8
    <3>2. n # 1 => at[1] < 0 /\ at[1] \in 0 .. 0
      BY <1>9, <1>11, <3>1
    <3> QED
      BY <3>2
  <2>2. transactions[1] = <<>>
    <3>1. 1 \in 1 .. n /\ 1 - 1 = 0
      BY <2>1
    <3>2. transactions[1] = Run(all, 0, 0)
      BY <1>9, <1>11, <2>1, <3>1
    <3>3. Run(all, 0, 0) = <<>>
      BY SubSeqEmpty DEF Run
    <3> QED
      BY <3>2, <3>3
  <2>3. transactions' = <<>>
    <3>1. \A k \in DOMAIN transactions : transactions[k] = <<>>
      BY <1>9, <2>1, <2>2
    <3> QED
      BY <1>3, <3>1, AllRemoved
  <2> DEFINE zero == [k \in 0 .. 0 |-> 0]
  <2>4. Len(<<>>) = 0 /\ <<>> \in Seq(Seq(Shapes)) /\ DOMAIN <<>> = {}
    BY EmptySeq
  <2>5. Tiled(all, <<>>, 0, zero)
    <3>1. zero \in [0 .. 0 -> 0 .. Len(all)] /\ zero[0] = 0
      BY <1>5
    <3>2. 1 .. 0 = {}
      OBVIOUS
    <3> HIDE DEF zero
    <3> QED
      BY <2>4, <3>1, <3>2 DEF Tiled
  <2>6. Packed(all, <<>>, 0, zero)
    <3>1. 1 .. 0 = {} /\ 1 .. 0 - 1 = {}
      OBVIOUS
    <3> HIDE DEF zero
    <3> QED
      BY <2>4, <2>5, <3>1 DEF Packed
  <2> HIDE DEF zero
  <2> QED
    BY <1>3, <1>4, <1>5, <1>11, <2>3, <2>4, <2>6 DEF BatchInv
<1> QED
  BY <1>10, <1>11

\* Every step of the packing.
LEMMA BatchStep == BatchInv /\ [BatchNext]_batchVars => BatchInv'
<1> SUFFICES ASSUME BatchInv, [BatchNext]_batchVars PROVE BatchInv'
  OBVIOUS
<1>1. CASE Place
  BY <1>1, BatchPlaces
<1>2. CASE Finish
  BY <1>2, BatchFinishes
<1>3. CASE UNCHANGED batchVars
  BY <1>3 DEF batchVars, BatchInv, BatchTypeOK, all
<1> QED
  BY <1>1, <1>2, <1>3 DEF BatchNext

LEMMA BatchInductive == BatchSpec => []BatchInv
BY BatchInitial, BatchStep, PTL DEF BatchSpec

-----------------------------------------------------------------------------
(* Nothing is lost.                                                        *)

\* Batches!NothingLost: whatever the sizes, the groups returned are the settlement
\* and the deliveries, complete and in order, none empty and each within the
\* packet; and batches gives up only on an instruction that fits nowhere.
THEOREM BatchesComplete == BatchSpec => []NothingLost
<1>1. ASSUME BatchInv, result = "ok"
      PROVE  /\ FlattenSeq(transactions) = all
             /\ \A k \in DOMAIN transactions : transactions[k] # <<>> /\ Fits(transactions[k])
             /\ \A i \in DOMAIN all : Fits(<<all[i]>>)
  <2>1. /\ BatchTypeOK /\ transactions \in Seq(Seq(Shapes))
        /\ \A k \in DOMAIN transactions : transactions[k] # <<>>
    BY <1>1 DEF BatchInv
  <2>2. PICK at : Packed(all, transactions, Len(all), at)
    BY <1>1 DEF BatchInv
  <2>3. all \in Seq(Shapes) /\ DOMAIN all = 1 .. Len(all)
    BY <2>1, AllFacts
  <2>4. FlattenSeq(transactions) = Run(all, 0, Len(all))
    BY <2>1, <2>2, <2>3, TilesFlatten DEF Packed
  <2>5. Run(all, 0, Len(all)) = all
    <3>1. 0 + 1 = 1
      OBVIOUS
    <3>2. SubSeq(all, 1, Len(all)) = all
      BY <2>3, SubSeqFull
    <3> QED
      BY <3>1, <3>2 DEF Run
  <2>6. DOMAIN transactions = 1 .. Len(transactions)
    BY <2>1, LenProperties
  <2> QED
    BY <2>1, <2>2, <2>3, <2>4, <2>5, <2>6 DEF Packed
<1>2. BatchInv => NothingLost
  BY <1>1 DEF NothingLost, BatchInv
<1> QED
  BY <1>2, BatchInductive, PTL

-----------------------------------------------------------------------------
(* No other cutting needs fewer transactions.                              *)

\* Every piece of l that lies between neighbouring cuts fits.
CutsFit(l, cuts) ==
    \A x \in {0} \cup cuts, y \in cuts \cup {Len(l)} :
      x < y /\ (\A c \in cuts : ~ (x < c /\ c < y)) => Fits(Run(l, x, y))

\* A cutting whose pieces all fit cuts every run that does not fit.
LEMMA CutInside ==
    ASSUME NEW l \in Seq(Shapes), NEW cuts \in SUBSET (1 .. Len(l) - 1), CutsFit(l, cuts),
           NEW a \in Nat, NEW b \in Nat, a <= b, b < Len(l), ~ Fits(Run(l, a, b + 1))
    PROVE  \E c \in cuts : a < c /\ c <= b
<1> SUFFICES ASSUME \A c \in cuts : ~ (a < c /\ c <= b) PROVE FALSE
  OBVIOUS
<1>0. Len(l) \in Nat /\ \A c \in cuts : c \in Nat /\ 0 < c /\ c < Len(l)
  BY LenProperties
<1> DEFINE L == {d \in Nat : d <= a /\ a - d \in {0} \cup cuts}
           H == {y \in cuts \cup {Len(l)} : b + 1 <= y}
<1>1. PICK d \in L : \A e \in L : d <= e
  <2>1. a \in L /\ L \subseteq Nat
    OBVIOUS
  <2> HIDE DEF L
  <2> QED
    BY <2>1, LeastElement
<1>2. PICK y \in H : \A z \in H : y <= z
  <2>1. H \subseteq Nat
    BY <1>0
  <2>2. Len(l) \in H
    <3>1. b + 1 <= Len(l)
      BY <1>0
    <3> QED
      BY <3>1
  <2> HIDE DEF H
  <2> QED
    BY <2>1, <2>2, LeastElement
<1>3. PICK x \in Nat : x = a - d
  BY <1>1
<1>4. x \in {0} \cup cuts /\ x <= a
  BY <1>1, <1>3
<1>5. /\ y \in cuts \cup {Len(l)} /\ y \in Nat /\ b + 1 <= y /\ y <= Len(l)
  BY <1>0, <1>2
<1>6. ASSUME NEW c \in cuts, x < c, c < y PROVE FALSE
  <2>1. c \in Nat
    BY <1>0
  <2>2. CASE c <= a
    <3>1. a - c \in Nat /\ a - (a - c) = c /\ a - c <= a
      BY <2>1, <2>2
    <3>2. a - c \in L
      BY <3>1
    <3>3. d <= a - c /\ d \in Nat /\ d <= a
      BY <1>1, <3>2
    <3> QED
      BY <1>3, <1>6, <2>1, <3>3
  <2>3. CASE b + 1 <= c
    <3>1. c \in H
      BY <2>3
    <3>2. y <= c
      BY <1>2, <3>1
    <3> QED
      BY <1>5, <1>6, <2>1, <3>2
  <2> QED
    BY <2>1, <2>2, <2>3
<1>7. x < y
  BY <1>4, <1>5
<1>8. Fits(Run(l, x, y))
  BY <1>4, <1>5, <1>6, <1>7 DEF CutsFit
<1>9. /\ x \in 0 .. Len(l) /\ y \in x .. Len(l) /\ a \in x .. y /\ b + 1 \in a .. y
  BY <1>0, <1>4, <1>5, <1>7
<1>10. Fits(Run(l, a, b + 1))
  BY <1>8, <1>9, PartFits
<1> QED
  BY <1>10

\* The starts of the groups grow.
LEMMA GroupsInOrder ==
    ASSUME NEW l, NEW groups, NEW m, NEW at, NEW n \in Nat, n = Len(groups), Len(l) \in Nat,
           Tiled(l, groups, m, at)
    PROVE  \A j, k \in 0 .. n : j <= k => at[j] <= at[k]
<1>1. /\ at \in [0 .. n -> 0 .. Len(l)]
      /\ \A k \in 1 .. n : at[k - 1] <= at[k]
  BY DEF Tiled
<1> SUFFICES ASSUME NEW j \in 0 .. n
             PROVE  \A k \in 0 .. n : j <= k => at[j] <= at[k]
  OBVIOUS
<1> DEFINE S == {i \in Nat : j + i <= n => at[j] <= at[j + i]}
<1>2. 0 \in S
  <2>1. j + 0 = j /\ at[j] \in Int
    BY <1>1
  <2> QED
    BY <2>1
<1>3. ASSUME NEW i \in Nat, i \in S PROVE i + 1 \in S
  <2> SUFFICES ASSUME j + (i + 1) <= n PROVE at[j] <= at[j + (i + 1)]
    OBVIOUS
  <2>1. /\ j + (i + 1) \in 1 .. n /\ (j + (i + 1)) - 1 = j + i
        /\ j + i \in 0 .. n /\ j + (i + 1) \in 0 .. n
    OBVIOUS
  <2>2. at[j + i] <= at[j + (i + 1)]
    BY <1>1, <2>1
  <2>3. at[j] <= at[j + i]
    BY <1>3, <2>1
  <2>4. at[j] \in Int /\ at[j + i] \in Int /\ at[j + (i + 1)] \in Int
    BY <1>1, <2>1, SMTT(20)
  <2> QED
    BY <2>2, <2>3, <2>4
<1>4. ASSUME NEW k \in 0 .. n, j <= k PROVE at[j] <= at[k]
  <2>1. k - j \in Nat /\ j + (k - j) = k
    BY <1>4
  <2>2. k - j \in S
    <3> HIDE DEF S
    <3> QED
      BY <1>2, <1>3, <2>1, SetInduction
  <2> QED
    BY <2>1, <2>2
<1> QED
  BY <1>4

\* So it has a cut for each group but the last.
LEMMA GreedyIsBest ==
    ASSUME NEW l \in Seq(Shapes), NEW groups \in Seq(Seq(Shapes)), NEW at,
           Packed(l, groups, Len(l), at),
           NEW cuts \in SUBSET (1 .. Len(l) - 1), CutsFit(l, cuts)
    PROVE  Len(groups) <= Cardinality(cuts) + 1
<1>0. PICK n \in Nat : n = Len(groups)
  BY LenProperties
<1>1. /\ at \in [0 .. n -> 0 .. Len(l)] /\ Len(l) \in Nat
      /\ \A k \in 1 .. n - 1 :
           at[k - 1] < at[k] /\ at[k] < Len(l) /\ ~ Fits(Run(l, at[k - 1], at[k] + 1))
  BY <1>0, LenProperties DEF Packed, Tiled
<1> DEFINE Inside(k, c) == at[k - 1] < c /\ c <= at[k]
           f == [k \in 1 .. n - 1 |-> CHOOSE c \in cuts : Inside(k, c)]
<1>2. ASSUME NEW k \in 1 .. n - 1 PROVE f[k] \in cuts /\ Inside(k, f[k])
  <2>1. k - 1 \in 0 .. n /\ k \in 0 .. n
    OBVIOUS
  <2>2. at[k - 1] \in Nat /\ at[k] \in Nat /\ at[k - 1] <= at[k]
    BY <1>1, <2>1
  <2>3. \E c \in cuts : Inside(k, c)
    BY <1>1, <2>2, CutInside
  <2> QED
    BY <2>3
<1>3. \A j, k \in 0 .. n : j <= k => at[j] <= at[k]
  BY <1>0, <1>1, GroupsInOrder DEF Packed
<1>4. \A c \in cuts : c \in Int
  OBVIOUS
<1> HIDE DEF f
<1>5. ASSUME NEW j \in 1 .. n - 1, NEW k \in 1 .. n - 1, j < k PROVE f[j] # f[k]
  <2>1. j \in 0 .. n /\ k - 1 \in 0 .. n /\ j <= k - 1
    BY <1>5
  <2>2. at[j] <= at[k - 1] /\ at[j] \in Int /\ at[k - 1] \in Int
    BY <1>1, <1>3, <2>1
  <2>3. f[j] <= at[j] /\ at[k - 1] < f[k] /\ f[j] \in Int /\ f[k] \in Int
    BY <1>2, <1>4
  <2> QED
    BY <2>2, <2>3
<1>6. \A j, k \in 1 .. n - 1 : f[j] = f[k] => j = k
  <2> SUFFICES ASSUME NEW j \in 1 .. n - 1, NEW k \in 1 .. n - 1, f[j] = f[k] PROVE j = k
    OBVIOUS
  <2>1. ~ (j < k) /\ ~ (k < j)
    BY <1>5
  <2> QED
    BY <2>1
<1>7. f \in Injection(1 .. n - 1, cuts)
  <2>1. f \in [1 .. n - 1 -> cuts]
    BY <1>2 DEF f
  <2> QED
    BY <1>6, <2>1 DEF Injection, IsInjective
<1>8. IsFiniteSet(cuts)
  <2>1. IsFiniteSet(1 .. Len(l) - 1)
    BY <1>1, FS_Interval
  <2> QED
    BY <2>1, FS_Subset
<1>9. Cardinality(1 .. n - 1) <= Cardinality(cuts) /\ Cardinality(cuts) \in Nat
  BY <1>7, <1>8, FS_Injection, FS_CardinalityType
<1>10. CASE n = 0
  BY <1>0, <1>9, <1>10
<1>11. CASE n # 0
  <2>1. 1 \in Int /\ n - 1 \in Int /\ (IF 1 > n - 1 THEN 0 ELSE (n - 1) - 1 + 1) = n - 1
    BY <1>11
  <2>2. Cardinality(1 .. n - 1) = n - 1
    BY <2>1, FS_Interval
  <2> QED
    BY <1>0, <1>9, <2>2
<1> QED
  BY <1>10, <1>11

\* Batches!FewestTransactions: although the size of a group is not the sum of its
\* parts, the first fit in order is optimal: no cutting of the same sequence into
\* groups that fit has fewer of them.
THEOREM BatchesFewest == BatchSpec => []FewestTransactions
<1>1. ASSUME BatchInv, result = "ok", NEW cuts \in SUBSET (1 .. Len(all) - 1),
             \A piece \in Pieces(cuts) : Fits(piece)
      PROVE  Len(transactions) <= Cardinality(cuts) + 1
  <2>1. BatchTypeOK /\ transactions \in Seq(Seq(Shapes))
    BY <1>1 DEF BatchInv
  <2>2. PICK at : Packed(all, transactions, Len(all), at)
    BY <1>1 DEF BatchInv
  <2>3. all \in Seq(Shapes)
    BY <2>1, AllFacts
  <2>4. CutsFit(all, cuts)
    <3> SUFFICES ASSUME NEW x \in {0} \cup cuts, NEW y \in cuts \cup {Len(all)}, x < y,
                        \A c \in cuts : ~ (x < c /\ c < y)
                 PROVE  Fits(Run(all, x, y))
      BY DEF CutsFit
    <3>1. <<x, y>> \in Neighbours(cuts)
      BY DEF Neighbours
    <3>2. Run(all, x, y) \in Pieces(cuts)
      BY <3>1 DEF Pieces, Run
    <3> QED
      BY <1>1, <3>2
  <2> QED
    BY <2>1, <2>2, <2>3, <2>4, GreedyIsBest
<1>2. BatchInv => FewestTransactions
  BY <1>1 DEF FewestTransactions
<1> QED
  BY <1>2, BatchInductive, PTL
=============================================================================
