--------------------------- MODULE InventoryProofs ---------------------------
(***************************************************************************)
(* The Fenwick index is exact and implements the linear inventory, for     *)
(* every block size, number of tiers and number of blocks.                 *)
(***************************************************************************)
EXTENDS Inventory, RollProofs, FiniteSetTheorems, SequenceTheorems

USE DEF Tier, Node, Position

\* Node numbers, and the numbers a walk up the tree can reach.
Reach == 2 * MaxBlocks

-----------------------------------------------------------------------------
(* The lowest bit.                                                         *)

\* Every number is twice its half, or one more.
LEMMA Parity ==
    \A n \in Nat : /\ n \div 2 \in Nat
                   /\ \/ n % 2 = 0 /\ n = 2 * (n \div 2)
                      \/ n % 2 = 1 /\ n = 2 * (n \div 2) + 1
OBVIOUS

\* The recursion has a solution, and LowBit is it.
LEMMA LowUnfolds ==
    \A n \in 0 .. Reach :
      LowBit(n) = IF n = 0 THEN 0 ELSE IF n % 2 = 1 THEN 1 ELSE 2 * LowBit(n \div 2)
<1> DEFINE D == 0 .. Reach
           Def(g) == [i \in D |-> IF i = 0 THEN 0 ELSE IF i % 2 = 1 THEN 1 ELSE 2 * g[i \div 2]]
           low == CHOOSE g : g = Def(g)
<1>0. Reach \in Nat
  BY IndexAssumption DEF Reach
<1>1. \A n : LowBit(n) = low[n]
  BY DEF LowBit, Reach
<1>2. \E g : g = Def(g)
  <2> DEFINE Base == {i \in D : i = 0 \/ i % 2 = 1}
             m == [i \in D |-> i]
             p == [i \in D |-> i \div 2]
             B == [i \in D |-> IF i = 0 THEN 0 ELSE 1]
             F == [w \in D \X Nat |-> 2 * w[2]]
  <2>1. m \in [D -> 0 .. Reach] /\ B \in [D -> Nat]
    OBVIOUS
  <2>2. p \in [D -> D]
    BY <1>0
  <2>3. F \in [D \X Nat -> Nat]
    OBVIOUS
  <2>4. \A x \in D : x \notin Base => m[p[x]] < m[x]
    BY <1>0
  <2>5. Recursive(D, Nat, Base, B, F, p, m, Reach)
    <3> HIDE DEF D, Base, m, p, B, F
    <3> QED
      BY <1>0, <2>1, <2>2, <2>3, <2>4 DEF Recursive
  <2>6. PICK g \in [D -> Nat] :
          \A x \in D : g[x] = IF x \in Base THEN B[x] ELSE F[<<x, g[p[x]]>>]
    <3> HIDE DEF D, Base, m, p, B, F
    <3> QED
      BY <2>5, RecursionExists
  <2>7. ASSUME NEW i \in D
        PROVE  g[i] = IF i = 0 THEN 0 ELSE IF i % 2 = 1 THEN 1 ELSE 2 * g[i \div 2]
    <3>1. CASE i \in Base
      BY <2>6, <3>1
    <3>2. CASE i \notin Base
      <4>1. g[i] = F[<<i, g[p[i]]>>]
        BY <2>6, <3>2
      <4>2. p[i] = i \div 2 /\ g[p[i]] \in Nat
        BY <2>2
      <4>3. F[<<i, g[p[i]]>>] = 2 * g[i \div 2]
        BY <4>2
      <4> QED
        BY <3>2, <4>1, <4>3
    <3> QED
      BY <3>1, <3>2
  <2>8. g = Def(g)
    BY <2>6, <2>7
  <2> QED
    BY <2>8
<1>3. low = Def(low)
  BY <1>2
<1> HIDE DEF low
<1>4. \A n \in D : low[n] = IF n = 0 THEN 0 ELSE IF n % 2 = 1 THEN 1 ELSE 2 * low[n \div 2]
  BY <1>3
<1> QED
  BY <1>1, <1>4

\* Even numbers have the lowest bit of their half, doubled; odd ones have 1.
LEMMA LowHalves ==
    /\ LowBit(0) = 0
    /\ \A h \in Nat : 2 * h + 1 <= Reach => LowBit(2 * h + 1) = 1
    /\ \A h \in Nat : 2 * h <= Reach => LowBit(2 * h) = 2 * LowBit(h)
<1>0. Reach \in Nat
  BY IndexAssumption DEF Reach
<1>1. LowBit(0) = 0
  BY <1>0, LowUnfolds
<1>2. ASSUME NEW h \in Nat, 2 * h + 1 <= Reach PROVE LowBit(2 * h + 1) = 1
  <2>1. 2 * h + 1 \in 0 .. Reach /\ (2 * h + 1) % 2 = 1 /\ 2 * h + 1 # 0
    BY <1>0, <1>2
  <2> QED
    BY <2>1, LowUnfolds
<1>3. ASSUME NEW h \in Nat, 2 * h <= Reach PROVE LowBit(2 * h) = 2 * LowBit(h)
  <2>1. 2 * h \in 0 .. Reach /\ (2 * h) % 2 # 1 /\ (2 * h) \div 2 = h
    BY <1>0, <1>3
  <2>2. CASE h = 0
    BY <1>1, <2>2
  <2>3. CASE h # 0
    BY <2>1, <2>3, LowUnfolds
  <2> QED
    BY <2>2, <2>3
<1> QED
  BY <1>1, <1>2, <1>3

\* A power of two is its own lowest bit.
Powers == {n \in 1 .. Reach : LowBit(n) = n}

\* The lowest bit is a power of two not above the number.
LEMMA LowBitType ==
    \A n \in 1 .. Reach : /\ LowBit(n) \in 1 .. n /\ LowBit(n) \in Powers
                          /\ Parent(n) \in 0 .. n - 1
<1> DEFINE S == {n \in Nat : n \in 1 .. Reach =>
                               LowBit(n) \in 1 .. n /\ LowBit(LowBit(n)) = LowBit(n)}
<1>0. Reach \in Nat
  BY IndexAssumption DEF Reach
<1>1. 0 \in S
  OBVIOUS
<1>2. ASSUME NEW n \in Nat \ {0}, n \div 2 \in S PROVE n \in S
  <2> SUFFICES ASSUME n <= Reach
               PROVE  LowBit(n) \in 1 .. n /\ LowBit(LowBit(n)) = LowBit(n)
    OBVIOUS
  <2>1. PICK h \in Nat : h = n \div 2 /\ (n = 2 * h \/ n = 2 * h + 1)
    BY Parity
  <2>2. CASE n = 2 * h + 1
    <3>1. LowBit(n) = 1
      BY <2>2, LowHalves
    <3>2. LowBit(1) = 1
      <4>1. 2 * 0 + 1 = 1 /\ 1 <= Reach
        BY <1>0
      <4> QED
        BY <4>1, LowHalves
    <3> QED
      BY <3>1, <3>2
  <2>3. CASE n = 2 * h
    <3>1. h \in 1 .. Reach
      BY <1>0, <2>3
    <3>2. LowBit(h) \in 1 .. h /\ LowBit(LowBit(h)) = LowBit(h)
      BY <1>2, <2>1, <3>1
    <3>3. PICK k \in Nat : k = LowBit(h) /\ k >= 1 /\ k <= h
      BY <3>2
    <3>4. LowBit(n) = 2 * k
      BY <2>3, <3>3, LowHalves
    <3>5. LowBit(2 * k) = 2 * LowBit(k)
      BY <1>0, <2>3, <3>3, LowHalves
    <3> QED
      BY <2>3, <3>2, <3>3, <3>4, <3>5
  <2> QED
    BY <2>1, <2>2, <2>3
<1>3. \A n \in Nat : n \in S
  <2> HIDE DEF S
  <2> QED
    BY <1>1, <1>2, HalvingInduction
<1>4. ASSUME NEW n \in 1 .. Reach
      PROVE  /\ LowBit(n) \in 1 .. n /\ LowBit(n) \in Powers
             /\ Parent(n) \in 0 .. n - 1
  <2>1. LowBit(n) \in 1 .. n /\ LowBit(LowBit(n)) = LowBit(n)
    BY <1>0, <1>3
  <2> QED
    BY <1>0, <2>1 DEF Powers, Parent
<1> QED
  BY <1>4

\* The halves of a power of two.
LEMMA PowerHalves ==
    ASSUME NEW s \in Powers, s # 1
    PROVE  \E h \in Powers : s = 2 * h
<1>0. Reach \in Nat /\ s \in 1 .. Reach /\ LowBit(s) = s
  BY IndexAssumption DEF Reach, Powers
<1>1. PICK h \in Nat : h = s \div 2 /\ (s = 2 * h \/ s = 2 * h + 1)
  BY <1>0, Parity
<1>2. s = 2 * h
  BY <1>0, <1>1, LowHalves
<1>3. h \in 1 .. Reach /\ s = 2 * LowBit(h)
  BY <1>0, <1>2, LowHalves
<1>4. LowBit(h) \in Nat
  BY <1>3, LowBitType
<1>5. LowBit(h) = h
  BY <1>2, <1>3, <1>4
<1> QED
  BY <1>2, <1>3, <1>5 DEF Powers

\* Between a power of two and its double there is no other.
LEMMA PowersApart == \A s, u \in Powers : s < u => 2 * s <= u
<1> DEFINE S == {s \in Nat : s \in Powers => \A u \in Powers : s < u => 2 * s <= u}
<1>0. Powers \subseteq Nat \ {0}
  BY DEF Powers
<1>1. 0 \in S
  BY <1>0
<1>2. ASSUME NEW s \in Nat \ {0}, s \div 2 \in S PROVE s \in S
  <2> SUFFICES ASSUME s \in Powers, NEW u \in Powers, s < u PROVE 2 * s <= u
    OBVIOUS
  <2>1. CASE s = 1
    BY <1>0, <2>1
  <2>2. CASE s # 1
    <3>1. PICK h \in Powers : s = 2 * h
      BY <2>2, PowerHalves
    <3>2. u # 1
      BY <1>0
    <3>3. PICK k \in Powers : u = 2 * k
      BY <3>2, PowerHalves
    <3>4. h \in Nat /\ k \in Nat /\ u \in Nat
      BY <1>0
    <3>5. h < k /\ s \div 2 = h
      BY <3>1, <3>3, <3>4
    <3>6. 2 * h <= k
      BY <1>2, <3>5
    <3> QED
      BY <3>1, <3>3, <3>4, <3>6
  <2> QED
    BY <2>1, <2>2
<1>3. \A n \in Nat : n \in S
  <2> HIDE DEF S
  <2> QED
    BY <1>1, <1>2, HalvingInduction
<1> QED
  BY <1>0, <1>3

\* x is a multiple of the power of two s.
Aligned(x, s) == x = 0 \/ LowBit(x) >= s

\* Multiples of s are s apart.
LEMMA AlignedApart ==
    \A s \in Powers : \A x, y \in 0 .. Reach :
      Aligned(x, s) /\ Aligned(y, s) /\ x < y => x + s <= y
<1> DEFINE P(s) == \A x, y \in 0 .. Reach :
                     Aligned(x, s) /\ Aligned(y, s) /\ x < y => x + s <= y
           S == {s \in Nat : s \in Powers => P(s)}
<1>0. Powers \subseteq Nat \ {0} /\ Reach \in Nat
  BY IndexAssumption DEF Powers, Reach
<1>1. 0 \in S
  BY <1>0
<1>2. ASSUME NEW s \in Nat \ {0}, s \div 2 \in S PROVE s \in S
  <2> SUFFICES ASSUME s \in Powers, NEW x \in 0 .. Reach, NEW y \in 0 .. Reach,
                      Aligned(x, s), Aligned(y, s), x < y
               PROVE  x + s <= y
    OBVIOUS
  <2>1. CASE s = 1
    BY <1>0, <2>1
  <2>2. CASE s # 1
    <3>1. PICK h \in Powers : s = 2 * h
      BY <2>2, PowerHalves
    <3>2. h \in Nat \ {0} /\ s \div 2 = h
      BY <1>0, <3>1
    <3>3. ASSUME NEW z \in 0 .. Reach, Aligned(z, s)
          PROVE  \E k \in 0 .. Reach : z = 2 * k /\ Aligned(k, h)
      <4>1. PICK k \in Nat : k = z \div 2 /\ (z = 2 * k \/ z = 2 * k + 1)
        BY <1>0, Parity
      <4>2. z = 2 * k
        BY <1>0, <3>1, <3>2, <3>3, <4>1, LowHalves DEF Aligned
      <4>3. k \in 0 .. Reach
        BY <1>0, <4>2
      <4>4. CASE k = 0
        BY <4>2, <4>3, <4>4 DEF Aligned
      <4>5. CASE k # 0
        <5>1. LowBit(z) = 2 * LowBit(k) /\ LowBit(z) >= 2 * h
          BY <1>0, <3>1, <3>3, <4>2, <4>5, LowHalves DEF Aligned
        <5>2. LowBit(k) \in Nat
          BY <1>0, <4>3, <4>5, LowBitType
        <5>3. LowBit(k) >= h
          BY <3>2, <5>1, <5>2
        <5> QED
          BY <4>2, <4>3, <5>3 DEF Aligned
      <4> QED
        BY <4>4, <4>5
    <3>4. PICK j \in 0 .. Reach : x = 2 * j /\ Aligned(j, h)
      BY <3>3
    <3>5. PICK k \in 0 .. Reach : y = 2 * k /\ Aligned(k, h)
      BY <3>3
    <3>6. j < k
      BY <3>4, <3>5
    <3>7. j + h <= k
      BY <1>2, <3>2, <3>4, <3>5, <3>6
    <3> QED
      BY <3>1, <3>2, <3>4, <3>5, <3>7
  <2> QED
    BY <2>1, <2>2
<1>3. \A n \in Nat : n \in S
  <2> HIDE DEF S
  <2> QED
    BY <1>1, <1>2, HalvingInduction
<1> QED
  BY <1>0, <1>3

\* Adding a smaller power of two makes it the lowest bit.
LEMMA LowBitOfSum ==
    \A s \in Powers : \A a \in 0 .. Reach :
      (a = 0 \/ LowBit(a) > s) /\ a + s <= Reach => LowBit(a + s) = s
<1> DEFINE P(s) == \A a \in 0 .. Reach :
                     (a = 0 \/ LowBit(a) > s) /\ a + s <= Reach => LowBit(a + s) = s
           S == {s \in Nat : s \in Powers => P(s)}
<1>0. Powers \subseteq Nat \ {0} /\ Reach \in Nat
  BY IndexAssumption DEF Powers, Reach
<1>1. 0 \in S
  BY <1>0
<1>2. ASSUME NEW s \in Nat \ {0}, s \div 2 \in S PROVE s \in S
  <2> SUFFICES ASSUME s \in Powers, NEW a \in 0 .. Reach, a = 0 \/ LowBit(a) > s,
                      a + s <= Reach
               PROVE  LowBit(a + s) = s
    OBVIOUS
  <2>1. PICK k \in Nat : k = a \div 2 /\ (a = 2 * k \/ a = 2 * k + 1)
    BY <1>0, Parity
  <2>2. a = 2 * k
    BY <1>0, <2>1, LowHalves
  <2>3. CASE s = 1
    BY <2>2, <2>3, LowHalves
  <2>4. CASE s # 1
    <3>1. PICK h \in Powers : s = 2 * h
      BY <2>4, PowerHalves
    <3>2. h \in Nat \ {0} /\ s \div 2 = h /\ k \in 0 .. Reach /\ k + h \in Nat
          /\ a + s = 2 * (k + h) /\ k + h <= Reach
      BY <1>0, <2>2, <3>1
    <3>3. k = 0 \/ LowBit(k) > h
      <4>1. LowBit(a) = 2 * LowBit(k)
        BY <2>2, LowHalves
      <4>2. k # 0 => LowBit(k) \in Nat
        BY <3>2, LowBitType
      <4> QED
        BY <2>2, <3>1, <3>2, <4>1, <4>2
    <3>4. LowBit(k + h) = h
      BY <1>2, <3>2, <3>3
    <3>5. LowBit(2 * (k + h)) = 2 * LowBit(k + h)
      BY <3>2, LowHalves
    <3> QED
      BY <3>1, <3>2, <3>4, <3>5
  <2> QED
    BY <2>3, <2>4
<1>3. \A n \in Nat : n \in S
  <2> HIDE DEF S
  <2> QED
    BY <1>1, <1>2, HalvingInduction
<1> QED
  BY <1>0, <1>3

\* Clearing the lowest bit leaves a multiple of its double.
LEMMA ParentAligned ==
    \A n \in 1 .. Reach : Aligned(Parent(n), 2 * LowBit(n))
<1> DEFINE S == {n \in Nat : n \in 1 .. Reach => Aligned(Parent(n), 2 * LowBit(n))}
<1>0. Reach \in Nat
  BY IndexAssumption DEF Reach
<1>1. 0 \in S
  OBVIOUS
<1>2. ASSUME NEW n \in Nat \ {0}, n \div 2 \in S PROVE n \in S
  <2> SUFFICES ASSUME n \in 1 .. Reach PROVE Aligned(Parent(n), 2 * LowBit(n))
    OBVIOUS
  <2>1. PICK h \in Nat : h = n \div 2 /\ (n = 2 * h \/ n = 2 * h + 1)
    BY Parity
  <2>2. CASE n = 2 * h + 1
    <3>1. LowBit(n) = 1 /\ Parent(n) = 2 * h
      BY <2>2, LowHalves DEF Parent
    <3>2. CASE h = 0
      BY <3>1, <3>2 DEF Aligned
    <3>3. CASE h # 0
      <4>1. h \in 1 .. Reach /\ 2 * h <= Reach
        BY <1>0, <2>2, <3>3
      <4>2. LowBit(2 * h) = 2 * LowBit(h) /\ LowBit(h) \in 1 .. h
        BY <4>1, LowHalves, LowBitType
      <4> QED
        BY <3>1, <4>2 DEF Aligned
    <3> QED
      BY <3>2, <3>3
  <2>3. CASE n = 2 * h
    <3>1. h \in 1 .. Reach /\ Parent(h) \in 0 .. h - 1 /\ LowBit(h) \in 1 .. h
      BY <1>0, <2>3, LowBitType
    <3>2. LowBit(n) = 2 * LowBit(h)
      BY <2>3, LowHalves
    <3>3. Parent(n) = 2 * Parent(h)
      BY <2>3, <3>1, <3>2 DEF Parent
    <3>4. Aligned(Parent(h), 2 * LowBit(h))
      BY <1>2, <2>1, <3>1
    <3>5. CASE Parent(h) = 0
      BY <3>3, <3>5 DEF Aligned
    <3>6. CASE Parent(h) # 0
      <4>1. Parent(h) \in 1 .. Reach /\ 2 * Parent(h) <= Reach
        BY <1>0, <2>3, <3>1, <3>6
      <4>2. LowBit(2 * Parent(h)) = 2 * LowBit(Parent(h))
        BY <3>1, <4>1, LowHalves
      <4>3. LowBit(Parent(h)) \in Nat /\ LowBit(Parent(h)) >= 2 * LowBit(h)
        BY <3>4, <3>6, <4>1, LowBitType DEF Aligned
      <4> QED
        BY <3>1, <3>2, <3>3, <4>2, <4>3 DEF Aligned
    <3> QED
      BY <3>5, <3>6
  <2> QED
    BY <2>1, <2>2, <2>3
<1>3. \A n \in Nat : n \in S
  <2> HIDE DEF S
  <2> QED
    BY <1>1, <1>2, HalvingInduction
<1> QED
  BY <1>0, <1>3

\* One step up the tree: among the nodes after b, those that cover block b are
\* those that cover block b + LowBit(b).
LEMMA OneStepUp ==
    \A n \in 1 .. Reach : \A b \in 1 .. n - 1 :
      Parent(n) < b <=> b + LowBit(b) <= n /\ Parent(n) < b + LowBit(b)
<1> DEFINE S == {n \in Nat : n \in 1 .. Reach => \A b \in 1 .. n - 1 :
                   Parent(n) < b <=> b + LowBit(b) <= n /\ Parent(n) < b + LowBit(b)}
<1>0. Reach \in Nat
  BY IndexAssumption DEF Reach
<1>1. 0 \in S
  OBVIOUS
<1>2. ASSUME NEW n \in Nat \ {0}, n \div 2 \in S PROVE n \in S
  <2> SUFFICES ASSUME n \in 1 .. Reach, NEW b \in 1 .. n - 1
               PROVE  Parent(n) < b <=> b + LowBit(b) <= n /\ Parent(n) < b + LowBit(b)
    OBVIOUS
  <2>1. PICK h \in Nat : h = n \div 2 /\ (n = 2 * h \/ n = 2 * h + 1)
    BY Parity
  <2>2. PICK c \in Nat : c = b \div 2 /\ (b = 2 * c \/ b = 2 * c + 1)
    BY Parity
  <2>3. b \in 1 .. Reach /\ c \in 0 .. Reach /\ h \in 0 .. Reach
    BY <1>0, <2>1, <2>2
  <2>4. b = 2 * c + 1 => LowBit(b) = 1
    BY <2>3, LowHalves
  <2>5. b = 2 * c => c \in 1 .. Reach /\ LowBit(c) \in 1 .. c /\ LowBit(b) = 2 * LowBit(c)
    BY <1>0, <2>3, LowHalves, LowBitType
  <2>6. CASE n = 2 * h + 1
    <3>1. Parent(n) = 2 * h
      BY <2>6, LowHalves DEF Parent
    <3>2. CASE b = 2 * c + 1
      BY <2>4, <2>6, <3>1, <3>2
    <3>3. CASE b = 2 * c
      <4>1. PICK l \in Nat : l = LowBit(c) /\ l >= 1
        BY <2>5, <3>3
      <4> QED
        BY <2>5, <2>6, <3>1, <3>3, <4>1
    <3> QED
      BY <2>2, <3>2, <3>3
  <2>7. CASE n = 2 * h
    <3>1. h \in 1 .. Reach /\ Parent(h) \in 0 .. h - 1 /\ LowBit(h) \in 1 .. h
      BY <1>0, <2>3, <2>7, LowBitType
    <3>2. PICK q \in Nat : q = Parent(h)
      BY <3>1
    <3>3. Parent(n) = 2 * q
      BY <2>7, <3>1, <3>2, LowHalves DEF Parent
    <3>4. CASE b = 2 * c + 1
      BY <2>4, <2>7, <3>3, <3>4
    <3>5. CASE b = 2 * c
      <4>1. c \in 1 .. h - 1
        BY <2>3, <2>7, <3>5
      <4>2. Parent(h) < c <=> c + LowBit(c) <= h /\ Parent(h) < c + LowBit(c)
        BY <1>2, <2>1, <3>1, <4>1
      <4>3. PICK l \in Nat : l = LowBit(c)
        BY <2>5, <3>5
      <4> QED
        BY <2>5, <2>7, <3>2, <3>3, <3>5, <4>2, <4>3
    <3> QED
      BY <2>2, <3>4, <3>5
  <2> QED
    BY <2>1, <2>6, <2>7
<1>3. \A n \in Nat : n \in S
  <2> HIDE DEF S
  <2> QED
    BY <1>1, <1>2, HalvingInduction
<1> QED
  BY <1>0, <1>3

-----------------------------------------------------------------------------
(* The walks over nodes.                                                   *)

\* The nodes that count block b, of the first blocks; blocks are numbered from 1.
Covering(b, blocks) == {n \in 1 .. blocks : Parent(n) < b /\ b <= n}

\* Adding the lowest bit visits exactly the nodes that count the block.
LEMMA AncestorsCover ==
    ASSUME NEW blocks \in 0 .. MaxBlocks, NEW b \in 1 .. Reach
    PROVE  Ancestors(b, blocks) = Covering(b, blocks)
<1> DEFINE D == 1 .. Reach
           Def(g) == [n \in D |-> IF n > blocks THEN {} ELSE {n} \cup g[n + LowBit(n)]]
           up == CHOOSE g : g = Def(g)
           cover == [n \in D |-> Covering(n, blocks)]
<1>0. Reach \in Nat /\ MaxBlocks \in Nat /\ blocks \in Nat /\ blocks <= MaxBlocks
      /\ Reach = 2 * MaxBlocks
  BY IndexAssumption DEF Reach
<1>1. Ancestors(b, blocks) = up[b]
  BY DEF Ancestors, Reach
<1>2. ASSUME NEW n \in D, ~ (n > blocks)
      PROVE  /\ n + LowBit(n) \in D /\ n + LowBit(n) > n
             /\ Covering(n, blocks) = {n} \cup Covering(n + LowBit(n), blocks)
  <2>1. LowBit(n) \in 1 .. n /\ Parent(n) \in 0 .. n - 1
    BY LowBitType
  <2>2. n + LowBit(n) \in D /\ n + LowBit(n) > n
    BY <1>0, <1>2, <2>1
  <2>3. n \in Covering(n, blocks)
    BY <1>0, <1>2, <2>1 DEF Covering
  <2>4. ASSUME NEW k \in 1 .. blocks, n < k
        PROVE  k \in Covering(n, blocks) <=> k \in Covering(n + LowBit(n), blocks)
    <3>1. k \in 1 .. Reach /\ n \in 1 .. k - 1 /\ Parent(k) \in 0 .. k - 1
      BY <1>0, <2>4, LowBitType
    <3>2. Parent(k) < n <=> n + LowBit(n) <= k /\ Parent(k) < n + LowBit(n)
      BY <3>1, OneStepUp
    <3> QED
      BY <2>4, <3>1, <3>2 DEF Covering
  <2>5. ASSUME NEW k \in 1 .. blocks, k < n
        PROVE  k \notin Covering(n, blocks) /\ k \notin Covering(n + LowBit(n), blocks)
    BY <1>0, <2>1, <2>2, <2>5 DEF Covering
  <2>6. n \notin Covering(n + LowBit(n), blocks)
    BY <1>0, <2>2 DEF Covering
  <2>7. \A k : k \in Covering(n, blocks) \/ k \in Covering(n + LowBit(n), blocks)
               => k \in 1 .. blocks
    BY DEF Covering
  <2>8. \A k \in 1 .. blocks : n < k \/ k < n \/ k = n
    BY <1>0
  <2> QED
    BY <2>2, <2>3, <2>4, <2>5, <2>6, <2>7, <2>8
<1>3. cover = Def(cover)
  <2>1. ASSUME NEW n \in D
        PROVE  cover[n] = IF n > blocks THEN {} ELSE {n} \cup cover[n + LowBit(n)]
    <3>1. n > blocks => Covering(n, blocks) = {}
      BY <1>0 DEF Covering
    <3> QED
      BY <1>2, <3>1
  <2> QED
    BY <2>1
<1>4. up = Def(up)
  BY <1>3
<1> HIDE DEF up
<1>5. \A n \in D : up[n] = IF n > blocks THEN {} ELSE {n} \cup up[n + LowBit(n)]
  BY <1>4
<1> DEFINE S == {k \in Nat : \A n \in D : n + k = Reach => up[n] = Covering(n, blocks)}
<1>6. ASSUME NEW k \in Nat, \A j \in Nat : j < k => j \in S PROVE k \in S
  <2> SUFFICES ASSUME NEW n \in D, n + k = Reach PROVE up[n] = Covering(n, blocks)
    OBVIOUS
  <2>1. CASE n > blocks
    <3>1. Covering(n, blocks) = {}
      BY <1>0, <2>1 DEF Covering
    <3> QED
      BY <1>5, <2>1, <3>1
  <2>2. CASE ~ (n > blocks)
    <3>1. PICK m \in D : m = n + LowBit(n) /\ m > n
      BY <1>2, <2>2
    <3>2. Reach - m \in Nat /\ Reach - m < k /\ m + (Reach - m) = Reach
      BY <1>0, <3>1
    <3>3. up[m] = Covering(m, blocks)
      BY <1>6, <3>2
    <3> QED
      BY <1>2, <1>5, <2>2, <3>1, <3>3
  <2> QED
    BY <2>1, <2>2
<1>7. \A k \in Nat : k \in S
  <2> HIDE DEF S
  <2> QED
    BY <1>6, StrongInduction
<1>8. Reach - b \in Nat /\ b + (Reach - b) = Reach
  BY <1>0
<1> QED
  BY <1>1, <1>7, <1>8

\* next_power_of_two is what its name says, and within reach.
LEMMA NextPower ==
    \A n \in 0 .. MaxBlocks :
      next_power_of_two(n) \in Powers /\ n <= next_power_of_two(n)
<1> DEFINE D == 0 .. MaxBlocks
           Def(g) == [i \in D |-> IF i <= 1 THEN 1 ELSE 2 * g[(i + 1) \div 2]]
           power == CHOOSE g : g = Def(g)
<1>0. Reach \in Nat /\ MaxBlocks \in Nat \ {0} /\ Reach = 2 * MaxBlocks
  BY IndexAssumption DEF Reach
<1>1. \A n : next_power_of_two(n) = power[n]
  BY DEF next_power_of_two
<1>2. \E g : g = Def(g)
  <2> DEFINE Base == {i \in D : i <= 1}
             m == [i \in D |-> i]
             p == [i \in D |-> (i + 1) \div 2]
             B == [i \in D |-> 1]
             F == [w \in D \X Nat |-> 2 * w[2]]
  <2>1. m \in [D -> 0 .. MaxBlocks] /\ B \in [D -> Nat]
    OBVIOUS
  <2>2. p \in [D -> D]
    <3>1. \A i \in D : (i + 1) \div 2 \in D
      BY <1>0
    <3> QED
      BY <3>1
  <2>3. F \in [D \X Nat -> Nat]
    OBVIOUS
  <2>4. \A x \in D : x \notin Base => m[p[x]] < m[x]
    <3>1. \A x \in D : (x + 1) \div 2 \in D /\ (x > 1 => (x + 1) \div 2 < x)
      BY <1>0
    <3> QED
      BY <1>0, <3>1
  <2>5. Recursive(D, Nat, Base, B, F, p, m, MaxBlocks)
    <3> HIDE DEF D, Base, m, p, B, F
    <3> QED
      BY <1>0, <2>1, <2>2, <2>3, <2>4 DEF Recursive
  <2>6. PICK g \in [D -> Nat] :
          \A x \in D : g[x] = IF x \in Base THEN B[x] ELSE F[<<x, g[p[x]]>>]
    <3> HIDE DEF D, Base, m, p, B, F
    <3> QED
      BY <2>5, RecursionExists
  <2>7. ASSUME NEW i \in D PROVE g[i] = IF i <= 1 THEN 1 ELSE 2 * g[(i + 1) \div 2]
    <3>1. CASE i \in Base
      BY <2>6, <3>1
    <3>2. CASE i \notin Base
      <4>1. g[i] = F[<<i, g[p[i]]>>]
        BY <2>6, <3>2
      <4>2. p[i] = (i + 1) \div 2 /\ g[p[i]] \in Nat
        BY <2>2
      <4>3. F[<<i, g[p[i]]>>] = 2 * g[(i + 1) \div 2]
        BY <4>2
      <4> QED
        BY <3>2, <4>1, <4>3
    <3> QED
      BY <3>1, <3>2
  <2>8. g = Def(g)
    BY <2>6, <2>7
  <2> QED
    BY <2>8
<1>3. power = Def(power)
  BY <1>2
<1> HIDE DEF power
<1>4. \A n \in D : power[n] = IF n <= 1 THEN 1 ELSE 2 * power[(n + 1) \div 2]
  BY <1>3
<1> DEFINE S == {n \in Nat : n \in D => /\ power[n] \in Powers /\ n <= power[n]
                                        /\ n > 1 => power[n] <= 2 * n - 2}
<1>5. ASSUME NEW n \in Nat, \A k \in Nat : k < n => k \in S PROVE n \in S
  <2> SUFFICES ASSUME n \in D
               PROVE  /\ power[n] \in Powers /\ n <= power[n]
                      /\ n > 1 => power[n] <= 2 * n - 2
    OBVIOUS
  <2>1. 1 \in Powers
    <3>1. LowBit(2 * 0 + 1) = 1 /\ 1 \in 1 .. Reach
      BY <1>0, LowHalves
    <3> QED
      BY <3>1 DEF Powers
  <2>2. CASE n <= 1
    BY <1>4, <2>1, <2>2
  <2>3. CASE n > 1
    <3>1. PICK k \in Nat : k = (n + 1) \div 2
      BY <2>3
    <3>2. k < n /\ k \in D /\ k >= 1 /\ n <= 2 * k /\ 2 * k <= n + 1
      BY <1>0, <2>3, <3>1
    <3>3. /\ power[k] \in Powers /\ k <= power[k]
          /\ k > 1 => power[k] <= 2 * k - 2
      BY <1>5, <3>2
    <3>4. power[n] = 2 * power[k]
      BY <1>4, <2>3, <3>1
    <3>5. PICK x \in Nat : x = power[k] /\ x \in 1 .. Reach /\ LowBit(x) = x
      BY <3>3 DEF Powers
    <3>6. k = 1 => x = 1
      BY <1>4, <3>2, <3>5
    <3>7. 2 * x <= 2 * n - 2 /\ n <= 2 * x
      <4>1. CASE k = 1
        BY <2>3, <3>2, <3>6, <4>1
      <4>2. CASE k > 1
        BY <3>2, <3>3, <3>5, <4>2
      <4> QED
        BY <3>2, <4>1, <4>2
    <3>8. 2 * x \in 1 .. Reach
      BY <1>0, <3>5, <3>7
    <3>9. LowBit(2 * x) = 2 * x
      BY <3>5, <3>8, LowHalves
    <3> QED
      BY <3>4, <3>5, <3>7, <3>8, <3>9 DEF Powers
  <2> QED
    BY <2>2, <2>3
<1>6. \A n \in Nat : n \in S
  <2> HIDE DEF S
  <2> QED
    BY <1>5, StrongInduction
<1> QED
  BY <1>0, <1>1, <1>6

\* Clearing lowest bits adds up the nodes on the way to 0.
LEMMA PrefixUnfolds ==
    ASSUME count \in [Node -> [Tier -> Int]], NEW t \in Tier
    PROVE  /\ PrefixCount(t)[0] = 0
           /\ \A n \in Node :
                PrefixCount(t)[n] = count[n][t] + PrefixCount(t)[Parent(n)]
<1> DEFINE D == 0 .. MaxBlocks
           Def(g) == [n \in D |-> IF n = 0 THEN 0 ELSE count[n][t] + g[Parent(n)]]
           sum == CHOOSE g : g = Def(g)
<1>0. MaxBlocks \in Nat \ {0} /\ Reach = 2 * MaxBlocks
  BY IndexAssumption DEF Reach
<1>1. PrefixCount(t) = sum
  BY DEF PrefixCount
<1>2. \A n \in Node : Parent(n) \in 0 .. n - 1
  <2>1. \A n \in Node : n \in 1 .. Reach
    BY <1>0
  <2> QED
    BY <2>1, LowBitType
<1>3. \E g : g = Def(g)
  <2> DEFINE Base == {0}
             m == [n \in D |-> n]
             p == [n \in D |-> IF n = 0 THEN 0 ELSE Parent(n)]
             B == [n \in D |-> 0]
             F == [w \in D \X Int |-> IF w[1] = 0 THEN 0 ELSE count[w[1]][t] + w[2]]
  <2>1. m \in [D -> 0 .. MaxBlocks] /\ B \in [D -> Int]
    OBVIOUS
  <2>2. \A n \in D : n # 0 => n \in Node /\ Parent(n) \in D /\ Parent(n) < n
    BY <1>0, <1>2
  <2>3. p \in [D -> D]
    BY <1>0, <2>2
  <2>4. F \in [D \X Int -> Int]
    <3>1. \A n \in Node : count[n][t] \in Int
      OBVIOUS
    <3>2. \A w \in D \X Int : w[1] # 0 => w[1] \in Node /\ w[2] \in Int
      BY <1>0
    <3> QED
      BY <3>1, <3>2
  <2>5. \A x \in D : x \notin Base => m[p[x]] < m[x]
    BY <2>2
  <2>6. Recursive(D, Int, Base, B, F, p, m, MaxBlocks)
    <3> HIDE DEF D, Base, m, p, B, F
    <3> QED
      BY <1>0, <2>1, <2>3, <2>4, <2>5 DEF Recursive
  <2>7. PICK g \in [D -> Int] :
          \A x \in D : g[x] = IF x \in Base THEN B[x] ELSE F[<<x, g[p[x]]>>]
    <3> HIDE DEF D, Base, m, p, B, F
    <3> QED
      BY <2>6, RecursionExists
  <2>8. ASSUME NEW n \in D PROVE g[n] = IF n = 0 THEN 0 ELSE count[n][t] + g[Parent(n)]
    <3>1. CASE n = 0
      BY <2>7, <3>1
    <3>2. CASE n # 0
      <4>1. g[n] = F[<<n, g[p[n]]>>]
        BY <2>7, <3>2
      <4>2. p[n] = Parent(n) /\ g[p[n]] \in Int
        BY <2>3, <3>2
      <4>3. F[<<n, g[p[n]]>>] = count[n][t] + g[Parent(n)]
        BY <3>2, <4>2
      <4> QED
        BY <3>2, <4>1, <4>3
    <3> QED
      BY <3>1, <3>2
  <2>9. g = Def(g)
    BY <2>7, <2>8
  <2> QED
    BY <2>9
<1>4. sum = Def(sum)
  BY <1>3
<1> HIDE DEF sum
<1>5. \A n \in D : sum[n] = IF n = 0 THEN 0 ELSE count[n][t] + sum[Parent(n)]
  BY <1>4
<1>6. 0 \in D /\ \A n \in Node : n \in D /\ n # 0
  BY <1>0
<1> QED
  BY <1>1, <1>5, <1>6

-----------------------------------------------------------------------------
(* Blocks of positions.                                                    *)

\* The first position of the block after n blocks, and the block of a position.
First(n) == n * BlockSize
Block(p) == p \div BlockSize

\* Blocks follow one another, and every position is in one.
LEMMA BlockFacts ==
    /\ First(0) = 0
    /\ \A n \in Nat : First(n) \in Nat /\ First(n + 1) = First(n) + BlockSize
    /\ \A m, n \in Nat : m <= n => First(m) <= First(n)
    /\ \A p \in Nat : Block(p) \in Nat
    /\ \A p, n \in Nat : p < First(n) <=> Block(p) < n
<1>0. BlockSize \in Nat \ {0}
  BY IndexAssumption
<1>1. \A n \in Nat : First(n) \in Nat /\ First(n + 1) = First(n) + BlockSize
  BY <1>0 DEF First
<1>2. ASSUME NEW m \in Nat, NEW n \in Nat, m < n PROVE First(m) + BlockSize <= First(n)
  BY <1>0, <1>2 DEF First
<1>3. \A m, n \in Nat : m <= n => First(m) <= First(n)
  <2>1. \A m, n \in Nat : m <= n => m < n \/ m = n
    OBVIOUS
  <2> QED
    BY <1>0, <1>1, <1>2, <2>1
<1>4. \A p \in Nat : /\ Block(p) \in Nat /\ First(Block(p)) <= p
                     /\ p < First(Block(p)) + BlockSize
  BY <1>0 DEF First, Block
<1>5. ASSUME NEW p \in Nat, NEW n \in Nat PROVE p < First(n) <=> Block(p) < n
  <2>1. Block(p) < n => p < First(n)
    BY <1>0, <1>1, <1>2, <1>4
  <2>2. n <= Block(p) => First(n) <= p
    BY <1>1, <1>3, <1>4
  <2> QED
    BY <1>1, <1>4, <2>1, <2>2
<1>6. First(0) = 0
  BY <1>0 DEF First
<1> QED
  BY <1>1, <1>3, <1>4, <1>5, <1>6

\* The blocks of v positions hold them all; the next position is in the last of
\* the blocks of v + 1, which is a new one at the multiples of the block size.
LEMMA SpaceFacts ==
    ASSUME NEW v \in 0 .. First(MaxBlocks)
    PROVE  /\ Space(v) \in 0 .. MaxBlocks /\ v <= First(Space(v))
           /\ Space(v + 1) = Block(v) + 1
           /\ v % BlockSize = 0 => Space(v) = Block(v) /\ First(Block(v)) = v
           /\ v % BlockSize # 0 => Space(v) = Block(v) + 1
<1>0. BlockSize \in Nat \ {0} /\ MaxBlocks \in Nat /\ v \in Nat
  BY IndexAssumption, BlockFacts
<1>1. PICK b \in Nat : b = BlockSize /\ b # 0
  BY <1>0
<1>2. PICK q \in Nat, r \in 0 .. b - 1 : q = v \div b /\ r = v % b /\ v = q * b + r
  BY <1>0, <1>1
<1>3. (v + 1 + b - 1) \div b = q + 1
  <2>1. v + 1 + b - 1 = (q + 1) * b + r
    BY <1>0, <1>1, <1>2
  <2> QED
    BY <1>1, <1>2, <2>1
<1>4. r = 0 => (v + b - 1) \div b = q
  <2>1. r = 0 => v + b - 1 = q * b + (b - 1)
    BY <1>0, <1>1, <1>2
  <2>2. (q * b + (b - 1)) \div b = q
    BY <1>1, <1>2
  <2> QED
    BY <2>1, <2>2
<1>5. r # 0 => (v + b - 1) \div b = q + 1
  <2>1. v + b - 1 = (q + 1) * b + (r - 1)
    BY <1>0, <1>1, <1>2
  <2>2. r # 0 => ((q + 1) * b + (r - 1)) \div b = q + 1
    BY <1>1, <1>2
  <2> QED
    BY <2>1, <2>2
<1>6. /\ Space(v + 1) = q + 1 /\ Block(v) = q /\ First(Block(v)) = q * b
      /\ r = 0 => Space(v) = q
      /\ r # 0 => Space(v) = q + 1
  BY <1>1, <1>2, <1>3, <1>4, <1>5 DEF Space, Block, First
<1>7. r # 0 => q < MaxBlocks
  <2>1. First(MaxBlocks) \in Nat
    BY <1>0, BlockFacts
  <2>2. r # 0 => v # First(MaxBlocks)
    <3>1. PICK M \in Nat : M = MaxBlocks
      BY <1>0
    <3>2. (M * b) \div b = M
      BY <1>1, <3>1
    <3>3. v = First(MaxBlocks) => v = q * b
      BY <1>1, <1>2, <3>1, <3>2 DEF First
    <3> QED
      BY <1>0, <1>1, <1>2, <3>3
  <2>3. v < First(MaxBlocks) <=> Block(v) < MaxBlocks
    BY <1>0, BlockFacts
  <2> QED
    BY <1>0, <1>6, <2>1, <2>2, <2>3
<1>8. r = 0 => q <= MaxBlocks
  <2>1. r = 0 => First(q) = v
    BY <1>1, <1>2 DEF First
  <2>2. First(MaxBlocks) \in Nat /\ First(MaxBlocks + 1) = First(MaxBlocks) + BlockSize
    BY <1>0, BlockFacts
  <2>3. v < First(MaxBlocks + 1) <=> Block(v) < MaxBlocks + 1
    BY <1>0, BlockFacts
  <2> QED
    BY <1>0, <1>2, <1>6, <2>2, <2>3
<1>9. v < First(q + 1) /\ First(q) <= v
  <2>1. v < First(q + 1) <=> q < q + 1
    BY <1>0, <1>6, BlockFacts
  <2>2. v < First(q) <=> q < q
    BY <1>0, <1>6, BlockFacts
  <2> QED
    BY <1>0, <2>1, <2>2, BlockFacts
<1>10. Space(v) \in 0 .. MaxBlocks
  BY <1>0, <1>2, <1>6, <1>7, <1>8
<1>11. v <= First(Space(v))
  <2>1. CASE r = 0
    BY <1>0, <1>2, <1>6, <2>1
  <2>2. CASE r # 0
    <3>1. First(q + 1) \in Nat
      <4>1. q + 1 \in Nat
        OBVIOUS
      <4> QED
        BY <4>1, BlockFacts
    <3> QED
      BY <1>0, <1>6, <1>9, <2>2, <3>1
  <2> QED
    BY <2>1, <2>2
<1> QED
  BY <1>1, <1>2, <1>6, <1>10, <1>11

-----------------------------------------------------------------------------
(* Counting prizes.                                                        *)

\* The positions a .. b - 1 of tier t under the tags T, and how many there are.
Within(T, a, b, t) == {p \in a .. b - 1 : T[p] = t + 1}
Number(T, a, b, t) == Cardinality(Within(T, a, b, t))

\* Counts are natural numbers.
LEMMA NumberType ==
    ASSUME NEW T, NEW t, NEW a \in Int, NEW b \in Int
    PROVE  IsFiniteSet(Within(T, a, b, t)) /\ Number(T, a, b, t) \in Nat
<1>1. IsFiniteSet(a .. b - 1)
  <2>1. b - 1 \in Int
    OBVIOUS
  <2> QED
    BY <2>1, FS_Interval
<1>2. Within(T, a, b, t) \in SUBSET (a .. b - 1)
  BY DEF Within
<1>3. IsFiniteSet(Within(T, a, b, t))
  BY <1>1, <1>2, FS_Subset
<1> QED
  BY <1>3, FS_CardinalityType DEF Number

\* An interval splits at any point of it.
LEMMA NumberSplits ==
    ASSUME NEW T, NEW t, NEW a \in Int, NEW b \in Int, NEW c \in Int, a <= b, b <= c
    PROVE  Number(T, a, c, t) = Number(T, a, b, t) + Number(T, b, c, t)
<1> DEFINE L == Within(T, a, b, t)
           R == Within(T, b, c, t)
<1>1. L \cup R = Within(T, a, c, t) /\ L \cap R = {}
  BY DEF Within
<1>2. IsFiniteSet(L) /\ IsFiniteSet(R) /\ Cardinality(L) \in Nat /\ Cardinality(R) \in Nat
  BY NumberType DEF Number
<1>3. Cardinality(L \cup R) = Cardinality(L) + Cardinality(R) - Cardinality(L \cap R)
  <2> HIDE DEF L, R
  <2> QED
    BY <1>2, FS_Union
<1>4. Cardinality(L \cap R) = 0
  BY <1>1, FS_EmptySet
<1>5. Cardinality(L \cup R) = Cardinality(L) + Cardinality(R)
  <2> HIDE DEF L, R
  <2> QED
    BY <1>2, <1>3, <1>4
<1> QED
  BY <1>1, <1>5 DEF Number

\* A longer prefix counts at least as much.
LEMMA NumberGrows ==
    ASSUME NEW T, NEW t, NEW a \in Int, NEW b \in Int, NEW c \in Int, a <= b, b <= c
    PROVE  Number(T, a, b, t) <= Number(T, a, c, t)
<1>1. Number(T, a, b, t) \in Nat /\ Number(T, b, c, t) \in Nat
  BY NumberType
<1> QED
  BY <1>1, NumberSplits

\* One position counts for itself.
LEMMA NumberOfOne ==
    ASSUME NEW T, NEW t, NEW p \in Int
    PROVE  Number(T, p, p + 1, t) = IF T[p] = t + 1 THEN 1 ELSE 0
<1>1. T[p] = t + 1 => Within(T, p, p + 1, t) = {p}
  BY DEF Within
<1>2. T[p] # t + 1 => Within(T, p, p + 1, t) = {}
  BY DEF Within
<1> QED
  BY <1>1, <1>2, FS_EmptySet, FS_Singleton DEF Number

\* Intervals on which two taggings agree count the same.
LEMMA NumberAgrees ==
    ASSUME NEW T, NEW U, NEW t, NEW a \in Int, NEW b \in Int,
           \A p \in a .. b - 1 : (T[p] = t + 1) <=> (U[p] = t + 1)
    PROVE  Number(T, a, b, t) = Number(U, a, b, t)
<1>1. Within(T, a, b, t) = Within(U, a, b, t)
  BY DEF Within
<1> QED
  BY <1>1 DEF Number

\* Intervals without the tier count nothing.
LEMMA NumberOfNone ==
    ASSUME NEW T, NEW t, NEW a \in Int, NEW b \in Int,
           \A p \in a .. b - 1 : T[p] # t + 1
    PROVE  Number(T, a, b, t) = 0
<1>1. Within(T, a, b, t) = {}
  BY DEF Within
<1> QED
  BY <1>1, FS_EmptySet DEF Number

\* What one tag contributes to the count of a tier.
Unit(T, p, t) == IF T[p] = t + 1 THEN 1 ELSE 0

\* Changing one tag changes the counts of the intervals around it, by itself.
LEMMA NumberChanges ==
    ASSUME NEW T, NEW U, NEW t, NEW a \in Int, NEW b \in Int, NEW p \in Int,
           \A q \in a .. b - 1 : q # p => U[q] = T[q]
    PROVE  /\ p \in a .. b - 1 =>
                Number(U, a, b, t) = Number(T, a, b, t) - Unit(T, p, t) + Unit(U, p, t)
           /\ p \notin a .. b - 1 => Number(U, a, b, t) = Number(T, a, b, t)
<1>1. CASE p \notin a .. b - 1
  <2>1. \A q \in a .. b - 1 : (T[q] = t + 1) <=> (U[q] = t + 1)
    BY <1>1
  <2>2. Number(T, a, b, t) = Number(U, a, b, t)
    BY <2>1, NumberAgrees
  <2> QED
    BY <1>1, <2>2
<1>2. CASE p \in a .. b - 1
  <2>1. a <= p /\ p <= p + 1 /\ p + 1 <= b /\ p <= b /\ p + 1 \in Int
    BY <1>2
  <2>2. /\ Number(T, a, b, t) = Number(T, a, p, t) + Number(T, p, b, t)
        /\ Number(T, p, b, t) = Number(T, p, p + 1, t) + Number(T, p + 1, b, t)
    BY <2>1, NumberSplits
  <2>3. /\ Number(U, a, b, t) = Number(U, a, p, t) + Number(U, p, b, t)
        /\ Number(U, p, b, t) = Number(U, p, p + 1, t) + Number(U, p + 1, b, t)
    BY <2>1, NumberSplits
  <2>4. Number(T, a, p, t) = Number(U, a, p, t)
    <3>1. \A q \in a .. p - 1 : (T[q] = t + 1) <=> (U[q] = t + 1)
      BY <1>2
    <3> QED
      BY <3>1, NumberAgrees
  <2>5. Number(T, p + 1, b, t) = Number(U, p + 1, b, t)
    <3>1. \A q \in p + 1 .. b - 1 : (T[q] = t + 1) <=> (U[q] = t + 1)
      BY <1>2
    <3> QED
      BY <2>1, <3>1, NumberAgrees
  <2>6. /\ Number(T, p, p + 1, t) = Unit(T, p, t)
        /\ Number(U, p, p + 1, t) = Unit(U, p, t)
    BY NumberOfOne DEF Unit
  <2>7. Unit(T, p, t) \in Nat /\ Unit(U, p, t) \in Nat
    BY DEF Unit
  <2>8. Number(T, a, p, t) \in Nat /\ Number(T, p + 1, b, t) \in Nat
    BY <2>1, NumberType
  <2>9. Number(U, a, b, t) = Number(T, a, b, t) - Unit(T, p, t) + Unit(U, p, t)
    BY <2>2, <2>3, <2>4, <2>5, <2>6, <2>7, <2>8
  <2> QED
    BY <1>2, <2>9
<1> QED
  BY <1>1, <1>2

\* Every rank below a count belongs to exactly one prize.
LEMMA RankSelects ==
    ASSUME NEW T, NEW t, NEW a \in Nat, NEW b \in Nat, NEW r \in Nat,
           r < Number(T, a, b, t)
    PROVE  \E p \in Within(T, a, b, t) :
             {q \in Within(T, a, b, t) : Number(T, a, q, t) = r} = {p}
<1> DEFINE S == {q \in Nat : a <= q /\ q <= b /\ r < Number(T, a, q, t)}
<1>1. \A q \in Nat : Number(T, a, q, t) \in Nat
  BY NumberType
<1>2. \A q \in a .. b - 1 : /\ q \in Nat /\ q + 1 \in Nat
                            /\ Number(T, a, q + 1, t)
                               = Number(T, a, q, t) + Unit(T, q, t)
  <2> SUFFICES ASSUME NEW q \in a .. b - 1
               PROVE  /\ q \in Nat /\ q + 1 \in Nat
                      /\ Number(T, a, q + 1, t) = Number(T, a, q, t) + Unit(T, q, t)
    OBVIOUS
  <2>1. q \in Nat /\ q + 1 \in Nat /\ a <= q /\ q <= q + 1
    OBVIOUS
  <2>2. Number(T, a, q + 1, t) = Number(T, a, q, t) + Number(T, q, q + 1, t)
    BY <2>1, NumberSplits
  <2> QED
    BY <2>1, <2>2, NumberOfOne DEF Unit
<1>3. a <= b
  <2>1. b < a => \A p \in a .. b - 1 : T[p] # t + 1
    OBVIOUS
  <2>2. b < a => Number(T, a, b, t) = 0
    BY <2>1, NumberOfNone
  <2> QED
    BY <2>2
<1>4. PICK x \in S : \A y \in S : x <= y
  <2>1. b \in S /\ S \subseteq Nat
    BY <1>3
  <2> HIDE DEF S
  <2> QED
    BY <2>1, LeastElement
<1>5. x # a
  <2>1. \A p \in a .. a - 1 : T[p] # t + 1
    OBVIOUS
  <2>2. Number(T, a, a, t) = 0
    BY <2>1, NumberOfNone
  <2> QED
    BY <1>4, <2>2
<1>6. PICK p \in a .. b - 1 : x = p + 1
  <2>1. x - 1 \in a .. b - 1 /\ x = (x - 1) + 1
    BY <1>4, <1>5
  <2> QED
    BY <2>1
<1>7. p \in Nat /\ p \notin S
  BY <1>2, <1>4, <1>6
<1>8. Number(T, a, p, t) <= r
  BY <1>1, <1>7
<1>9. r < Number(T, a, p, t) + Unit(T, p, t)
  BY <1>2, <1>4, <1>6
<1>10. T[p] = t + 1 /\ Number(T, a, p, t) = r
  BY <1>1, <1>7, <1>8, <1>9 DEF Unit
<1>11. ASSUME NEW q \in Within(T, a, b, t), NEW s \in Within(T, a, b, t), q < s
       PROVE  Number(T, a, q, t) < Number(T, a, s, t)
  <2>1. q \in a .. b - 1 /\ s \in a .. b - 1 /\ T[q] = t + 1 /\ q \in Nat /\ s \in Nat
    BY <1>2 DEF Within
  <2>2. Number(T, a, q + 1, t) = Number(T, a, q, t) + 1
    BY <1>2, <2>1 DEF Unit
  <2>3. a <= q + 1 /\ q + 1 <= s /\ q + 1 \in Int
    BY <1>11, <2>1
  <2>4. Number(T, a, q + 1, t) <= Number(T, a, s, t)
    BY <2>1, <2>3, NumberGrows
  <2> QED
    BY <1>1, <2>1, <2>2, <2>4
<1>12. p \in Within(T, a, b, t)
  BY <1>10 DEF Within
<1>13. ASSUME NEW q \in Within(T, a, b, t), Number(T, a, q, t) = r PROVE q = p
  <2>1. q \in Int /\ p \in Int
    BY DEF Within
  <2>2. ~ (q < p) /\ ~ (p < q)
    BY <1>10, <1>11, <1>12, <1>13
  <2> QED
    BY <2>1, <2>2
<1> QED
  BY <1>10, <1>12, <1>13

-----------------------------------------------------------------------------
(* The invariant, and reading under it.                                    *)

\* The first blocks nodes count exactly what the tags T hold.
Exact(counts, T, blocks) ==
    \A n \in 1 .. blocks, t \in Tier :
      counts[n][t] = Number(T, First(Parent(n)), First(n), t)

\* The nodes are exact, and nothing is tagged beyond the version.
IndexInv ==
    /\ version \in 0 .. First(MaxBlocks)
    /\ tag \in [Position -> 0 .. MaxTiers]
    /\ count \in [Node -> [Tier -> Int]]
    /\ \A p \in Position : version <= p => tag[p] = 0
    /\ Exact(count, tag, Blocks)

\* The last conjunct is NodesExact.
LEMMA ExactNodes == Exact(count, tag, Blocks) <=> NodesExact
BY DEF Exact, NodesExact, Coverage, Number, Within, First

\* Blocks allocated, under the invariant.
LEMMA BlocksFacts ==
    ASSUME IndexInv
    PROVE  /\ Blocks \in 0 .. MaxBlocks /\ version <= First(Blocks)
           /\ version \in Nat /\ MaxBlocks \in Nat
<1>1. MaxBlocks \in Nat /\ First(MaxBlocks) \in Nat
  BY IndexAssumption, BlockFacts
<1> QED
  BY <1>1, SpaceFacts DEF IndexInv, Blocks

\* The prizes of tier t in the first n blocks.
Before(n, t) == Number(tag, 0, First(n), t)

\* Prefixes are counted in natural numbers, and grow.
LEMMA BeforeGrows ==
    /\ \A n \in Nat, t \in Tier : Before(n, t) \in Nat
    /\ \A t \in Tier : Before(0, t) = 0
    /\ \A m, n \in Nat, t \in Tier :
         m <= n => /\ Before(m, t) <= Before(n, t)
                   /\ Before(n, t) = Before(m, t) + Number(tag, First(m), First(n), t)
<1>1. ASSUME NEW t \in Tier PROVE Before(0, t) = 0
  <2>1. \A p \in 0 .. First(0) - 1 : tag[p] # t + 1
    BY BlockFacts
  <2> QED
    BY <2>1, BlockFacts, NumberOfNone DEF Before
<1>2. ASSUME NEW n \in Nat, NEW t \in Tier PROVE Before(n, t) \in Nat
  <2>1. First(n) \in Int
    BY BlockFacts
  <2> QED
    BY <2>1, NumberType DEF Before
<1>3. ASSUME NEW m \in Nat, NEW n \in Nat, NEW t \in Tier, m <= n
      PROVE  /\ Before(m, t) <= Before(n, t)
             /\ Before(n, t) = Before(m, t) + Number(tag, First(m), First(n), t)
  <2>1. First(m) \in Nat /\ First(n) \in Nat /\ First(m) <= First(n)
    BY <1>3, BlockFacts
  <2> QED
    BY <2>1, NumberGrows, NumberSplits DEF Before
<1> QED
  BY <1>1, <1>2, <1>3

\* A prefix of whole blocks is summed from nodes that do not overlap.
LEMMA PrefixExact ==
    ASSUME IndexInv, NEW t \in Tier
    PROVE  \A n \in 0 .. Blocks : PrefixCount(t)[n] = Before(n, t)
<1> DEFINE S == {n \in Nat : n <= Blocks => PrefixCount(t)[n] = Before(n, t)}
<1>0. Blocks \in 0 .. MaxBlocks /\ MaxBlocks \in Nat \ {0} /\ Reach = 2 * MaxBlocks
  BY BlocksFacts, IndexAssumption DEF Reach
<1>1. /\ PrefixCount(t)[0] = 0
      /\ \A n \in Node : PrefixCount(t)[n] = count[n][t] + PrefixCount(t)[Parent(n)]
  BY PrefixUnfolds DEF IndexInv
<1>2. ASSUME NEW n \in Nat, \A k \in Nat : k < n => k \in S PROVE n \in S
  <2>1. CASE n = 0
    BY <1>1, <2>1, BeforeGrows
  <2>2. CASE n # 0
    <3> SUFFICES ASSUME n <= Blocks PROVE PrefixCount(t)[n] = Before(n, t)
      OBVIOUS
    <3>1. n \in Node /\ n \in 1 .. Reach /\ n \in 1 .. Blocks
      BY <1>0, <2>2
    <3>2. Parent(n) \in 0 .. n - 1
      BY <3>1, LowBitType
    <3>3. Parent(n) \in Nat /\ Parent(n) < n /\ Parent(n) <= Blocks
      BY <1>0, <3>1, <3>2
    <3>4. PrefixCount(t)[Parent(n)] = Before(Parent(n), t)
      BY <1>2, <3>3
    <3>5. count[n][t] = Number(tag, First(Parent(n)), First(n), t)
      BY <3>1 DEF IndexInv, Exact
    <3>6. Before(n, t) = Before(Parent(n), t) + Number(tag, First(Parent(n)), First(n), t)
      BY <3>3, BeforeGrows
    <3>7. Before(Parent(n), t) \in Nat /\ count[n][t] \in Int
      BY <3>1, <3>3, BeforeGrows DEF IndexInv
    <3> QED
      BY <1>1, <3>1, <3>4, <3>5, <3>6, <3>7
  <2> QED
    BY <2>1, <2>2
<1>3. \A n \in Nat : n \in S
  <2> HIDE DEF S
  <2> QED
    BY <1>2, StrongInduction
<1> QED
  BY <1>0, <1>3

\* Counts is the linear scan.
LEMMA ExactCounts ==
    ASSUME IndexInv, NEW cutoff \in 0 .. version, NEW t \in Tier
    PROVE  Counts(cutoff)[t] = Number(tag, 0, cutoff, t)
<1> DEFINE b == Block(cutoff)
<1>0. /\ Blocks \in 0 .. MaxBlocks /\ MaxBlocks \in Nat /\ version \in Nat
      /\ version <= First(Blocks)
  BY BlocksFacts
<1>1. cutoff \in Nat /\ b \in Nat /\ First(b) \in Nat /\ First(Blocks) \in Nat
  <2>1. cutoff \in Nat /\ Blocks \in Nat
    BY <1>0
  <2>2. b \in Nat
    BY <2>1, BlockFacts
  <2> HIDE DEF b
  <2> QED
    BY <2>1, <2>2, BlockFacts
<1>2. First(b) <= cutoff
  <2>1. cutoff < First(b) <=> Block(cutoff) < b
    BY <1>1, BlockFacts
  <2> QED
    BY <1>1, <2>1
<1>3. b \in 0 .. Blocks
  <2>1. Blocks + 1 \in Nat /\ First(Blocks + 1) = First(Blocks) + BlockSize
        /\ BlockSize \in Nat \ {0}
    BY <1>0, BlockFacts, IndexAssumption
  <2>2. cutoff < First(Blocks + 1) <=> b < Blocks + 1
    BY <1>1, <2>1, BlockFacts
  <2> QED
    BY <1>0, <1>1, <2>1, <2>2
<1>4. Counts(cutoff)[t] = PrefixCount(t)[b] + Number(tag, First(b), cutoff, t)
  BY DEF Counts, Number, Within, Tagged, First, Block
<1>5. PrefixCount(t)[b] = Number(tag, 0, First(b), t)
  BY <1>3, PrefixExact DEF Before
<1> HIDE DEF b
<1> QED
  BY <1>1, <1>2, <1>4, <1>5, NumberSplits

-----------------------------------------------------------------------------
(* The descent.                                                            *)

\* States of the descent.
Walker == [node : Nat, rank : Int, path : SUBSET Nat]

\* Multiples of the double of a power of two are that double apart.
LEMMA AlignedTwiceApart ==
    ASSUME NEW s \in Powers, NEW x \in 0 .. Reach, NEW y \in 0 .. Reach,
           Aligned(x, 2 * s), Aligned(y, 2 * s), x < y
    PROVE  x + 2 * s <= y
<1>0. Reach \in Nat /\ s \in 1 .. Reach /\ LowBit(s) = s
  BY IndexAssumption DEF Reach, Powers
<1>1. CASE 2 * s <= Reach
  <2>1. 2 * s \in 1 .. Reach /\ LowBit(2 * s) = 2 * s
    BY <1>0, <1>1, LowHalves
  <2>2. 2 * s \in Powers
    BY <2>1 DEF Powers
  <2> QED
    BY <2>2, AlignedApart
<1>2. CASE 2 * s > Reach
  <2>1. y \in 1 .. Reach /\ LowBit(y) >= 2 * s
    BY <1>0 DEF Aligned
  <2>2. LowBit(y) \in 1 .. y
    BY <2>1, LowBitType
  <2> QED
    BY <1>0, <1>2, <2>1, <2>2
<1> QED
  BY <1>0, <1>1, <1>2

\* The descent stays a descent: node, rank and path keep their types.
LEMMA DescendType ==
    ASSUME IndexInv, NEW t \in Tier, NEW w \in Walker, NEW s \in Nat \ {0}
    PROVE  Descend(w, s, t) \in Walker
<1>0. Blocks \in 0 .. MaxBlocks /\ MaxBlocks \in Nat /\ w.node \in Nat /\ w.rank \in Int
      /\ w.path \in SUBSET Nat
  BY BlocksFacts DEF Walker
<1>1. CASE w.node + s > Blocks
  BY <1>1 DEF Descend
<1>2. CASE ~ (w.node + s > Blocks)
  <2>1. w.node + s \in Node /\ w.node + s \in Nat
    BY <1>0, <1>2
  <2>2. count[w.node + s][t] \in Int
    BY <2>1 DEF IndexInv
  <2>3. [w EXCEPT !.node = w.node + s, !.rank = w.rank - count[w.node + s][t]] \in Walker
    <3>1. ASSUME NEW x \in Nat, NEW y \in Int
          PROVE  [w EXCEPT !.node = x, !.rank = y] \in Walker
      BY DEF Walker
    <3>2. w.rank - count[w.node + s][t] \in Int
      BY <1>0, <2>2
    <3> QED
      BY <2>1, <3>1, <3>2
  <2>4. [w EXCEPT !.path = w.path \cup {w.node + s}] \in Walker
    BY <1>0, <2>1 DEF Walker
  <2>5. CASE Skips(w, w.node + s, t)
    BY <1>2, <2>3, <2>5 DEF Descend, RankAfter
  <2>6. CASE ~ Skips(w, w.node + s, t)
    BY <1>2, <2>4, <2>6 DEF Descend
  <2> QED
    BY <2>5, <2>6
<1> QED
  BY <1>1, <1>2

\* The nodes on the way to the rank-th prize: it is among the prizes they count.
OnPath(n, t, rank) == Before(Parent(n), t) <= rank /\ rank < Before(n, t)

\* Once every step down to s has been tried, the walker has skipped whole multiples
\* of s blocks, all before the prize; the prize is in the s blocks that follow; and
\* its path holds the nodes of s blocks or more that count the prize.
Walked(w, s, t, rank) ==
    /\ w \in Walker
    /\ w.node <= Blocks /\ Aligned(w.node, s)
    /\ w.rank = rank - Before(w.node, t) /\ Before(w.node, t) <= rank
    /\ w.node + s <= Blocks => rank < Before(w.node + s, t)
    /\ w.path = {n \in 1 .. Blocks : LowBit(n) >= s /\ OnPath(n, t, rank)}

\* The only node of s blocks that may be on the path is the next one.
LEMMA NextOnPath ==
    ASSUME IndexInv, NEW t \in Tier, NEW rank \in Nat, NEW s \in Powers, NEW w,
           Walked(w, 2 * s, t, rank)
    PROVE  \A n \in 1 .. Blocks :
             LowBit(n) >= s /\ OnPath(n, t, rank) =>
               LowBit(n) >= 2 * s \/ (n = w.node + s /\ LowBit(n) = s)
<1> SUFFICES ASSUME NEW n \in 1 .. Blocks, LowBit(n) >= s, OnPath(n, t, rank),
                    ~ (LowBit(n) >= 2 * s)
             PROVE  n = w.node + s /\ LowBit(n) = s
  OBVIOUS
<1> DEFINE a == w.node
           q == Parent(n)
<1>0. /\ Blocks \in 0 .. MaxBlocks /\ MaxBlocks \in Nat /\ Reach = 2 * MaxBlocks
      /\ s \in 1 .. Reach /\ a \in Nat /\ a <= Blocks
  BY BlocksFacts DEF Powers, Reach, Walked, Walker
<1>1. n \in 1 .. Reach /\ a \in 0 .. Reach
  BY <1>0
<1>2. LowBit(n) \in Powers /\ LowBit(n) \in 1 .. n /\ q \in 0 .. n - 1
  BY <1>1, LowBitType
<1>3. LowBit(n) = s
  <2>1. s < LowBit(n) => 2 * s <= LowBit(n)
    BY <1>2, PowersApart
  <2> QED
    BY <1>0, <1>2, <2>1
<1>4. q \in 0 .. Reach /\ q \in Nat /\ n \in Nat /\ n = q + s
  BY <1>0, <1>1, <1>2, <1>3 DEF Parent
<1>5. Aligned(q, 2 * s) /\ Aligned(a, 2 * s)
  BY <1>1, <1>3, ParentAligned DEF Walked
<1>6. Before(q, t) <= rank /\ rank < Before(n, t) /\ Before(a, t) <= rank
  BY DEF OnPath, Walked
<1>7. Before(q, t) \in Nat /\ Before(n, t) \in Nat /\ Before(a, t) \in Nat
  BY <1>0, <1>4, BeforeGrows
<1>8. ~ (q < a)
  <2> SUFFICES ASSUME q < a PROVE FALSE
    OBVIOUS
  <2>1. q + 2 * s <= a
    BY <1>1, <1>4, <1>5, AlignedTwiceApart
  <2>2. n <= a
    BY <1>0, <1>4, <2>1
  <2>3. Before(n, t) <= Before(a, t)
    BY <1>0, <1>4, <2>2, BeforeGrows
  <2> QED
    BY <1>6, <1>7, <2>3
<1>9. ~ (a < q)
  <2> SUFFICES ASSUME a < q PROVE FALSE
    OBVIOUS
  <2>1. a + 2 * s <= q
    BY <1>1, <1>4, <1>5, AlignedTwiceApart
  <2>2. a + 2 * s \in Nat /\ a + 2 * s <= Blocks
    BY <1>0, <1>2, <1>4, <2>1
  <2>3. rank < Before(a + 2 * s, t)
    BY <2>2 DEF Walked
  <2>4. Before(a + 2 * s, t) <= Before(q, t) /\ Before(a + 2 * s, t) \in Nat
    BY <1>4, <2>1, <2>2, BeforeGrows
  <2> QED
    BY <1>6, <1>7, <2>3, <2>4
<1> QED
  BY <1>0, <1>3, <1>4, <1>8, <1>9

\* Trying the next smaller step.
LEMMA DescendWalks ==
    ASSUME IndexInv, NEW t \in Tier, NEW rank \in Nat, NEW s \in Powers, NEW w,
           Walked(w, 2 * s, t, rank)
    PROVE  Walked(Descend(w, s, t), s, t, rank)
<1> DEFINE a == w.node
           next == w.node + s
           On(x) == {n \in 1 .. Blocks : LowBit(n) >= x /\ OnPath(n, t, rank)}
<1>0. /\ Blocks \in 0 .. MaxBlocks /\ MaxBlocks \in Nat /\ Reach = 2 * MaxBlocks
      /\ s \in 1 .. Reach /\ a \in Nat /\ a <= Blocks /\ w \in Walker
      /\ Reach \in Nat
  BY BlocksFacts DEF Powers, Reach, Walked, Walker
<1>1. a \in 0 .. Reach /\ s \in Nat \ {0} /\ next \in Nat
  BY <1>0
<1>2. a = 0 \/ LowBit(a) >= 2 * s
  BY DEF Walked, Aligned
<1>3. a = 0 \/ (LowBit(a) > s /\ LowBit(a) >= s)
  <2>1. a # 0 => LowBit(a) \in Nat
    BY <1>1, LowBitType
  <2> QED
    BY <1>1, <1>2, <2>1
<1>4. \A n \in 1 .. Blocks : LowBit(n) >= 2 * s => LowBit(n) >= s
  <2>1. \A n \in 1 .. Blocks : LowBit(n) \in Nat
    <3>1. \A n \in 1 .. Blocks : n \in 1 .. Reach
      BY <1>0
    <3> QED
      BY <3>1, LowBitType
  <2> QED
    BY <1>1, <2>1
<1>5. \A n \in On(s) : n \in On(2 * s) \/ n = next
  BY NextOnPath
<1>6. On(2 * s) \subseteq On(s)
  BY <1>4
<1>7. /\ w.path = On(2 * s) /\ w.rank = rank - Before(a, t) /\ Before(a, t) <= rank
      /\ a + 2 * s <= Blocks => rank < Before(a + 2 * s, t)
      /\ Before(a, t) \in Nat
  BY <1>0, BeforeGrows DEF Walked
<1>8. Descend(w, s, t) \in Walker
  BY <1>0, <1>1, DescendType
<1>9. CASE next > Blocks
  <2>1. Descend(w, s, t) = w
    BY <1>9 DEF Descend
  <2>2. On(s) = On(2 * s)
    <3>1. next \notin On(s)
      BY <1>0, <1>1, <1>9
    <3> QED
      BY <1>5, <1>6, <3>1
  <2>3. Aligned(a, s)
    BY <1>3 DEF Aligned
  <2>4. ~ (next <= Blocks)
    BY <1>0, <1>1, <1>9
  <2> QED
    BY <1>0, <1>7, <2>1, <2>2, <2>3, <2>4 DEF Walked
<1>10. CASE ~ (next > Blocks)
  <2>1. next \in 1 .. Blocks /\ next \in 1 .. Reach /\ next \in Node
    BY <1>0, <1>1, <1>10
  <2>2. LowBit(next) = s
    BY <1>1, <1>3, <2>1, LowBitOfSum
  <2>3. Parent(next) = a
    BY <1>0, <2>2 DEF Parent
  <2>4. count[next][t] = Number(tag, First(a), First(next), t)
    BY <2>1, <2>3 DEF IndexInv, Exact
  <2>5. /\ Before(next, t) = Before(a, t) + Number(tag, First(a), First(next), t)
        /\ Before(next, t) \in Nat
    <3>1. a <= next
      BY <1>0, <1>1
    <3> QED
      BY <1>0, <1>1, <3>1, BeforeGrows
  <2>6. count[next][t] \in Int
    BY <2>1 DEF IndexInv
  <2>7. count[next][t] = Before(next, t) - Before(a, t)
    BY <1>7, <2>4, <2>5, <2>6
  <2>8. Skips(w, next, t) <=> Before(next, t) <= rank
    BY <1>7, <2>5, <2>7 DEF Skips
  <2>9. OnPath(next, t, rank) <=> rank < Before(next, t)
    BY <1>7, <2>3 DEF OnPath
  <2>10. CASE Before(next, t) <= rank
    <3>1. Descend(w, s, t) = [w EXCEPT !.node = next, !.rank = w.rank - count[next][t]]
      BY <1>10, <2>8, <2>10 DEF Descend, RankAfter
    <3>2. PICK v : v = Descend(w, s, t)
      OBVIOUS
    <3>3. v.node = next /\ v.rank = w.rank - count[next][t] /\ v.path = w.path
      BY <1>0, <3>1, <3>2 DEF Walker
    <3>4. v.rank = rank - Before(next, t)
      BY <1>7, <2>5, <2>7, <3>3
    <3>5. next \notin On(s)
      BY <2>5, <2>9, <2>10
    <3>6. On(s) = On(2 * s)
      BY <1>5, <1>6, <3>5
    <3>7. Aligned(next, s)
      BY <1>1, <2>2 DEF Aligned
    <3>8. next + s = a + 2 * s
      BY <1>0, <1>1
    <3>9. next + s <= Blocks => rank < Before(next + s, t)
      BY <1>7, <3>8
    <3>10. v \in Walker /\ next <= Blocks
      BY <1>8, <2>1, <3>2
    <3>11. Walked(v, s, t, rank)
      BY <1>7, <2>10, <3>3, <3>4, <3>6, <3>7, <3>9, <3>10 DEF Walked
    <3> QED
      BY <3>2, <3>11
  <2>11. CASE ~ (Before(next, t) <= rank)
    <3>1. Descend(w, s, t) = [w EXCEPT !.path = w.path \cup {next}]
      BY <1>10, <2>8, <2>11 DEF Descend
    <3>2. PICK v : v = Descend(w, s, t)
      OBVIOUS
    <3>3. v.node = a /\ v.rank = w.rank /\ v.path = w.path \cup {next}
      BY <1>0, <3>1, <3>2 DEF Walker
    <3>4. rank < Before(next, t)
      BY <2>5, <2>11
    <3>5. next \in On(s)
      BY <1>1, <2>1, <2>2, <2>9, <3>4
    <3>6. On(s) = On(2 * s) \cup {next}
      BY <1>5, <1>6, <3>5
    <3>7. Aligned(a, s)
      BY <1>3 DEF Aligned
    <3>8. v \in Walker
      BY <1>8, <3>2
    <3>9. Walked(v, s, t, rank)
      BY <1>0, <1>7, <3>3, <3>4, <3>6, <3>7, <3>8 DEF Walked
    <3> QED
      BY <3>2, <3>9
  <2> QED
    BY <2>10, <2>11
<1> QED
  BY <1>9, <1>10

\* The recursion of the descent has a solution, and Search is its last value.
LEMMA SearchUnfolds ==
    ASSUME IndexInv, NEW t \in Tier, NEW rank \in Nat
    PROVE  LET top == next_power_of_two(Blocks)
               start == [node |-> 0, rank |-> rank, path |-> {}]
           IN  \E after : /\ Search(t, rank) = after[1]
                          /\ \A step \in 1 .. top :
                               after[step] = Descend(IF 2 * step > top THEN start
                                                     ELSE after[2 * step], step, t)
<1> DEFINE top == next_power_of_two(Blocks)
           start == [node |-> 0, rank |-> rank, path |-> {}]
           D == 1 .. top
           Def(g) == [step \in D |-> Descend(IF 2 * step > top THEN start
                                             ELSE g[2 * step], step, t)]
           after == CHOOSE g : g = Def(g)
<1>0. top \in Nat
  BY BlocksFacts, NextPower DEF Powers
<1>1. Search(t, rank) = after[1]
  BY DEF Search
<1>2. start \in Walker
  BY DEF Walker
<1>3. \A w \in Walker, step \in D : Descend(w, step, t) \in Walker
  <2>1. \A step \in D : step \in Nat \ {0}
    BY <1>0
  <2> QED
    BY <2>1, DescendType
<1> HIDE DEF top, start
<1>4. \E g : g = Def(g)
  <2> DEFINE Base == {step \in D : 2 * step > top}
             m == [step \in D |-> top - step]
             p == [step \in D |-> IF 2 * step > top THEN step ELSE 2 * step]
             B == [step \in D |-> Descend(start, step, t)]
             F == [x \in D \X Walker |-> Descend(x[2], x[1], t)]
  <2>1. m \in [D -> 0 .. top] /\ p \in [D -> D]
    BY <1>0
  <2>2. B \in [D -> Walker]
    BY <1>2, <1>3
  <2>3. F \in [D \X Walker -> Walker]
    BY <1>3
  <2>4. \A x \in D : x \notin Base => m[p[x]] < m[x]
    BY <1>0
  <2>5. Recursive(D, Walker, Base, B, F, p, m, top)
    <3> HIDE DEF D, Base, m, p, B, F
    <3> QED
      BY <1>0, <2>1, <2>2, <2>3, <2>4 DEF Recursive
  <2>6. PICK g \in [D -> Walker] :
          \A x \in D : g[x] = IF x \in Base THEN B[x] ELSE F[<<x, g[p[x]]>>]
    <3> HIDE DEF D, Base, m, p, B, F
    <3> QED
      BY <2>5, RecursionExists
  <2>7. ASSUME NEW x \in D
        PROVE  g[x] = Descend(IF 2 * x > top THEN start ELSE g[2 * x], x, t)
    <3>1. CASE 2 * x > top
      BY <2>6, <3>1
    <3>2. CASE ~ (2 * x > top)
      <4>1. g[x] = F[<<x, g[p[x]]>>]
        BY <2>6, <3>2
      <4>2. p[x] = 2 * x /\ g[p[x]] \in Walker
        BY <2>1, <3>2
      <4>3. F[<<x, g[p[x]]>>] = Descend(g[2 * x], x, t)
        BY <4>2
      <4> QED
        BY <3>2, <4>1, <4>3
    <3> QED
      BY <3>1, <3>2
  <2>8. g = Def(g)
    BY <2>6, <2>7
  <2> QED
    BY <2>8
<1>5. after = Def(after)
  BY <1>4
<1> HIDE DEF after
<1>6. \A step \in D : after[step] = Descend(IF 2 * step > top THEN start
                                           ELSE after[2 * step], step, t)
  BY <1>5
<1> QED
  BY <1>1, <1>6 DEF top, start

\* At the end every step has been tried.
LEMMA SearchWalks ==
    ASSUME IndexInv, NEW t \in Tier, NEW rank \in Nat
    PROVE  Walked(Search(t, rank), 1, t, rank)
<1> DEFINE top == next_power_of_two(Blocks)
           start == [node |-> 0, rank |-> rank, path |-> {}]
<1>0. /\ Blocks \in 0 .. MaxBlocks /\ MaxBlocks \in Nat /\ Reach = 2 * MaxBlocks
      /\ Reach \in Nat
  BY BlocksFacts DEF Reach
<1>1. top \in Powers /\ Blocks <= top /\ top \in 1 .. Reach
  BY <1>0, NextPower DEF Powers
<1>2. PICK after : /\ Search(t, rank) = after[1]
                   /\ \A step \in 1 .. top :
                        after[step] = Descend(IF 2 * step > top THEN start
                                              ELSE after[2 * step], step, t)
  BY SearchUnfolds
<1>3. Walked(start, 2 * top, t, rank)
  <2>1. ASSUME NEW n \in 1 .. Blocks PROVE ~ (LowBit(n) >= 2 * top)
    <3>1. n \in 1 .. Reach
      BY <1>0
    <3>2. LowBit(n) \in 1 .. n
      BY <3>1, LowBitType
    <3> QED
      BY <1>0, <1>1, <3>2
  <2>2. start \in Walker
    BY DEF Walker
  <2>3. Before(0, t) = 0
    BY BeforeGrows
  <2>4. ~ (0 + 2 * top <= Blocks) /\ 0 <= Blocks
    BY <1>0, <1>1
  <2>5. {} = {n \in 1 .. Blocks : LowBit(n) >= 2 * top /\ OnPath(n, t, rank)}
    BY <2>1
  <2>6. rank = rank - 0 /\ 0 <= rank
    OBVIOUS
  <2> HIDE DEF top
  <2> QED
    BY <2>2, <2>3, <2>4, <2>5, <2>6 DEF Walked, Aligned
<1> HIDE DEF top, start
<1> DEFINE S == {k \in Nat : \A s \in Powers : s + k = top => Walked(after[s], s, t, rank)}
<1>4. ASSUME NEW k \in Nat, \A j \in Nat : j < k => j \in S PROVE k \in S
  <2> SUFFICES ASSUME NEW s \in Powers, s + k = top PROVE Walked(after[s], s, t, rank)
    OBVIOUS
  <2>1. s \in 1 .. Reach /\ LowBit(s) = s
    BY DEF Powers
  <2>2. s \in 1 .. top
    BY <1>1, <2>1
  <2>3. CASE s = top
    <3>1. 2 * s > top
      BY <1>1, <2>3
    <3>2. after[s] = Descend(start, s, t)
      BY <1>2, <2>2, <3>1
    <3> QED
      BY <1>3, <2>3, <3>2, DescendWalks
  <2>4. CASE s # top
    <3>1. 2 * s <= top
      <4>1. s < top
        BY <1>1, <2>2, <2>4
      <4> QED
        BY <1>1, <4>1, PowersApart
    <3>2. 2 * s \in Powers
      <4>1. 2 * s \in 1 .. Reach
        BY <1>0, <1>1, <2>1, <3>1
      <4>2. LowBit(2 * s) = 2 * s
        BY <2>1, <4>1, LowHalves
      <4> QED
        BY <4>1, <4>2 DEF Powers
    <3>3. top - 2 * s \in Nat /\ top - 2 * s < k /\ 2 * s + (top - 2 * s) = top
      BY <1>1, <2>1, <3>1
    <3>4. Walked(after[2 * s], 2 * s, t, rank)
      BY <1>4, <3>2, <3>3
    <3>5. after[s] = Descend(after[2 * s], s, t)
      <4>1. ~ (2 * s > top)
        BY <1>1, <2>1, <3>1
      <4> QED
        BY <1>2, <2>2, <4>1
    <3> QED
      BY <3>4, <3>5, DescendWalks
  <2> QED
    BY <2>3, <2>4
<1>5. \A k \in Nat : k \in S
  <2> HIDE DEF S
  <2> QED
    BY <1>4, StrongInduction
<1>6. 1 \in Powers
  <2>1. LowBit(2 * 0 + 1) = 1 /\ 1 \in 1 .. Reach
    BY <1>0, <1>1, LowHalves
  <2> QED
    BY <2>1 DEF Powers
<1>7. top - 1 \in Nat /\ 1 + (top - 1) = top
  BY <1>1
<1>8. Walked(after[1], 1, t, rank)
  BY <1>5, <1>6, <1>7
<1> QED
  BY <1>2, <1>8

\* A rank below the counts of a prefix finds its prize, inside the prefix, and the
\* path is the set of nodes that count it.
LEMMA SearchFinds ==
    ASSUME IndexInv, NEW cutoff \in 1 .. version, NEW t \in Tier, NEW rank \in Nat,
           rank < Counts(cutoff)[t]
    PROVE  LET found == Search(t, rank) IN
           /\ found.node < Blocks
           /\ \E p \in 0 .. cutoff - 1 :
                /\ tag[p] = t + 1
                /\ Selected(found, t) = {p}
                /\ Cardinality(Tagged(0, p - 1, t)) = rank
                /\ found.path = Ancestors(p \div BlockSize + 1, Blocks)
<1> DEFINE found == Search(t, rank)
<1>0. /\ Blocks \in 0 .. MaxBlocks /\ MaxBlocks \in Nat /\ Reach = 2 * MaxBlocks
      /\ version \in Nat /\ version <= First(Blocks) /\ cutoff \in Nat /\ Blocks \in Nat
      /\ First(Blocks) \in Nat
  <2>1. /\ Blocks \in 0 .. MaxBlocks /\ MaxBlocks \in Nat
        /\ version \in Nat /\ version <= First(Blocks)
    BY BlocksFacts
  <2>2. cutoff \in Nat /\ Blocks \in Nat
    BY <2>1
  <2> QED
    BY <2>1, <2>2, BlockFacts DEF Reach
<1>1. Walked(found, 1, t, rank)
  BY SearchWalks
<1>2. PICK a \in Nat : a = found.node /\ a <= Blocks
  BY <1>1 DEF Walked, Walker
<1>3. /\ found.rank = rank - Before(a, t) /\ Before(a, t) <= rank
      /\ a + 1 <= Blocks => rank < Before(a + 1, t)
      /\ found.path = {n \in 1 .. Blocks : LowBit(n) >= 1 /\ OnPath(n, t, rank)}
  BY <1>1, <1>2 DEF Walked
<1> HIDE DEF found
<1>4. rank < Number(tag, 0, cutoff, t) /\ Number(tag, 0, cutoff, t) \in Nat
  <2>1. cutoff \in 0 .. version
    BY <1>0
  <2> QED
    BY <1>0, <2>1, ExactCounts, NumberType
<1>5. rank < Before(Blocks, t)
  <2>1. 0 <= cutoff /\ cutoff <= First(Blocks)
    BY <1>0
  <2>2. Number(tag, 0, cutoff, t) <= Before(Blocks, t) /\ Before(Blocks, t) \in Nat
    BY <1>0, <2>1, NumberGrows, BeforeGrows DEF Before
  <2> QED
    BY <1>4, <2>2
<1>6. a < Blocks
  <2>1. a # Blocks
    BY <1>0, <1>3, <1>5, BeforeGrows
  <2> QED
    BY <1>0, <1>2, <2>1
<1>7. a + 1 \in Nat /\ a + 1 <= Blocks /\ rank < Before(a + 1, t)
  BY <1>0, <1>3, <1>6
<1>8. /\ Before(a, t) \in Nat /\ Before(a + 1, t) \in Nat
      /\ Before(a + 1, t) = Before(a, t) + Number(tag, First(a), First(a + 1), t)
  <2>1. a <= a + 1
    OBVIOUS
  <2> QED
    BY <1>7, <2>1, BeforeGrows
<1>9. PICK f \in Nat : f = found.rank /\ f < Number(tag, First(a), First(a + 1), t)
                       /\ rank = Before(a, t) + f
  <2>1. First(a) \in Int /\ First(a + 1) \in Int
    BY <1>7, BlockFacts
  <2>2. Number(tag, First(a), First(a + 1), t) \in Nat
    BY <2>1, NumberType
  <2> QED
    BY <1>3, <1>7, <1>8, <2>2
<1>10. PICK x, y \in Nat : x = First(a) /\ y = First(a + 1)
  BY <1>7, BlockFacts
<1>11. PICK p \in Within(tag, x, y, t) :
         {q \in Within(tag, x, y, t) : Number(tag, x, q, t) = f} = {p}
  BY <1>9, <1>10, RankSelects
<1>12. p \in x .. y - 1 /\ p \in Nat /\ tag[p] = t + 1 /\ Number(tag, x, p, t) = f
  <2>1. p \in x .. y - 1 /\ tag[p] = t + 1
    BY <1>11 DEF Within
  <2>2. p \in {q \in Within(tag, x, y, t) : Number(tag, x, q, t) = f}
    BY <1>11
  <2> QED
    BY <2>1, <2>2
<1>13. Selected(found, t) = {p}
  BY <1>2, <1>9, <1>10, <1>11 DEF Selected, Tagged, Number, Within, First
<1>14. Number(tag, 0, p, t) = rank
  <2>1. 0 <= x /\ x <= p
    BY <1>12
  <2>2. Number(tag, 0, p, t) = Number(tag, 0, x, t) + Number(tag, x, p, t)
    BY <1>12, <2>1, NumberSplits
  <2> QED
    BY <1>9, <1>10, <1>12, <2>2 DEF Before
<1>15. p \in 0 .. cutoff - 1
  <2> SUFFICES ASSUME cutoff <= p PROVE FALSE
    BY <1>0, <1>12
  <2>1. Number(tag, 0, cutoff, t) <= Number(tag, 0, p, t)
    BY <1>0, <1>12, NumberGrows
  <2> QED
    BY <1>4, <1>14, <2>1
<1>16. Block(p) = a
  <2>1. Block(p) \in Nat /\ (p < First(a) <=> Block(p) < a)
        /\ (p < First(a + 1) <=> Block(p) < a + 1)
    BY <1>7, <1>12, BlockFacts
  <2> QED
    BY <1>10, <1>12, <2>1
<1>17. found.path = Covering(a + 1, Blocks)
  <2>1. ASSUME NEW n \in 1 .. Blocks
        PROVE  LowBit(n) >= 1 /\ OnPath(n, t, rank) <=> Parent(n) < a + 1 /\ a + 1 <= n
    <3>1. n \in 1 .. Reach /\ n \in Nat
      BY <1>0
    <3>2. LowBit(n) >= 1 /\ Parent(n) \in Nat
      BY <3>1, LowBitType
    <3>3. Before(n, t) \in Nat /\ Before(Parent(n), t) \in Nat
      BY <3>1, <3>2, BeforeGrows
    <3>4. Parent(n) <= a => Before(Parent(n), t) <= rank
      <4>1. Parent(n) <= a => Before(Parent(n), t) <= Before(a, t)
        BY <3>2, BeforeGrows
      <4> QED
        BY <1>3, <1>8, <3>3, <4>1
    <3>5. a + 1 <= Parent(n) => rank < Before(Parent(n), t)
      <4>1. a + 1 <= Parent(n) => Before(a + 1, t) <= Before(Parent(n), t)
        BY <1>7, <3>2, BeforeGrows
      <4> QED
        BY <1>7, <1>8, <3>3, <4>1
    <3>6. n <= a => Before(n, t) <= rank
      <4>1. n <= a => Before(n, t) <= Before(a, t)
        BY <3>1, BeforeGrows
      <4> QED
        BY <1>3, <1>8, <3>3, <4>1
    <3>7. a + 1 <= n => rank < Before(n, t)
      <4>1. a + 1 <= n => Before(a + 1, t) <= Before(n, t)
        BY <1>7, <3>1, BeforeGrows
      <4> QED
        BY <1>7, <1>8, <3>3, <4>1
    <3>8. Parent(n) \in Int /\ n \in Int /\ a \in Int
      BY <3>1, <3>2
    <3> QED
      BY <3>2, <3>3, <3>4, <3>5, <3>6, <3>7, <3>8 DEF OnPath
  <2> QED
    BY <1>3, <2>1 DEF Covering
<1>18. found.path = Ancestors(p \div BlockSize + 1, Blocks)
  <2>1. a + 1 \in 1 .. Reach
    BY <1>0, <1>7
  <2>2. Ancestors(a + 1, Blocks) = Covering(a + 1, Blocks)
    BY <1>0, <2>1, AncestorsCover
  <2> QED
    BY <1>16, <1>17, <2>2 DEF Block
<1> QED
  BY <1>2, <1>6, <1>12, <1>13, <1>14, <1>15, <1>18 DEF found, Number, Within, Tagged

-----------------------------------------------------------------------------
(* Every operation keeps the nodes exact.                                  *)

\* Changing the tag of one prize and the counts of the nodes that cover it.
LEMMA AdjustExact ==
    ASSUME NEW counts \in [Node -> [Tier -> Int]], NEW T \in [Position -> 0 .. MaxTiers],
           NEW blocks \in 0 .. MaxBlocks, Exact(counts, T, blocks),
           NEW p \in Nat, p < First(blocks), NEW t \in Tier, NEW x, NEW by \in Int,
           \/ T[p] = t + 1 /\ x = 0 /\ by = -1
           \/ T[p] = 0 /\ x = t + 1 /\ by = 1
    PROVE  LET after == Adjust(counts, Ancestors(Block(p) + 1, blocks), t, by)
               U == [T EXCEPT ![p] = x]
           IN  /\ after \in [Node -> [Tier -> Int]]
               /\ U \in [Position -> 0 .. MaxTiers]
               /\ Exact(after, U, blocks)
<1> DEFINE nodes == Ancestors(Block(p) + 1, blocks)
           after == Adjust(counts, nodes, t, by)
           U == [T EXCEPT ![p] = x]
<1>0. /\ blocks \in Nat /\ MaxBlocks \in Nat /\ MaxTiers \in Nat
      /\ Reach = 2 * MaxBlocks /\ First(blocks) \in Nat /\ First(MaxBlocks) \in Nat
      /\ First(blocks) <= First(MaxBlocks)
  <2>1. blocks \in Nat /\ MaxBlocks \in Nat /\ MaxTiers \in Nat /\ blocks <= MaxBlocks
    BY IndexAssumption
  <2> QED
    BY <2>1, BlockFacts DEF Reach
<1>1. Position = 0 .. First(MaxBlocks) - 1 /\ p \in Position
  BY <1>0 DEF First
<1>2. Block(p) \in Nat /\ Block(p) < blocks
  BY <1>0, BlockFacts
<1>3. nodes = Covering(Block(p) + 1, blocks)
  <2>1. Block(p) + 1 \in 1 .. Reach
    BY <1>0, <1>2
  <2> QED
    BY <2>1, AncestorsCover
<1>4. x \in 0 .. MaxTiers /\ U \in [Position -> 0 .. MaxTiers]
  BY <1>0, <1>1
<1>5. ASSUME NEW n \in Node
      PROVE  /\ after[n] \in [Tier -> Int]
             /\ \A u \in Tier : after[n][u] = IF n \in nodes /\ u = t
                                             THEN counts[n][u] + by ELSE counts[n][u]
  <2>1. PICK c \in [Tier -> Int] : c = counts[n]
    OBVIOUS
  <2>2. c[t] + by \in Int
    OBVIOUS
  <2>3. after[n] = IF n \in nodes THEN [c EXCEPT ![t] = c[t] + by] ELSE c
    BY <2>1 DEF Adjust
  <2> HIDE DEF after, nodes, Tier
  <2> QED
    BY <2>1, <2>2, <2>3
<1>6. after \in [Node -> [Tier -> Int]]
  BY <1>5 DEF Adjust
<1>7. ASSUME NEW n \in 1 .. blocks, NEW u \in Tier
      PROVE  after[n][u] = Number(U, First(Parent(n)), First(n), u)
  <2> DEFINE a == First(Parent(n))
             b == First(n)
  <2>1. n \in Node /\ n \in 1 .. Reach /\ n \in Nat /\ n <= MaxBlocks
    BY <1>0
  <2>2. Parent(n) \in Nat /\ Parent(n) < n
    BY <2>1, LowBitType
  <2>3. a \in Nat /\ b \in Nat /\ b <= First(MaxBlocks)
    BY <1>0, <2>1, <2>2, BlockFacts
  <2>4. counts[n][u] = Number(T, a, b, u)
    BY DEF Exact
  <2>5. p \in a .. b - 1 <=> n \in nodes
    <3>1. (p < a <=> Block(p) < Parent(n)) /\ (p < b <=> Block(p) < n)
      BY <2>1, <2>2, BlockFacts
    <3>2. n \in nodes <=> Parent(n) < Block(p) + 1 /\ Block(p) + 1 <= n
      BY <1>3 DEF Covering
    <3> HIDE DEF a, b, nodes
    <3> QED
      BY <1>2, <2>1, <2>2, <2>3, <3>1, <3>2
  <2> HIDE DEF a, b, nodes, after
  <2>6. U[p] = x /\ \A q \in a .. b - 1 : q # p => U[q] = T[q]
    BY <1>0, <1>1, <2>3
  <2> HIDE DEF U
  <2>7. /\ p \in a .. b - 1 =>
             Number(U, a, b, u) = Number(T, a, b, u) - Unit(T, p, u) + Unit(U, p, u)
        /\ p \notin a .. b - 1 => Number(U, a, b, u) = Number(T, a, b, u)
    <3>1. \A V, W : (\A q \in a .. b - 1 : q # p => W[q] = V[q]) =>
            /\ p \in a .. b - 1 =>
                 Number(W, a, b, u) = Number(V, a, b, u) - Unit(V, p, u) + Unit(W, p, u)
            /\ p \notin a .. b - 1 => Number(W, a, b, u) = Number(V, a, b, u)
      BY <2>3, NumberChanges
    <3> QED
      BY <2>6, <3>1
  <2>8. Number(T, a, b, u) \in Int
    BY <2>3, NumberType
  <2>9. Unit(U, p, u) - Unit(T, p, u) = IF u = t THEN by ELSE 0
    <3>1. u \in Nat /\ t \in Nat
      OBVIOUS
    <3> QED
      BY <2>6, <3>1 DEF Unit
  <2>10. Unit(U, p, u) \in Int /\ Unit(T, p, u) \in Int
    BY DEF Unit
  <2> QED
    BY <1>5, <2>1, <2>4, <2>5, <2>7, <2>8, <2>9, <2>10 DEF a, b
<1> HIDE DEF after, U
<1>8. Exact(after, U, blocks)
  BY <1>7 DEF Exact
<1> QED
  BY <1>4, <1>6, <1>8 DEF after, U

\* The positions of the blocks.
LEMMA PositionFacts ==
    \A p : p \in Position <=> p \in Nat /\ p < First(MaxBlocks)
<1>1. First(MaxBlocks) \in Nat
  BY IndexAssumption, BlockFacts
<1> QED
  BY <1>1 DEF First

HIDE DEF Position

\* The invariant after a prize was cleared from the tags and from the nodes above it.
LEMMA ClearKeeps ==
    ASSUME IndexInv, NEW p \in Nat, p < First(Blocks), NEW t \in Tier, tag[p] = t + 1,
           tag' = [tag EXCEPT ![p] = 0],
           count' = Adjust(count, Ancestors(Block(p) + 1, Blocks), t, -1),
           version' = version
    PROVE  IndexInv'
<1>0. /\ Blocks \in 0 .. MaxBlocks /\ Blocks' = Blocks
      /\ tag \in [Position -> 0 .. MaxTiers]
  BY BlocksFacts DEF Blocks, Space, IndexInv
<1>1. /\ count' \in [Node -> [Tier -> Int]]
      /\ tag' \in [Position -> 0 .. MaxTiers]
      /\ Exact(count', tag', Blocks)
  <2>1. count \in [Node -> [Tier -> Int]] /\ Exact(count, tag, Blocks)
    BY DEF IndexInv
  <2>2. -1 \in Int
    OBVIOUS
  <2> QED
    BY <1>0, <2>1, <2>2, AdjustExact
<1>2. \A q \in Position : version <= q => tag'[q] = 0
  BY <1>0 DEF IndexInv
<1>3. version' \in 0 .. First(MaxBlocks)
  BY DEF IndexInv
<1> QED
  BY <1>0, <1>1, <1>2, <1>3 DEF IndexInv, Exact

\* append, with the node of a new block.
LEMMA AppendKeeps ==
    ASSUME IndexInv, NEW t \in Tier, AppendTag(t)
    PROVE  IndexInv'
<1> DEFINE block == Block(version)
           C == IF version % BlockSize = 0 THEN WithNewNode(block) ELSE count
<1>0. /\ version \in Nat /\ MaxBlocks \in Nat /\ version < First(MaxBlocks)
      /\ First(MaxBlocks) \in Nat /\ Reach = 2 * MaxBlocks
      /\ version \in 0 .. First(MaxBlocks)
  BY BlocksFacts, BlockFacts DEF AppendTag, First, Reach, IndexInv
<1>1. block \in Nat /\ block < MaxBlocks /\ block + 1 \in Nat
  <2>1. block \in Nat /\ block < MaxBlocks
    BY <1>0, BlockFacts
  <2> QED
    BY <2>1
<1>2. /\ version' = version + 1
      /\ tag' = [tag EXCEPT ![version] = t + 1]
      /\ count' = Adjust(C, Ancestors(block + 1, Space(version + 1)), t, 1)
  BY DEF AppendTag, NextPosition, Block
<1>3. /\ Space(version + 1) = block + 1
      /\ version % BlockSize = 0 => Blocks = block /\ First(block) = version
      /\ version % BlockSize # 0 => Blocks = block + 1
  BY <1>0, SpaceFacts DEF Blocks
<1>4. /\ tag \in [Position -> 0 .. MaxTiers]
      /\ count \in [Node -> [Tier -> Int]]
      /\ \A p \in Position : version <= p => tag[p] = 0
      /\ Exact(count, tag, Blocks)
  BY DEF IndexInv
<1>5. \A p : p \in Position <=> p \in Nat /\ p < First(MaxBlocks)
  BY PositionFacts
<1> HIDE DEF block
<1>6. C \in [Node -> [Tier -> Int]] /\ Exact(C, tag, block + 1)
  <2>1. CASE version % BlockSize # 0
    BY <1>3, <1>4, <2>1
  <2>2. CASE version % BlockSize = 0
    <3> DEFINE new == [u \in Tier |-> PrefixCount(u)[block]
                                      - PrefixCount(u)[Parent(block + 1)]]
               q == Parent(block + 1)
    <3>1. C = [count EXCEPT ![block + 1] = new]
      BY <2>2 DEF WithNewNode
    <3>2. block + 1 \in Node /\ block + 1 \in 1 .. Reach /\ block \in Node \cup {0}
      BY <1>0, <1>1
    <3>3. q \in 0 .. block /\ q \in Nat /\ q <= block
      BY <1>1, <3>2, LowBitType
    <3>4. ASSUME NEW u \in Tier
          PROVE  /\ new[u] = Number(tag, First(q), First(block + 1), u)
                 /\ new[u] \in Int
      <4>1. PrefixCount(u)[block] = Before(block, u) /\ PrefixCount(u)[q] = Before(q, u)
        <5>1. block \in 0 .. Blocks /\ q \in 0 .. Blocks
          BY <1>1, <1>3, <2>2, <3>3
        <5> QED
          BY <5>1, PrefixExact
      <4>2. /\ Before(block, u) \in Nat /\ Before(q, u) \in Nat
            /\ Before(block, u) = Before(q, u) + Number(tag, First(q), First(block), u)
        BY <1>1, <3>3, BeforeGrows
      <4>3. First(q) \in Nat /\ First(block) \in Nat /\ First(block + 1) \in Nat
            /\ First(q) <= First(block) /\ First(block) <= First(block + 1)
            /\ First(block + 1) <= First(MaxBlocks)
        <5>1. block <= block + 1 /\ block + 1 <= MaxBlocks
          BY <1>0, <1>1
        <5> QED
          BY <1>0, <1>1, <3>3, <5>1, BlockFacts
      <4>4. Number(tag, First(block), First(block + 1), u) = 0
        <5>1. ASSUME NEW p \in First(block) .. First(block + 1) - 1
              PROVE  tag[p] # u + 1
          <6>1. p \in Position /\ version <= p
            BY <1>0, <1>3, <1>5, <2>2, <4>3
          <6>2. tag[p] = 0 /\ u \in Nat
            BY <1>4, <6>1
          <6> QED
            BY <6>2
        <5> QED
          BY <4>3, <5>1, NumberOfNone
      <4>5. Number(tag, First(q), First(block + 1), u)
              = Number(tag, First(q), First(block), u)
                + Number(tag, First(block), First(block + 1), u)
        BY <4>3, NumberSplits
      <4>6. Number(tag, First(q), First(block), u) \in Nat
        BY <4>3, NumberType
      <4>7. new[u] = PrefixCount(u)[block] - PrefixCount(u)[q]
        OBVIOUS
      <4> HIDE DEF new, q
      <4> QED
        BY <4>1, <4>2, <4>4, <4>5, <4>6, <4>7
    <3>5. new \in [Tier -> Int]
      BY <3>4
    <3> HIDE DEF new, C
    <3>6. C \in [Node -> [Tier -> Int]]
      BY <1>4, <3>1, <3>5
    <3>7. ASSUME NEW n \in 1 .. block + 1, NEW u \in Tier
          PROVE  C[n][u] = Number(tag, First(Parent(n)), First(n), u)
      <4>1. CASE n = block + 1
        BY <1>4, <3>1, <3>2, <3>4, <4>1
      <4>2. CASE n # block + 1
        <5>1. n \in 1 .. Blocks /\ n \in Node
          BY <1>0, <1>1, <1>3, <2>2, <4>2
        <5>2. C[n] = count[n]
          BY <1>4, <3>1, <4>2, <5>1
        <5> QED
          BY <1>4, <5>1, <5>2 DEF Exact
      <4> QED
        BY <4>1, <4>2
    <3> QED
      BY <3>6, <3>7 DEF Exact
  <2> QED
    BY <2>1, <2>2
<1> HIDE DEF C
<1>7. /\ count' \in [Node -> [Tier -> Int]]
      /\ tag' \in [Position -> 0 .. MaxTiers]
      /\ Exact(count', tag', block + 1)
  <2>1. block + 1 \in 0 .. MaxBlocks /\ 1 \in Int
    BY <1>0, <1>1
  <2>2. version < First(block + 1)
    <3>1. version < First(block + 1) <=> block < block + 1
      BY <1>0, <1>1, BlockFacts DEF block
    <3> QED
      BY <1>1, <3>1
  <2>3. tag[version] = 0
    <3>1. version \in Position /\ version <= version
      BY <1>0, <1>5
    <3> QED
      BY <1>4, <3>1
  <2>4. count' = Adjust(C, Ancestors(Block(version) + 1, block + 1), t, 1)
    BY <1>2, <1>3 DEF block
  <2>5. /\ Adjust(C, Ancestors(Block(version) + 1, block + 1), t, 1)
             \in [Node -> [Tier -> Int]]
        /\ [tag EXCEPT ![version] = t + 1] \in [Position -> 0 .. MaxTiers]
        /\ Exact(Adjust(C, Ancestors(Block(version) + 1, block + 1), t, 1),
                 [tag EXCEPT ![version] = t + 1], block + 1)
    BY <1>0, <1>4, <1>6, <2>1, <2>2, <2>3, AdjustExact
  <2> QED
    BY <1>2, <2>4, <2>5
<1>8. \A p \in Position : version' <= p => tag'[p] = 0
  <2>1. ASSUME NEW p \in Position, version + 1 <= p PROVE tag'[p] = 0
    <3>1. p \in Int /\ version <= p /\ p # version
      BY <1>0, <1>5, <2>1
    <3> QED
      BY <1>2, <1>4, <3>1
  <2> QED
    BY <1>2, <2>1
<1>9. version' \in 0 .. First(MaxBlocks) /\ Blocks' = block + 1
  BY <1>0, <1>2, <1>3 DEF Blocks, Space
<1> QED
  BY <1>7, <1>8, <1>9 DEF IndexInv, Exact

\* What take does: the search has one result, and the prize it clears is counted by
\* the nodes of the path.
LEMMA TakeFinds ==
    ASSUME IndexInv, NEW cutoff \in 1 .. version, NEW t \in Tier, NEW rank \in Nat,
           Take(cutoff, t, rank)
    PROVE  \E p \in 0 .. cutoff - 1 :
             /\ p \in Nat /\ p < First(Blocks) /\ tag[p] = t + 1
             /\ Cardinality(Tagged(0, p - 1, t)) = rank
             /\ tag' = [tag EXCEPT ![p] = 0]
             /\ count' = Adjust(count, Ancestors(Block(p) + 1, Blocks), t, -1)
             /\ response' = [op |-> "take", tier |-> t, rank |-> rank, position |-> p]
             /\ version' = version
<1> DEFINE found == Search(t, rank)
<1>1. rank < Counts(cutoff)[t]
  BY DEF Take
<1>2. PICK p \in 0 .. cutoff - 1 :
         /\ tag[p] = t + 1
         /\ Selected(found, t) = {p}
         /\ Cardinality(Tagged(0, p - 1, t)) = rank
         /\ found.path = Ancestors(p \div BlockSize + 1, Blocks)
  BY <1>1, SearchFinds
<1>3. /\ \E q \in Selected(found, t) :
           /\ tag' = [tag EXCEPT ![q] = 0]
           /\ response' = [op |-> "take", tier |-> t, rank |-> rank, position |-> q]
      /\ count' = Adjust(count, found.path, t, -1)
      /\ version' = version
  BY DEF Take
<1> HIDE DEF found
<1>4. /\ tag' = [tag EXCEPT ![p] = 0]
      /\ response' = [op |-> "take", tier |-> t, rank |-> rank, position |-> p]
      /\ count' = Adjust(count, Ancestors(Block(p) + 1, Blocks), t, -1)
  BY <1>2, <1>3 DEF Block
<1>5. p \in Nat /\ p < First(Blocks)
  <2>1. version \in Nat /\ version <= First(Blocks) /\ First(Blocks) \in Nat
    <3>1. version \in Nat /\ version <= First(Blocks) /\ Blocks \in Nat
      BY BlocksFacts
    <3> QED
      BY <3>1, BlockFacts
  <2> QED
    BY <2>1
<1> QED
  BY <1>2, <1>3, <1>4, <1>5

\* The index starts exact and stays exact.
LEMMA IndexInductive ==
    /\ Init => IndexInv
    /\ IndexInv /\ [Next]_vars => IndexInv'
<1>1. ASSUME Init PROVE IndexInv
  <2>0. MaxBlocks \in Nat /\ First(MaxBlocks) \in Nat /\ MaxTiers \in Nat
        /\ Reach = 2 * MaxBlocks
    BY IndexAssumption, BlockFacts DEF Reach
  <2>1. version = 0 /\ version \in 0 .. First(MaxBlocks)
    BY <1>1, <2>0 DEF Init
  <2>2. Blocks \in 0 .. MaxBlocks
    BY <2>1, SpaceFacts DEF Blocks
  <2>3. \A p : p \in Position <=> p \in Nat /\ p < First(MaxBlocks)
    BY PositionFacts
  <2>4. ASSUME NEW n \in 1 .. Blocks, NEW t \in Tier
        PROVE  count[n][t] = Number(tag, First(Parent(n)), First(n), t)
    <3>1. n \in Node /\ n \in 1 .. Reach /\ n \in Nat /\ n <= MaxBlocks
      BY <2>0, <2>2
    <3>2. Parent(n) \in Nat
      BY <3>1, LowBitType
    <3>3. First(Parent(n)) \in Nat /\ First(n) \in Nat /\ First(n) <= First(MaxBlocks)
      BY <2>0, <3>1, <3>2, BlockFacts
    <3>4. \A p \in First(Parent(n)) .. First(n) - 1 : tag[p] # t + 1
      <4>1. \A p \in First(Parent(n)) .. First(n) - 1 : p \in Position
        BY <2>0, <2>3, <3>3
      <4>2. \A p \in Position : tag[p] = 0
        BY <1>1 DEF Init
      <4>3. t + 1 # 0
        OBVIOUS
      <4> QED
        BY <4>1, <4>2, <4>3
    <3>5. Number(tag, First(Parent(n)), First(n), t) = 0
      BY <3>3, <3>4, NumberOfNone
    <3> QED
      BY <1>1, <3>1, <3>5 DEF Init
  <2>5. tag \in [Position -> 0 .. MaxTiers] /\ \A p \in Position : tag[p] = 0
    BY <1>1, <2>0 DEF Init
  <2>6. count \in [Node -> [Tier -> Int]]
    BY <1>1 DEF Init
  <2> QED
    BY <2>1, <2>4, <2>5, <2>6 DEF IndexInv, Exact
<1>2. ASSUME IndexInv, [Next]_vars PROVE IndexInv'
  <2>1. CASE UNCHANGED vars
    BY <1>2, <2>1 DEF vars, IndexInv, Exact, Blocks, Space
  <2>2. ASSUME NEW t \in Tier, AppendTag(t) PROVE IndexInv'
    BY <1>2, <2>2, AppendKeeps
  <2>3. ASSUME NEW c \in 1 .. version, NEW t \in Tier, NEW r \in 0 .. version - 1,
               Take(c, t, r)
        PROVE  IndexInv'
    <3>1. r \in Nat
      BY <1>2, BlocksFacts
    <3>2. PICK p \in 0 .. c - 1 :
            /\ p \in Nat /\ p < First(Blocks) /\ tag[p] = t + 1
            /\ tag' = [tag EXCEPT ![p] = 0]
            /\ count' = Adjust(count, Ancestors(Block(p) + 1, Blocks), t, -1)
            /\ version' = version
      BY <1>2, <2>3, <3>1, TakeFinds
    <3> QED
      BY <1>2, <3>2, ClearKeeps
  <2>4. ASSUME NEW p \in Position, NEW t \in Tier, Remove(p, t) PROVE IndexInv'
    <3>1. p \in Nat
      BY PositionFacts
    <3>2. /\ p < First(Blocks) /\ tag[p] = t + 1
          /\ tag' = [tag EXCEPT ![p] = 0]
          /\ count' = Adjust(count, Ancestors(Block(p) + 1, Blocks), t, -1)
          /\ version' = version
      BY <2>4 DEF Remove, First, Block
    <3> QED
      BY <1>2, <3>1, <3>2, ClearKeeps
  <2> QED
    BY <1>2, <2>1, <2>2, <2>3, <2>4 DEF Next
<1> QED
  BY <1>1, <1>2

-----------------------------------------------------------------------------
(* The results.                                                            *)

\* The invariant holds throughout.
LEMMA IndexAlways == Spec => []IndexInv
BY IndexInductive, PTL DEF Spec

\* Every Fenwick node counts exactly the available prizes of its blocks, after any
\* sequence of restocks, draws and removals on a pool of any size.
THEOREM NodesAlwaysExact == Spec => []NodesExact
<1>1. IndexInv => NodesExact
  BY ExactNodes DEF IndexInv
<1> QED
  BY <1>1, IndexAlways, PTL

\* The counts a draw is made from are those of a linear scan of its prefix.
THEOREM CountsAlwaysExact == Spec => []CountsExact
<1>1. ASSUME IndexInv PROVE CountsExact
  BY <1>1, ExactCounts DEF CountsExact, Number, Within, Tagged
<1> QED
  BY <1>1, IndexAlways, PTL

\* Every rank the draw loop can produce finds one prize, inside the prefix, and
\* decrements exactly the nodes that count it: take never fails with InvalidItem.
THEOREM SearchesAlwaysExact == Spec => []SearchExact
<1>1. ASSUME IndexInv PROVE SearchExact
  <2> SUFFICES ASSUME NEW cutoff \in 1 .. version, NEW t \in Tier,
                      NEW rank \in 0 .. Counts(cutoff)[t] - 1
               PROVE  LET found == Search(t, rank) IN
                      /\ found.node < Blocks
                      /\ \E p \in 0 .. cutoff - 1 :
                           /\ Selected(found, t) = {p}
                           /\ Cardinality(Tagged(0, p - 1, t)) = rank
                           /\ found.path = Ancestors(p \div BlockSize + 1, Blocks)
    BY DEF SearchExact
  <2>1. Counts(cutoff)[t] \in Nat
    <3>1. cutoff \in 0 .. version /\ cutoff \in Int
      BY <1>1, BlocksFacts
    <3> QED
      BY <1>1, <3>1, ExactCounts, NumberType
  <2>2. rank \in Nat /\ rank < Counts(cutoff)[t]
    BY <2>1
  <2> QED
    BY <1>1, <2>2, SearchFinds
<1> QED
  BY <1>1, IndexAlways, PTL

-----------------------------------------------------------------------------
(* The index implements the linear inventory.                              *)

\* The tags of the linear inventory.
Tags == [i \in 1 .. version |-> tag[i - 1]]

\* They are a sequence as long as the version.
LEMMA TagsFacts ==
    ASSUME IndexInv
    PROVE  /\ version \in Nat /\ Tags \in Seq(0 .. MaxTiers) /\ Len(Tags) = version
           /\ DOMAIN Tags = 1 .. version
           /\ \A p \in 0 .. version - 1 : Tags[p + 1] = tag[p] /\ p \in Position
<1>1. /\ version \in Nat /\ version <= First(MaxBlocks) /\ First(MaxBlocks) \in Nat
      /\ tag \in [Position -> 0 .. MaxTiers]
  <2>1. First(MaxBlocks) \in Nat
    BY IndexAssumption, BlockFacts
  <2> QED
    BY <2>1 DEF IndexInv
<1>2. \A p \in 0 .. version - 1 : p \in Position
  BY <1>1, PositionFacts
<1>3. \A i \in 1 .. version : i - 1 \in 0 .. version - 1
  BY <1>1
<1>4. Tags \in [1 .. version -> 0 .. MaxTiers]
  BY <1>1, <1>2, <1>3 DEF Tags
<1>5. Tags \in Seq(0 .. MaxTiers) /\ Len(Tags) = version /\ DOMAIN Tags = 1 .. version
  <2>1. Tags \in Seq(0 .. MaxTiers)
    BY <1>1, <1>4, IsASeq DEF Tags
  <2>2. Len(Tags) = version /\ DOMAIN Tags = 1 .. version
    BY <1>1, <1>4, <2>1, LenProperties DEF Tags
  <2> QED
    BY <2>1, <2>2
<1>6. ASSUME NEW p \in 0 .. version - 1 PROVE Tags[p + 1] = tag[p]
  <2>1. p + 1 \in 1 .. version /\ (p + 1) - 1 = p
    BY <1>1
  <2> QED
    BY <2>1 DEF Tags
<1> QED
  BY <1>1, <1>2, <1>5, <1>6

\* Clearing a position clears it in the list.
LEMMA TagsCleared ==
    ASSUME IndexInv, NEW p \in 0 .. version - 1,
           tag' = [tag EXCEPT ![p] = 0], version' = version
    PROVE  Tags' = [Tags EXCEPT ![p + 1] = 0]
<1>1. /\ version \in Nat /\ DOMAIN Tags = 1 .. version
      /\ \A q \in 0 .. version - 1 : Tags[q + 1] = tag[q] /\ q \in Position
      /\ tag \in [Position -> 0 .. MaxTiers]
  BY TagsFacts DEF IndexInv
<1>2. Tags' = [i \in 1 .. version |-> tag'[i - 1]]
  BY DEF Tags
<1>3. ASSUME NEW i \in 1 .. version
      PROVE  tag'[i - 1] = IF i = p + 1 THEN 0 ELSE Tags[i]
  <2>1. i - 1 \in 0 .. version - 1 /\ (i - 1) + 1 = i /\ (i - 1 = p <=> i = p + 1)
    BY <1>1
  <2>2. Tags[i] = tag[i - 1] /\ i - 1 \in Position
    BY <1>1, <2>1
  <2> QED
    BY <1>1, <2>1, <2>2
<1>4. [Tags EXCEPT ![p + 1] = 0]
        = [i \in 1 .. version |-> IF i = p + 1 THEN 0 ELSE Tags[i]]
  BY <1>1
<1> QED
  BY <1>2, <1>3, <1>4

\* Appending to the index appends to the list.
LEMMA AppendRefines ==
    ASSUME IndexInv, NEW t \in Tier, AppendTag(t)
    PROVE  Linear!AppendTag(t)
<1>1. /\ version \in Nat /\ Tags \in Seq(0 .. MaxTiers) /\ Len(Tags) = version
      /\ \A q \in 0 .. version - 1 : Tags[q + 1] = tag[q] /\ q \in Position
      /\ tag \in [Position -> 0 .. MaxTiers]
  BY TagsFacts DEF IndexInv
<1>2. /\ version < MaxBlocks * BlockSize /\ version' = version + 1
      /\ tag' = [tag EXCEPT ![version] = t + 1]
      /\ response' = [op |-> "append", position |-> version]
  BY DEF AppendTag, NextPosition
<1>3. version \in Position
  BY <1>1, <1>2, PositionFacts DEF First
<1>4. Tags' = [i \in 1 .. version + 1 |-> tag'[i - 1]]
  BY <1>2 DEF Tags
<1>5. ASSUME NEW i \in 1 .. version + 1
      PROVE  tag'[i - 1] = IF i = version + 1 THEN t + 1 ELSE Tags[i]
  <2>1. CASE i = version + 1
    <3>1. i - 1 = version
      BY <1>1, <2>1
    <3> QED
      BY <1>1, <1>2, <1>3, <2>1, <3>1
  <2>2. CASE i # version + 1
    <3>1. i - 1 \in 0 .. version - 1 /\ (i - 1) + 1 = i /\ i - 1 # version
      BY <1>1, <2>2
    <3>2. Tags[i] = tag[i - 1] /\ i - 1 \in Position
      BY <1>1, <3>1
    <3> QED
      BY <1>1, <1>2, <2>2, <3>1, <3>2
  <2> QED
    BY <2>1, <2>2
<1>6. Tags' = [i \in 1 .. Len(Tags) + 1 |-> IF i = Len(Tags) + 1 THEN t + 1 ELSE Tags[i]]
  BY <1>1, <1>4, <1>5
<1>7. Tags' = Append(Tags, t + 1)
  <2>1. t + 1 \in 0 .. MaxTiers
    BY IndexAssumption
  <2> QED
    BY <1>1, <1>6, <2>1
<1>8. Linear!AppendTag(t) <=> /\ Len(Tags) < MaxBlocks * BlockSize
                             /\ Tags' = Append(Tags, t + 1)
                             /\ response' = [op |-> "append", position |-> Len(Tags)]
  BY DEF Linear!AppendTag, Tags
<1> QED
  BY <1>1, <1>2, <1>7, <1>8

\* Both modules count with the same operator.
LEMMA SameCardinality == \A S : Linear!Cardinality(S) = Cardinality(S)
BY DEF Linear!Cardinality, Cardinality

\* The prizes of a tier in the list.
LEMMA InTierFacts ==
    ASSUME IndexInv, NEW c \in 0 .. version, NEW t \in Tier
    PROVE  Linear!InTier(c, t) = Tagged(0, c - 1, t)
<1>1. version \in Nat /\ \A q \in 0 .. version - 1 : Tags[q + 1] = tag[q]
  BY TagsFacts
<1>2. \A q \in 0 .. c - 1 : q \in 0 .. version - 1
  BY <1>1
<1>3. Linear!InTier(c, t) = {p \in 0 .. c - 1 : Tags[p + 1] = t + 1}
  BY DEF Linear!InTier, Tags
<1> QED
  BY <1>1, <1>2, <1>3 DEF Tagged

\* The index implements the linear inventory, the positions it returns included: a
\* draw takes the prize that a scan of the list for the rank-th of the tier takes.
THEOREM ImplementsLinear == Spec => LinearSpec
<1>1. Init => Linear!Init
  <2>1. ASSUME version = 0 PROVE Tags = << >>
    BY <2>1 DEF Tags
  <2> QED
    BY <2>1 DEF Init, Linear!Init, Tags
<1>2. ASSUME IndexInv, [Next]_vars PROVE [Linear!Next]_(Linear!avars)
  <2>0. version \in Nat /\ Len(Tags) = version
    BY <1>2, TagsFacts
  <2>1. CASE UNCHANGED vars
    BY <2>1 DEF vars, Linear!avars
  <2>2. ASSUME NEW t \in Tier, AppendTag(t) PROVE Linear!Next
    BY <1>2, <2>2, AppendRefines DEF Linear!Next, Linear!Tier
  <2>3. ASSUME NEW c \in 1 .. version, NEW t \in Tier, NEW r \in 0 .. version - 1,
               Take(c, t, r)
        PROVE  Linear!Next
    <3>1. r \in Nat /\ c \in 0 .. version
      BY <2>0
    <3>2. PICK p \in 0 .. c - 1 :
            /\ tag[p] = t + 1
            /\ Cardinality(Tagged(0, p - 1, t)) = r
            /\ tag' = [tag EXCEPT ![p] = 0]
            /\ response' = [op |-> "take", tier |-> t, rank |-> r, position |-> p]
            /\ version' = version
      BY <1>2, <2>3, <3>1, TakeFinds
    <3>3. p \in 0 .. version /\ p \in 0 .. version - 1
      BY <2>0
    <3>4. p \in Linear!InTier(c, t) /\ Cardinality(Linear!InTier(p, t)) = r
      BY <1>2, <3>1, <3>2, <3>3, InTierFacts DEF Tagged
    <3>5. Tags' = [Tags EXCEPT ![p + 1] = 0]
      BY <1>2, <3>2, <3>3, TagsCleared
    <3>6. Linear!Take(c, t, r)
      <4>1. Linear!Take(c, t, r) <=>
              \E q \in Linear!InTier(c, t) :
                /\ Cardinality(Linear!InTier(q, t)) = r
                /\ Tags' = [Tags EXCEPT ![q + 1] = 0]
                /\ response' = [op |-> "take", tier |-> t, rank |-> r, position |-> q]
        BY SameCardinality DEF Linear!Take, Tags
      <4> QED
        BY <3>2, <3>4, <3>5, <4>1
    <3> QED
      BY <2>0, <3>6 DEF Linear!Next, Linear!Tier, Tags
  <2>4. ASSUME NEW p \in Position, NEW t \in Tier, Remove(p, t) PROVE Linear!Next
    <3>1. p \in Nat /\ tag[p] = t + 1 /\ t \in Nat
      BY <2>4, PositionFacts DEF Remove
    <3>2. p < version
      <4>1. version <= p => tag[p] = 0
        BY <1>2 DEF IndexInv
      <4> QED
        BY <2>0, <3>1, <4>1
    <3>3. p \in 0 .. version - 1 /\ version \in 0 .. version
      BY <2>0, <3>1, <3>2
    <3>4. /\ tag' = [tag EXCEPT ![p] = 0] /\ version' = version
          /\ response' = [op |-> "remove", position |-> p]
      BY <2>4 DEF Remove
    <3>5. p \in Linear!InTier(version, t)
      BY <1>2, <3>1, <3>3, InTierFacts DEF Tagged
    <3>6. Tags' = [Tags EXCEPT ![p + 1] = 0]
      BY <1>2, <3>3, <3>4, TagsCleared
    <3>7. Linear!Remove(p, t)
      BY <2>0, <3>4, <3>5, <3>6 DEF Linear!Remove, Tags
    <3> QED
      BY <2>0, <3>3, <3>7 DEF Linear!Next, Linear!Tier, Tags
  <2> QED
    BY <1>2, <2>1, <2>2, <2>3, <2>4 DEF Next
<1> QED
  BY <1>1, <1>2, IndexAlways, PTL DEF Spec, LinearSpec, Linear!Spec
=============================================================================
