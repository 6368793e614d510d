----------------------------- MODULE ClientProofs -----------------------------
(***************************************************************************)
(* The limits the SDK shows are exact, for every value of the constants.   *)
(***************************************************************************)
EXTENDS Kit, GachaProofs, RollProofs

USE DEF Tier, Position

\* Dividing down finds the largest multiple.
LEMMA QuotientExact ==
    \A a \in Nat, b \in Nat \ {0}, n \in Nat : n <= a \div b <=> b * n <= a
<1> SUFFICES ASSUME NEW a \in Nat, NEW b \in Nat \ {0}, NEW n \in Nat
             PROVE  n <= a \div b <=> b * n <= a
  OBVIOUS
<1>1. PICK q \in Nat : q = a \div b
  OBVIOUS
<1>2. b * q <= a /\ a < b * (q + 1)
  BY <1>1
<1>3. n <= q => b * n <= b * q
  BY ProductMonotone
<1>4. ~ (n <= q) => b * (q + 1) <= b * n
  BY ProductMonotone
<1> QED
  BY <1>1, <1>2, <1>3, <1>4

-----------------------------------------------------------------------------
(* What the limits rest on: PledgeInv.                                     *)

\* The unsold stock covers every pending draw: the newest purchase's prefix does,
\* together with everybody before it.
LEMMA StockCoversQueue ==
    ASSUME ReserveInv
    PROVE  pending_draws <= TotalRemaining
<1>1. TypeOK /\ QueueInv /\ StockInv /\ FIFOQueue
  BY DEF ReserveInv, CountInv, QueueInv
<1>2. pending_draws = Cardinality(Tickets(next_index))
  BY DEF ReserveInv, CountInv, PendingDrawsCounted
<1>3. TotalRemaining \in Nat
      /\ TotalRemaining = Cardinality(Available(inventory_version))
  BY <1>1, TotalIsAvailable
<1>4. CASE PendingSeeds = {}
  <2>1. Tickets(next_index) = {}
    BY <1>4 DEF Tickets
  <2> QED
    BY <1>2, <1>3, <2>1, FS_EmptySet
<1>5. CASE PendingSeeds # {}
  <2>1. PICK s \in PendingSeeds : pulls[s].index = next_index - 1
    <3>1. PICK r \in PendingSeeds : TRUE
      BY <1>5
    <3>2. /\ next_settle \in Nat /\ next_index \in Nat /\ pulls[r].index \in Nat
          /\ next_settle <= pulls[r].index /\ pulls[r].index < next_index
      BY <1>1, <3>1, QueueFacts, PendingNumbers
    <3>3. next_index - 1 \in next_settle .. next_index - 1
      BY <3>2
    <3> QED
      BY <1>1, <3>3 DEF FIFOQueue
  <2>2. Tickets(next_index) = Tickets(pulls[s].index)
    <3>1. ASSUME NEW r \in PendingSeeds
          PROVE  pulls[r].index <= next_index /\ pulls[r].index <= next_index - 1
      BY <1>1, QueueFacts, PendingNumbers
    <3> QED
      BY <2>1, <3>1 DEF Tickets
  <2>3. Available(pulls[s].inventory_version) \in SUBSET Available(inventory_version)
    <3>1. /\ pulls[s].inventory_version <= inventory_version
          /\ pulls[s].inventory_version \in Nat /\ inventory_version \in Nat
      BY <1>1, PendingNumbers, BoundAssumption DEF FIFOQueue, TypeOK
    <3> QED
      BY <3>1, BoundAssumption DEF Available
  <2>4. Cardinality(Available(pulls[s].inventory_version)) <= TotalRemaining
    BY <1>3, <2>3, AvailableFinite, FS_Subset
  <2>5. Cardinality(Tickets(pulls[s].index))
          <= Cardinality(Available(pulls[s].inventory_version))
    BY DEF ReserveInv, ReservedPrefix
  <2> QED
    BY <1>2, <1>3, <2>2, <2>4, <2>5, AvailableFinite, TicketsFinite
<1> QED
  BY <1>4, <1>5

-----------------------------------------------------------------------------
(* The limits.                                                             *)

\* The SDK's view of the present ledger, field by field.
LEMMA PresentView ==
    /\ ReservedIn(Ledger) = RefundAmount(pending_draws)
    /\ StockIn(Ledger) = TotalRemaining
    /\ spendable_balance(Ledger) =
         IF vault >= RefundAmount(pending_draws)
         THEN vault - RefundAmount(pending_draws) ELSE 0
    /\ available_draws(Ledger) =
         IF status # "active" THEN 0
         ELSE Least(Least(TotalRemaining - pending_draws,
                          spendable_balance(Ledger) \div terms.bond_per_draw), MaxCount)
<1>1. ReservedIn(Ledger) = RefundAmount(pending_draws)
  BY DEF ReservedIn, Ledger, RefundAmount
<1>2. StockIn(Ledger) = TotalRemaining
  BY DEF StockIn, TiersOf, Ledger, TotalRemaining, Tiers
<1>3. Ledger.vault = vault /\ Ledger.status = status
      /\ Ledger.pending_draws = pending_draws /\ Ledger.terms = terms
  BY DEF Ledger
<1> QED
  BY <1>1, <1>2, <1>3 DEF spendable_balance, Surplus, available_draws, Affordable

\* In a solvent pool, the surplus is what can be paid out.
LEMMA SurplusExact ==
    ASSUME SolvencyInv
    PROVE  /\ RefundAmount(pending_draws) \in Nat /\ Fits(RefundAmount(pending_draws))
           /\ RefundAmount(pending_draws) <= vault
           /\ spendable_balance(Ledger) = vault - RefundAmount(pending_draws)
           /\ \A a \in Nat : Spendable(a) <=> a <= spendable_balance(Ledger)
<1>1. /\ terms.price \in Nat /\ terms.bond_per_draw \in Nat /\ pending_draws \in Nat
      /\ vault \in Nat /\ vault <= MaxU64 /\ MaxU64 \in Nat
  BY BoundAssumption DEF SolvencyInv, TypeOK, Term
<1>2. RefundAmount(pending_draws) \in Nat /\ RefundAmount(pending_draws) <= vault
  BY <1>1 DEF SolvencyInv, Solvency, RefundAmount
<1>3. Fits(RefundAmount(pending_draws))
  BY <1>1, <1>2 DEF Fits
<1>4. spendable_balance(Ledger) = vault - RefundAmount(pending_draws)
  BY <1>1, <1>2, PresentView
<1> QED
  BY <1>2, <1>3, <1>4 DEF Spendable

\* The buyer's payment meets the price part of a new reservation, so that the
\* surplus has to cover its penalties only.
LEMMA CollateralExact ==
    ASSUME SolvencyInv, NEW n \in 1 .. MaxCount, Payment(n) <= Supply - vault,
           terms.bond_per_draw # 0
    PROVE  Collateralized(n)
             <=> n <= spendable_balance(Ledger) \div terms.bond_per_draw
<1> DEFINE p == terms.price
           b == terms.bond_per_draw
           r == RefundAmount(pending_draws)
<1>1. /\ p \in Nat /\ b \in Nat \ {0} /\ n \in Nat /\ pending_draws \in Nat
      /\ vault \in Nat /\ Supply \in Nat /\ MaxU64 \in Nat
      /\ vault <= Supply /\ Supply <= MaxU64
  BY BoundAssumption DEF SolvencyInv, TypeOK, Term
<1>2. r \in Nat /\ r <= vault /\ spendable_balance(Ledger) = vault - r
  BY SurplusExact
<1>3. RefundAmount(pending_draws + n) = r + p * n + b * n
  BY <1>1 DEF RefundAmount
<1>4. p * n \in Nat /\ b * n \in Nat /\ Payment(n) = p * n
  BY <1>1 DEF Payment
<1>5. Fits(Payment(n)) /\ Fits(vault + Payment(n))
  BY <1>1, <1>4 DEF Fits
<1>6. Collateralized(n) <=> r + p * n + b * n <= vault + p * n
  BY <1>1, <1>2, <1>3, <1>4, <1>5 DEF Collateralized, Fits
<1>7. n <= (vault - r) \div b <=> b * n <= vault - r
  BY <1>1, <1>2, QuotientExact
<1> QED
  BY <1>1, <1>2, <1>4, <1>6, <1>7

\* What the program would accept the SDK computes, in every state of the invariant.
LEMMA LimitsHold == ASSUME PledgeInv PROVE LimitsExact
<1>1. SolvencyInv /\ ReserveInv /\ TermsValid /\ StockInv /\ TypeOK
  BY DEF PledgeInv, ReserveInv, SolvencyInv
<1>2. Fits(ReservedIn(Ledger))
  BY <1>1, SurplusExact, PresentView
<1>3. pending_draws <= StockIn(Ledger)
  BY <1>1, StockCoversQueue, PresentView
<1>4. \A a \in 0 .. Supply : Spendable(a) <=> a <= spendable_balance(Ledger)
  BY <1>1, SurplusExact, BoundAssumption
<1>5. ASSUME NEW n \in 1 .. MaxCount, Payment(n) <= Supply - vault
      PROVE  n <= available_draws(Ledger)
               <=> status = "active" /\ InStock(n) /\ Collateralized(n)
  <2>1. n \in Nat /\ n > 0 /\ n <= MaxCount /\ MaxCount \in Nat
    BY BoundAssumption
  <2>2. CASE status # "active"
    BY <2>1, <2>2, PresentView
  <2>3. CASE status = "active"
    <3> DEFINE q == spendable_balance(Ledger) \div terms.bond_per_draw
    <3>1. terms.bond_per_draw # 0
      BY <1>1, <2>3 DEF TermsValid, ValidTerms
    <3>2. Collateralized(n) <=> n <= q
      BY <1>1, <1>5, <3>1, CollateralExact
    <3>3. pending_draws \in Nat /\ TotalRemaining \in Nat
      BY <1>1, TotalIsAvailable DEF TypeOK
    <3>4. InStock(n) <=> n <= TotalRemaining - pending_draws
      BY <2>1, <3>3 DEF InStock
    <3>5. q \in Int
      <4>1. spendable_balance(Ledger) \in Nat /\ terms.bond_per_draw \in Nat \ {0}
        BY <1>1, <3>1, SurplusExact, BoundAssumption DEF TypeOK, Term
      <4> QED
        BY <4>1
    <3>6. available_draws(Ledger) = Least(Least(TotalRemaining - pending_draws, q), MaxCount)
      BY <2>3, PresentView
    <3> HIDE DEF q
    <3> QED
      BY <2>1, <2>3, <3>2, <3>3, <3>4, <3>5, <3>6 DEF Least
  <2> QED
    BY <2>2, <2>3
<1> QED
  BY <1>2, <1>3, <1>4, <1>5 DEF LimitsExact

\* In every reachable state of every instance the SDK's spendable_balance and
\* available_draws are exactly what Withdraw, Buyback and Buy will accept.
THEOREM LimitsCorrect == Spec => []LimitsExact
<1>1. PledgeInv => LimitsExact
  BY LimitsHold
<1> QED
  BY <1>1, PledgeInductive, PTL DEF Spec

-----------------------------------------------------------------------------
(* Decoding.                                                               *)

\* A pool that exists decodes.
LEMMA PoolDecodable ==
    ASSUME PledgeInv, status # "absent" PROVE PoolDecodes(Ledger)
<1> DEFINE used == {p \in Position : p < inventory_version}
<1>1. TypeOK /\ StockAgrees /\ ValidTerms(terms)
  BY DEF PledgeInv, ReserveInv, StockInv, TermsValid
<1>2. /\ Ledger.status = status /\ Ledger.terms = terms /\ Ledger.tags = tags
      /\ Ledger.remaining = remaining /\ Ledger.inventory_version = inventory_version
  BY DEF Ledger
<1>3. HeaderDecodes(Ledger)
  BY <1>1, <1>2 DEF HeaderDecodes
<1>4. ASSUME NEW p \in used PROVE tags[p] <= terms.tier_count
  <2>1. CASE tags[p] = 0
    BY <1>1, <2>1 DEF TypeOK, Term
  <2>2. CASE tags[p] # 0
    <3>1. tags[p] = items[p].tier + 1 /\ items[p].tier \in Tiers
      BY <1>1, <2>2 DEF StockAgrees
    <3> QED
      BY <1>1, <3>1, BoundAssumption, SMTT(20) DEF Tiers, TypeOK, Term
  <2> QED
    BY <2>1, <2>2
<1>5. ASSUME NEW t \in Tiers
      PROVE  remaining[t] = Cardinality({p \in used : tags[p] = t + 1})
  <2>1. t \in Tier /\ t + 1 # 0
    BY DEF Tiers
  <2>2. {p \in used : tags[p] = t + 1} = {p \in Position : tags[p] = t + 1}
    BY <1>1, <2>1 DEF StockAgrees
  <2> QED
    BY <1>1, <2>1, <2>2 DEF StockAgrees
<1> QED
  BY <1>2, <1>3, <1>4, <1>5 DEF PoolDecodes, TiersOf, Tiers

\* The SDK accepts every pool that exists: the header it reads has valid terms,
\* and the tags of the index add up to the header's counts.
THEOREM PoolsDecode == Spec => [](status # "absent" => PoolDecodes(Ledger))
<1>1. PledgeInv => (status # "absent" => PoolDecodes(Ledger))
  BY PoolDecodable
<1> QED
  BY <1>1, PledgeInductive, PTL DEF Spec

-----------------------------------------------------------------------------
(* The prize with a given rank among the prizes of a tier.                 *)

\* RollProofs!BelowGrows, for positions.
LEMMA BelowFacts ==
    ASSUME NEW S \in SUBSET Position
    PROVE  /\ IsFiniteSet(S) /\ Cardinality(S) \in Nat
           /\ \A x : IsFiniteSet(Below(S, x)) /\ Cardinality(Below(S, x)) \in Nat
           /\ Cardinality(Below(S, 0)) = 0
           /\ Below(S, MaxPositions) = S
           /\ \A x \in Position :
                Cardinality(Below(S, x + 1))
                  = IF x \in S THEN Cardinality(Below(S, x)) + 1
                    ELSE Cardinality(Below(S, x))
           /\ \A x, y \in S : x < y =>
                Cardinality(Below(S, x)) < Cardinality(Below(S, y))
BY BoundAssumption, BelowGrows

\* A member of S is the one that its rank names.
LEMMA NthIs ==
    ASSUME NEW S \in SUBSET Position, NEW p \in S
    PROVE  Nth(S, Cardinality(Below(S, p))) = p
BY BoundAssumption, NthOfRank

\* Every rank below the size of S names a member.
LEMMA NthExists ==
    ASSUME NEW S \in SUBSET Position, NEW k \in Nat, k < Cardinality(S)
    PROVE  Nth(S, k) \in S /\ Cardinality(Below(S, Nth(S, k))) = k
BY BoundAssumption, NthHasRank

\* What lies past a prefix does not change the ranks inside it.
LEMMA NthInPrefix ==
    ASSUME NEW S \in SUBSET Position, NEW v, NEW k \in Nat, k < Cardinality(Below(S, v)),
           v \in Int
    PROVE  Nth(S, k) = Nth(Below(S, v), k)
<1> DEFINE R == Below(S, v)
           p == Nth(R, k)
<1>0. MaxPositions \in Nat
  BY BoundAssumption
<1>1. R \in SUBSET Position /\ R \subseteq S /\ \A q \in R : q < v
  BY DEF Below
<1>2. p \in R /\ Cardinality(Below(R, p)) = k
  <2> HIDE DEF R
  <2> QED
    BY <1>1, NthExists DEF R
<1> HIDE DEF p
<1>3. p \in S /\ p \in Position /\ p < v
  BY <1>1, <1>2
<1>4. \A q \in S : q < p => q < v
  BY <1>0, <1>3
<1>5. Below(S, p) = Below(R, p)
  BY <1>4 DEF Below
<1>6. Nth(S, Cardinality(Below(S, p))) = p
  BY <1>3, NthIs
<1> QED
  BY <1>2, <1>5, <1>6 DEF p

-----------------------------------------------------------------------------
(* One draw of a settlement.                                               *)

Hash == [tier : Word, rank : Word]

\* The prizes of the pull s, and what is left of them in tier t without T.
Prefix(s) == Available(pulls[s].inventory_version)
Left(s, T, t) == {p \in Prefix(s) : tags[p] = t + 1} \ T
LeftCounts(s, T) == [t \in Tier |-> Cardinality(Left(s, T, t))]
OneLess(counts, t) == [counts EXCEPT ![t] = @ - 1]

\* What the index, which knows no prefix, still holds in tier t.
Live(T, t) == {p \in Position : tags[p] = t + 1} \ T

\* The draw that a hash selects when T is taken.
ChosenTier(s, T, hash) == RollTier(terms.weights, LeftCounts(s, T), hash)
ChosenRank(s, T, hash) ==
    RollRank(terms.weights, LeftCounts(s, T), hash, ChosenTier(s, T, hash))
Chosen(s, T, hash) == Nth(Left(s, T, ChosenTier(s, T, hash)), ChosenRank(s, T, hash))

\* The counts are sizes of finite sets of positions.
LEMMA LeftFacts ==
    ASSUME NEW s, NEW T, NEW t
    PROVE  /\ Left(s, T, t) \in SUBSET Position /\ IsFiniteSet(Left(s, T, t))
           /\ Cardinality(Left(s, T, t)) \in Nat
           /\ Cardinality(Left(s, T, t)) > 0 <=> Left(s, T, t) # {}
<1>1. Left(s, T, t) \in SUBSET Position
  BY DEF Left, Prefix, Available
<1>2. IsFiniteSet(Left(s, T, t)) /\ Cardinality(Left(s, T, t)) \in Nat
  BY <1>1, BelowFacts
<1>3. Cardinality(Left(s, T, t)) = 0 <=> Left(s, T, t) = {}
  BY <1>2, FS_EmptySet
<1> QED
  BY <1>1, <1>2, <1>3

\* What is left weighs something.
LEMMA LeftOdds ==
    ASSUME PledgeInv, NEW s \in PendingSeeds, NEW T
    PROVE  Odds(MaxTiers, terms.weights, LeftCounts(s, T))
<1>1. TypeOK
  BY DEF PledgeInv, SolvencyInv
<1>2. MaxTiers \in Nat /\ terms.weights \in [Tier -> Nat]
  BY <1>1, BoundAssumption DEF TypeOK, Term
<1>3. LeftCounts(s, T) \in [Tier -> Nat]
  BY LeftFacts DEF LeftCounts
<1>4. ASSUME NEW t \in Tier, LeftCounts(s, T)[t] > 0 PROVE terms.weights[t] > 0
  <2>1. Cardinality(Left(s, T, t)) > 0
    BY <1>4 DEF LeftCounts
  <2>2. PICK p : p \in Left(s, T, t)
    BY <2>1, LeftFacts
  <2>3. p \in Prefix(s) /\ tags[p] = t + 1
    BY <2>2 DEF Left
  <2>4. terms.weights[tags[p] - 1] # 0
    BY <2>3, CandidatesAreAvailable DEF Prefix, Candidates
  <2>5. tags[p] - 1 = t /\ terms.weights[t] \in Nat
    BY <1>2, <2>3
  <2> QED
    BY <2>4, <2>5
<1> QED
  BY <1>2, <1>3, <1>4 DEF Odds

\* Until the pull has all its draws, a prize of its prefix is left.
LEMMA SomeLeft ==
    ASSUME PledgeInv, NEW s \in PendingSeeds,
           NEW T, IsFiniteSet(T), Cardinality(T) < pulls[s].count
    PROVE  \E t \in Tier : LeftCounts(s, T)[t] > 0
<1>1. TypeOK /\ ReserveInv
  BY DEF PledgeInv, SolvencyInv
<1>2. pulls[s].count \in Nat
  BY <1>1, PendingNumbers
<1>3. pulls[s].count <= Cardinality(Prefix(s))
  BY <1>1, HeadIsReserved DEF Prefix
<1>4. Cardinality(Prefix(s)) \in Nat /\ Cardinality(T) \in Nat
  BY AvailableFinite, FS_CardinalityType DEF Prefix
<1>5. PICK p \in Prefix(s) : p \notin T
  <2>1. SUFFICES ASSUME Prefix(s) \subseteq T PROVE FALSE
    OBVIOUS
  <2>2. Cardinality(Prefix(s)) <= Cardinality(T)
    BY <2>1, FS_Subset
  <2> QED
    BY <1>2, <1>3, <1>4, <2>2
<1>6. PICK t \in Tiers : tags[p] - 1 = t
  BY CandidatesAreAvailable DEF Prefix, Candidates
<1>7. t \in Tier /\ p \in Position /\ tags[p] \in Int
  BY <1>1, BoundAssumption DEF TypeOK, Prefix, Available, Tiers
<1>8. tags[p] = t + 1
  BY <1>6, <1>7
<1>9. p \in Left(s, T, t)
  BY <1>5, <1>8 DEF Left
<1>10. Cardinality(Left(s, T, t)) > 0
  BY <1>9, LeftFacts
<1> QED
  BY <1>7, <1>10 DEF LeftCounts

\* The draw takes a prize that is left, although the index it searches knows no
\* prefix, and the counts follow.
LEMMA OneDraw ==
    ASSUME PledgeInv, NEW s \in PendingSeeds,
           NEW T, IsFiniteSet(T), Cardinality(T) < pulls[s].count,
           NEW hash \in Hash, NEW t, t = ChosenTier(s, T, hash),
           NEW k, k = ChosenRank(s, T, hash), NEW p, p = Chosen(s, T, hash)
    PROVE  /\ t \in Tier /\ k \in Nat /\ k < LeftCounts(s, T)[t]
           /\ p \in Left(s, T, t)
           /\ p = Nth(Live(T, t), k)
           /\ LeftCounts(s, T \cup {p}) = OneLess(LeftCounts(s, T), t)
<1> DEFINE C == LeftCounts(s, T)
           L == Left(s, T, t)
           live == Live(T, t)
<1>0. TypeOK
  BY DEF PledgeInv, SolvencyInv
<1>1. Odds(MaxTiers, terms.weights, C)
  BY LeftOdds
<1>2. hash.tier \in Nat /\ hash.rank \in Nat
  BY WordAssumption DEF Hash, Word
<1>3. PICK u \in Tier : C[u] > 0 /\ DrawTier(MaxTiers, terms.weights, C, hash.tier) = {u}
  <2>1. \E u \in 0 .. MaxTiers - 1 : C[u] > 0
    BY SomeLeft
  <2> HIDE DEF C
  <2> QED
    BY <1>1, <1>2, <2>1, DrawLands
<1>4. t = u
  BY <1>3 DEF ChosenTier, RollTier
<1>5. t \in Tier /\ C[t] = Cardinality(L) /\ Cardinality(L) \in Nat /\ Cardinality(L) > 0
  BY <1>3, <1>4, LeftFacts DEF LeftCounts
<1>6. k \in Nat /\ k < Cardinality(L)
  <2>1. k = hash.rank % Cardinality(L)
    BY <1>5 DEF ChosenRank, RollRank, Rank
  <2> HIDE DEF L
  <2> QED
    BY <1>2, <1>5, <2>1
<1>7. p = Nth(L, k)
  BY DEF Chosen
<1>8. p \in L
  <2> HIDE DEF L
  <2> QED
    BY <1>6, <1>7, NthExists, LeftFacts DEF L
<1>9. p = Nth(live, k)
  <2>1. pulls[s].inventory_version \in Int
    BY <1>0, PendingNumbers
  <2>2. t + 1 # 0
    BY <1>5
  <2>3. L = Below(live, pulls[s].inventory_version)
    BY <2>2 DEF Left, Live, Prefix, Available, Below
  <2>4. live \in SUBSET Position
    BY DEF Live
  <2> HIDE DEF L, live
  <2> QED
    BY <1>6, <1>7, <2>1, <2>3, <2>4, NthInPrefix
<1>10. LeftCounts(s, T \cup {p}) = OneLess(C, t)
  <2>1. p \in Prefix(s) /\ tags[p] = t + 1 /\ p \notin T
    BY <1>8 DEF Left
  <2>2. Left(s, T \cup {p}, t) = L \ {p}
    BY DEF Left
  <2>3. Cardinality(Left(s, T \cup {p}, t)) = Cardinality(L) - 1
    <3> HIDE DEF L
    <3> QED
      BY <1>8, <2>2, LeftFacts, FS_RemoveElement DEF L
  <2>4. ASSUME NEW w \in Tier, w # t PROVE Left(s, T \cup {p}, w) = Left(s, T, w)
    <3>1. w + 1 # t + 1
      BY <1>5, <2>4
    <3> QED
      BY <2>1, <3>1 DEF Left
  <2>5. \A w \in Tier : Cardinality(Left(s, T \cup {p}, w))
                          = IF w = t THEN C[t] - 1 ELSE C[w]
    BY <1>5, <2>3, <2>4 DEF LeftCounts
  <2>6. C \in [Tier -> Nat]
    BY <1>1 DEF Odds
  <2> QED
    BY <1>5, <2>5, <2>6 DEF LeftCounts, OneLess
<1> HIDE DEF live, L, C
<1>11. k < C[t]
  BY <1>5, <1>6
<1> QED
  BY <1>5, <1>6, <1>8, <1>9, <1>10, <1>11 DEF live, L, C

-----------------------------------------------------------------------------
(* The draws of a settlement.                                              *)

\* The prizes drawn before draw i.
Earlier(d, i) == {d[j] : j \in 1 .. i - 1}

\* d holds, draw after draw, what the hashes of the output select.
Follows(s, output, d) ==
    /\ d \in [1 .. pulls[s].count -> Prefix(s)]
    /\ \A i \in 1 .. pulls[s].count : d[i] = Chosen(s, Earlier(d, i), output[i])

\* Fewer prizes than the draws are taken before each of them.
LEMMA EarlierFinite ==
    ASSUME NEW d, NEW i \in Nat \ {0}
    PROVE  IsFiniteSet(Earlier(d, i)) /\ Cardinality(Earlier(d, i)) \in Nat
           /\ Cardinality(Earlier(d, i)) < i
<1> DEFINE f == [j \in 1 .. i - 1 |-> d[j]]
<1>1. f \in Surjection(1 .. i - 1, Earlier(d, i))
  BY DEF Surjection, Earlier
<1>2. IsFiniteSet(1 .. i - 1) /\ Cardinality(1 .. i - 1) = i - 1
  <2>1. 1 \in Int /\ i - 1 \in Int /\ (IF 1 > i - 1 THEN 0 ELSE (i - 1) - 1 + 1) = i - 1
    OBVIOUS
  <2> QED
    BY <2>1, FS_Interval
<1>3. IsFiniteSet(Earlier(d, i)) /\ Cardinality(Earlier(d, i)) <= i - 1
  <2> HIDE DEF f
  <2> QED
    BY <1>1, <1>2, FS_Surjection
<1>4. Cardinality(Earlier(d, i)) \in Nat
  BY <1>3, FS_CardinalityType
<1> QED
  BY <1>3, <1>4

\* An output selects one sequence of prizes only.
LEMMA FollowsUnique ==
    ASSUME NEW s, pulls[s].count \in Nat, NEW output, NEW d, NEW e,
           Follows(s, output, d), Follows(s, output, e)
    PROVE  d = e
<1> DEFINE n == pulls[s].count
           S == {i \in Nat : i \in 1 .. n => d[i] = e[i]}
<1>1. ASSUME NEW i \in Nat, \A j \in Nat : j < i => j \in S PROVE i \in S
  <2> SUFFICES ASSUME i \in 1 .. n PROVE d[i] = e[i]
    OBVIOUS
  <2>1. \A j \in 1 .. i - 1 : j \in Nat /\ j < i /\ j \in 1 .. n
    OBVIOUS
  <2>2. \A j \in 1 .. i - 1 : d[j] = e[j]
    BY <1>1, <2>1
  <2>3. Earlier(d, i) = Earlier(e, i)
    BY <2>2 DEF Earlier
  <2> QED
    BY <2>3 DEF Follows
<1>2. \A i \in Nat : i \in S
  <2> HIDE DEF S
  <2> QED
    BY <1>1, StrongInduction
<1>3. \A i \in 1 .. n : d[i] = e[i]
  BY <1>2
<1> QED
  BY <1>3 DEF Follows

\* It is one that Settle may award.
LEMMA FollowsEligible ==
    ASSUME PledgeInv, NEW s \in PendingSeeds, NEW output \in VRFOutput,
           NEW d, Follows(s, output, d)
    PROVE  d \in Draws(s)
<1> DEFINE n == pulls[s].count
<1>1. TypeOK
  BY DEF PledgeInv, SolvencyInv
<1>2. n \in 1 .. MaxCount /\ MaxCount \in Nat
  BY <1>1, BoundAssumption DEF TypeOK, Pull, PendingSeeds, IsPending
<1>3. ASSUME NEW i \in 1 .. n, NEW j \in 1 .. n, j < i PROVE d[i] # d[j]
  <2>1. i \in Nat \ {0} /\ i \in 1 .. MaxCount /\ j \in 1 .. i - 1
    BY <1>2, <1>3
  <2>2. output[i] \in Hash
    BY <2>1 DEF VRFOutput, Hash
  <2>3. /\ IsFiniteSet(Earlier(d, i)) /\ Cardinality(Earlier(d, i)) < n
    BY <1>2, <2>1, EarlierFinite
  <2>4. Chosen(s, Earlier(d, i), output[i]) \notin Earlier(d, i)
    <3>1. Chosen(s, Earlier(d, i), output[i])
            \in Left(s, Earlier(d, i), ChosenTier(s, Earlier(d, i), output[i]))
      BY <2>2, <2>3, OneDraw
    <3> QED
      BY <3>1 DEF Left
  <2>5. d[j] \in Earlier(d, i)
    BY <2>1 DEF Earlier
  <2> QED
    BY <2>4, <2>5 DEF Follows
<1>4. \A i, j \in 1 .. n : d[i] = d[j] => i = j
  <2> SUFFICES ASSUME NEW i \in 1 .. n, NEW j \in 1 .. n, d[i] = d[j] PROVE i = j
    OBVIOUS
  <2>1. ~ (i < j) /\ ~ (j < i)
    BY <1>3
  <2> QED
    BY <1>2, <2>1
<1>5. d \in [1 .. n -> Candidates(s)]
  BY CandidatesAreAvailable DEF Follows, Prefix
<1> QED
  BY <1>4, <1>5 DEF Draws

\* One turn of the program's loop.
ChainStep(s, output, i, before) ==
    LET tier == RollTier(terms.weights, before.counts, output[i])
        rank == RollRank(terms.weights, before.counts, output[i], tier)
        live == {p \in Position : tags[p] = tier + 1} \ ToSet(before.taken)
    IN  [taken |-> Append(before.taken, Nth(live, rank)),
         counts |-> [before.counts EXCEPT ![tier] = @ - 1]]

\* The loop after each of its first m turns.
ChainTurns(s, output, g, m) ==
    g = [i \in 0 .. m |->
           IF i = 0 THEN [taken |-> <<>>, counts |-> EligibleCounts(s)]
           ELSE ChainStep(s, output, i, g[i - 1])]

\* ChainDraws is what the loop has taken in the end.
LEMMA ChainLoop ==
    ASSUME NEW s, NEW output, pulls[s].count \in Nat
    PROVE  \E g : /\ ChainTurns(s, output, g, pulls[s].count)
                  /\ ChainDraws(s, output) = g[pulls[s].count].taken
<1> DEFINE n == pulls[s].count
           start == [taken |-> <<>>, counts |-> EligibleCounts(s)]
           turn(i, b) == ChainStep(s, output, i, b)
           Def(g, m) == [i \in 0 .. m |-> IF i = 0 THEN start ELSE turn(i, g[i - 1])]
           S == {m \in Nat : \E g : g = Def(g, m)}
           loop == CHOOSE g : g = Def(g, n)
<1>1. ChainDraws(s, output) = loop[n].taken
  BY DEF ChainDraws, ChainStep
<1> HIDE DEF start, turn
<1>2. 0 \in S
  <2> DEFINE h == [i \in 0 .. 0 |-> start]
  <2>1. h = Def(h, 0)
    OBVIOUS
  <2> HIDE DEF h
  <2> QED
    BY <2>1
<1>3. ASSUME NEW m \in Nat, m \in S PROVE m + 1 \in S
  <2>1. PICK g : g = Def(g, m)
    BY <1>3
  <2> DEFINE h == [i \in 0 .. m + 1 |-> IF i <= m THEN g[i] ELSE turn(m + 1, g[m])]
  <2>2. ASSUME NEW i \in 0 .. m + 1
        PROVE  h[i] = IF i = 0 THEN start ELSE turn(i, h[i - 1])
    <3>1. CASE i = 0
      <4>1. h[0] = g[0]
        OBVIOUS
      <4>2. g[0] = start
        BY <2>1
      <4> QED
        BY <3>1, <4>1, <4>2
    <3>2. CASE i \in 1 .. m
      <4>1. h[i] = g[i] /\ h[i - 1] = g[i - 1]
        BY <3>2
      <4>2. g[i] = turn(i, g[i - 1])
        BY <2>1, <3>2
      <4> HIDE DEF h
      <4> QED
        BY <3>2, <4>1, <4>2
    <3>3. CASE i = m + 1
      <4>1. h[m + 1] = turn(m + 1, g[m]) /\ h[m] = g[m] /\ (m + 1) - 1 = m
        OBVIOUS
      <4> HIDE DEF h
      <4> QED
        BY <3>3, <4>1
    <3> QED
      BY <3>1, <3>2, <3>3
  <2>3. h = [i \in 0 .. m + 1 |-> h[i]]
    OBVIOUS
  <2> HIDE DEF h
  <2>4. h = Def(h, m + 1)
    BY <2>2, <2>3
  <2> QED
    BY <2>4
<1>4. n \in S
  <2> HIDE DEF S, n
  <2> QED
    BY <1>2, <1>3, SetInduction DEF n
<1>5. loop = Def(loop, n)
  BY <1>4
<1> HIDE DEF loop
<1> QED
  BY <1>1, <1>5 DEF ChainTurns, start, turn

\* The first i draws are d.
Drawing(s, output, i, d) ==
    /\ d \in Seq(Prefix(s)) /\ Len(d) = i
    /\ \A j \in 1 .. i : d[j] = Chosen(s, Earlier(d, j), output[j])

\* Drawing goes on with what the next hash selects.
LEMMA DrawingOn ==
    ASSUME NEW s, NEW output, NEW i \in Nat, NEW d, Drawing(s, output, i, d),
           NEW p \in Prefix(s), p = Chosen(s, ToSet(d), output[i + 1])
    PROVE  /\ Drawing(s, output, i + 1, Append(d, p))
           /\ ToSet(Append(d, p)) = ToSet(d) \cup {p}
           /\ ToSet(d) = Earlier(d, i + 1)
<1> DEFINE e == Append(d, p)
<1>1. d \in Seq(Prefix(s)) /\ Len(d) = i /\ DOMAIN d = 1 .. i
  BY LenProperties DEF Drawing
<1>2. /\ e \in Seq(Prefix(s)) /\ Len(e) = i + 1
      /\ \A j \in 1 .. i : e[j] = d[j]
      /\ e[i + 1] = p
  BY <1>1, AppendProperties
<1>3. DOMAIN e = 1 .. i + 1
  BY <1>2, LenProperties
<1> HIDE DEF e
<1>4. \A j \in 1 .. i + 1 : Earlier(e, j) = Earlier(d, j)
  <2> TAKE j \in 1 .. i + 1
  <2>1. \A l \in 1 .. j - 1 : l \in 1 .. i
    OBVIOUS
  <2>2. \A l \in 1 .. j - 1 : e[l] = d[l]
    BY <1>2, <2>1
  <2> QED
    BY <2>2 DEF Earlier
<1>5. ToSet(d) = Earlier(d, i + 1)
  <2>1. 1 .. (i + 1) - 1 = 1 .. i
    OBVIOUS
  <2> QED
    BY <1>1, <2>1 DEF ToSet, Earlier
<1>6. ASSUME NEW j \in 1 .. i + 1 PROVE e[j] = Chosen(s, Earlier(e, j), output[j])
  <2>1. CASE j \in 1 .. i
    BY <1>2, <1>4, <2>1 DEF Drawing
  <2>2. CASE j = i + 1
    <3>1. i + 1 \in 1 .. i + 1
      OBVIOUS
    <3> QED
      BY <1>2, <1>4, <1>5, <2>2, <3>1
  <2> QED
    BY <2>1, <2>2
<1>7. ToSet(e) = ToSet(d) \cup {p}
  <2>1. \A j : j \in 1 .. i + 1 <=> j \in 1 .. i \/ j = i + 1
    OBVIOUS
  <2>2. \A j \in 1 .. i : j \in 1 .. i + 1 /\ e[j] = d[j]
    BY <1>2
  <2> QED
    BY <1>1, <1>2, <1>3, <2>1, <2>2, Zenon DEF ToSet
<1>8. Drawing(s, output, i + 1, e)
  BY <1>2, <1>6 DEF Drawing
<1> QED
  BY <1>5, <1>7, <1>8 DEF e

\* Complete draws follow the output.
LEMMA DrawingEnds ==
    ASSUME NEW s, NEW output, NEW d, Drawing(s, output, pulls[s].count, d)
    PROVE  Follows(s, output, d)
BY LenProperties DEF Drawing, Follows

\* The program's loop draws what the output selects.
LEMMA ChainFollows ==
    ASSUME PledgeInv, NEW s \in PendingSeeds, NEW output \in VRFOutput
    PROVE  Follows(s, output, ChainDraws(s, output))
<1> DEFINE n == pulls[s].count
<1>0. TypeOK
  BY DEF PledgeInv, SolvencyInv
<1>1. n \in 1 .. MaxCount /\ n \in Nat /\ MaxCount \in Nat
  BY <1>0, BoundAssumption DEF TypeOK, Pull, PendingSeeds, IsPending
<1>2. PICK g : ChainTurns(s, output, g, n) /\ ChainDraws(s, output) = g[n].taken
  BY <1>1, ChainLoop
<1> DEFINE S == {i \in Nat : i <= n =>
                    /\ Drawing(s, output, i, g[i].taken)
                    /\ g[i].counts = LeftCounts(s, ToSet(g[i].taken))}
<1>3. 0 \in S
  <2>1. g[0] = [taken |-> <<>>, counts |-> EligibleCounts(s)]
    BY <1>1, <1>2 DEF ChainTurns
  <2>2. Drawing(s, output, 0, <<>>)
    BY EmptySeq DEF Drawing
  <2>3. ToSet(<<>>) = {}
    BY DEF ToSet
  <2>4. \A t : Left(s, {}, t) = {p \in Prefix(s) : tags[p] = t + 1}
    BY DEF Left
  <2>5. EligibleCounts(s) = LeftCounts(s, {})
    BY <2>4 DEF EligibleCounts, LeftCounts, Prefix
  <2>6. g[0].taken = <<>> /\ g[0].counts = EligibleCounts(s)
    BY <2>1
  <2>7. g[0].counts = LeftCounts(s, ToSet(g[0].taken))
    BY <2>3, <2>5, <2>6, Zenon
  <2> QED
    BY <2>2, <2>6, <2>7
<1>4. ASSUME NEW i \in Nat, i \in S PROVE i + 1 \in S
  <2> SUFFICES ASSUME i + 1 <= n
               PROVE  /\ Drawing(s, output, i + 1, g[i + 1].taken)
                      /\ g[i + 1].counts = LeftCounts(s, ToSet(g[i + 1].taken))
    OBVIOUS
  <2> DEFINE d == g[i].taken
             T == ToSet(d)
             hash == output[i + 1]
             t == ChosenTier(s, T, hash)
             k == ChosenRank(s, T, hash)
             p == Chosen(s, T, hash)
  <2>1. Drawing(s, output, i, d) /\ g[i].counts = LeftCounts(s, T)
    BY <1>1, <1>4
  <2>2. hash \in Hash
    BY <1>1 DEF VRFOutput, Hash
  <2>3. IsFiniteSet(T) /\ Cardinality(T) < n
    <3>1. d \in Seq(Prefix(s)) /\ DOMAIN d = 1 .. i
      BY <2>1, LenProperties DEF Drawing
    <3>2. 1 .. (i + 1) - 1 = 1 .. i
      OBVIOUS
    <3>3. T = Earlier(d, i + 1)
      BY <3>1, <3>2 DEF ToSet, Earlier
    <3>4. /\ IsFiniteSet(Earlier(d, i + 1)) /\ Cardinality(Earlier(d, i + 1)) \in Nat
          /\ Cardinality(Earlier(d, i + 1)) < i + 1
      BY EarlierFinite
    <3> QED
      BY <1>1, <3>3, <3>4
  <2>4. /\ p \in Left(s, T, t)
        /\ p = Nth(Live(T, t), k)
        /\ LeftCounts(s, T \cup {p}) = OneLess(LeftCounts(s, T), t)
    <3> HIDE DEF t, k, p, T, hash
    <3> QED
      BY <2>2, <2>3, OneDraw DEF t, k, p
  <2>5. p \in Prefix(s)
    BY <2>4 DEF Left
  <2>6. g[i + 1] = ChainStep(s, output, i + 1, g[i])
    <3>1. i + 1 \in 0 .. n /\ i + 1 # 0 /\ (i + 1) - 1 = i
      BY <1>1
    <3> QED
      BY <1>2, <3>1 DEF ChainTurns
  <2>7. /\ g[i + 1].taken = Append(d, p)
        /\ g[i + 1].counts = OneLess(LeftCounts(s, T), t)
    <3>1. /\ RollTier(terms.weights, g[i].counts, output[i + 1]) = t
          /\ RollRank(terms.weights, g[i].counts, output[i + 1], t) = k
      BY <2>1 DEF ChosenTier, ChosenRank
    <3> HIDE DEF t, k, p
    <3> QED
      BY <2>1, <2>4, <2>6, <3>1 DEF ChainStep, Live, OneLess
  <2>8. /\ Drawing(s, output, i + 1, Append(d, p))
        /\ ToSet(Append(d, p)) = T \cup {p}
    <3> HIDE DEF d, p
    <3> QED
      BY <2>1, <2>5, DrawingOn DEF p, hash
  <2> HIDE DEF d, p, t, T
  <2> QED
    BY <2>4, <2>7, <2>8
<1>5. n \in S
  <2> HIDE DEF S, n
  <2> QED
    BY <1>1, <1>3, <1>4, SetInduction
<1> QED
  BY <1>1, <1>2, <1>5, DrawingEnds

-----------------------------------------------------------------------------
(* Every eligible sequence of prizes is reached.                           *)

\* The pool's parameters were offered to CreatePool.
TermsOffered == status # "absent" => terms \in Terms

\* Some hash selects any given prize that is left: a word is as large as all the
\* weights together and as any number of prizes.
LEMMA HashFor ==
    ASSUME PledgeInv, TermsOffered, NEW s \in PendingSeeds, NEW T,
           NEW t \in Tier, NEW p \in Left(s, T, t)
    PROVE  \E h \in Hash : Chosen(s, T, h) = p
<1> DEFINE L == Left(s, T, t)
           k == Cardinality(Below(L, p))
           c == Cardinality(L)
<1>0. TypeOK /\ AbsentSoldNothing
  BY DEF PledgeInv, SolvencyInv, ReserveInv, StockInv
<1>1. PICK C : C = LeftCounts(s, T)
  OBVIOUS
<1>2. PICK w : w = terms.weights
  OBVIOUS
<1>3. Odds(MaxTiers, w, C)
  BY <1>1, <1>2, LeftOdds
<1>4. C[t] = c /\ c \in Nat /\ c > 0
  BY <1>1, LeftFacts DEF LeftCounts
<1>5. PICK b \in Nat, x \in Nat, total \in Nat :
        /\ b = Bound(MaxTiers, w, C, t) /\ x = Share(w, C, t)
        /\ total = Total(MaxTiers, w, C)
        /\ Bound(MaxTiers, w, C, t + 1) = b + x /\ b + x <= total
  <2>1. t \in 0 .. MaxTiers /\ t + 1 \in 0 .. MaxTiers /\ MaxTiers \in 0 .. MaxTiers
        /\ t + 1 <= MaxTiers /\ t \in 0 .. MaxTiers - 1
    BY BoundAssumption
  <2>2. /\ Bound(MaxTiers, w, C, t) \in Nat /\ Share(w, C, t) \in Nat
        /\ Bound(MaxTiers, w, C, MaxTiers) \in Nat
        /\ Bound(MaxTiers, w, C, MaxTiers) = Total(MaxTiers, w, C)
        /\ Bound(MaxTiers, w, C, t + 1) = Bound(MaxTiers, w, C, t) + Share(w, C, t)
        /\ Bound(MaxTiers, w, C, t + 1) <= Bound(MaxTiers, w, C, MaxTiers)
    BY <1>3, <2>1, Bounds
  <2> QED
    BY <2>2
<1>6. x > 0
  BY <1>3, <1>4, <1>5 DEF Odds, Share, Stocked
<1>7. total <= WordSize
  <2>1. total <= SumBelow(MaxTiers, w, MaxTiers)
    BY <1>3, <1>5, TotalBounded
  <2>2. terms \in Terms
    BY <1>0 DEF TermsOffered, AbsentSoldNothing, PendingSeeds, IsPending
  <2>3. SumBelow(MaxTiers, w, MaxTiers) <= WordSize
    BY <1>2, <2>2, WordAssumption
  <2>4. SumBelow(MaxTiers, w, MaxTiers) \in Nat
    <3>1. MaxTiers \in Nat /\ MaxTiers \in 0 .. MaxTiers /\ w \in [0 .. MaxTiers - 1 -> Nat]
      BY <1>3 DEF Odds
    <3> QED
      BY <3>1, SumType
  <2> QED
    BY <2>1, <2>3, <2>4, WordAssumption
<1>8. L \in SUBSET Position /\ IsFiniteSet(L)
  BY LeftFacts
<1>9. k \in Nat /\ k < c /\ Nth(L, k) = p
  <2>1. k \in Nat /\ Nth(L, k) = p
    <3> HIDE DEF L
    <3> QED
      BY <1>8, BelowFacts, NthIs DEF L
  <2>2. Below(L, p) \subseteq L \ {p}
    <3>1. p \in Int
      BY <1>8, BoundAssumption
    <3> QED
      BY <3>1 DEF Below
  <2>3. IsFiniteSet(L \ {p}) /\ Cardinality(L \ {p}) = c - 1
    <3> HIDE DEF L
    <3> QED
      BY <1>8, FS_RemoveElement DEF L
  <2>4. k <= c - 1
    <3> HIDE DEF L
    <3> QED
      BY <2>2, <2>3, FS_Subset
  <2> QED
    BY <1>4, <2>1, <2>4
<1>10. c <= MaxPositions
  <2>1. IsFiniteSet(Position) /\ Cardinality(Position) = MaxPositions
    <3>1. 0 \in Int /\ MaxPositions - 1 \in Int
          /\ (IF 0 > MaxPositions - 1 THEN 0 ELSE (MaxPositions - 1) - 0 + 1) = MaxPositions
      BY BoundAssumption
    <3> QED
      BY <3>1, FS_Interval
  <2> HIDE DEF L
  <2> QED
    BY <1>8, <2>1, FS_Subset
<1>11. b \in Word /\ k \in Word
  <2>1. b < WordSize
    BY <1>5, <1>6, <1>7, WordAssumption
  <2>2. k < WordSize
    BY <1>4, <1>9, <1>10, WordAssumption, BoundAssumption
  <2> QED
    BY <1>9, <2>1, <2>2, WordAssumption DEF Word
<1>12. b % total = b /\ k % c = k
  <2>1. b \in 0 .. total - 1
    BY <1>5, <1>6
  <2>2. k \in 0 .. c - 1
    BY <1>4, <1>9
  <2> HIDE DEF k, c
  <2> QED
    BY <1>4, <2>1, <2>2, SmallRemainder
<1>13. DrawTier(MaxTiers, w, C, b) = {t}
  <2>1. b <= b /\ b < b + x
    BY <1>6
  <2> QED
    BY <1>3, <1>5, <1>12, <2>1, TierOfRoll
<1> HIDE DEF k
<1> DEFINE h == [tier |-> b, rank |-> k]
<1>14. h \in Hash
  BY <1>11 DEF Hash
<1>15. h.tier = b /\ h.rank = k
  OBVIOUS
<1> HIDE DEF h
<1>16. ChosenTier(s, T, h) = t
  BY <1>1, <1>2, <1>13, <1>15 DEF ChosenTier, RollTier
<1>17. ChosenRank(s, T, h) = k
  BY <1>1, <1>4, <1>12, <1>15, <1>16 DEF ChosenRank, RollRank, Rank
<1>18. Chosen(s, T, h) = p
  BY <1>9, <1>16, <1>17 DEF Chosen
<1> QED
  BY <1>14, <1>18

\* Nothing but CreatePool sets them.
LEMMA OfferedNext == TermsOffered /\ [Next]_vars => TermsOffered'
<1> SUFFICES ASSUME TermsOffered, [Next]_vars PROVE TermsOffered'
  OBVIOUS
<1>1. ASSUME NEW t \in Terms, CreatePool(t) PROVE TermsOffered'
  BY <1>1 DEF CreatePool, CanCreatePool, TermsOffered
<1>2. ASSUME terms' = terms, status = "absent" => status' = "absent"
      PROVE  TermsOffered'
  BY <1>2 DEF TermsOffered
<1>3. ASSUME Next, \A t \in Terms : ~ CreatePool(t)
      PROVE  terms' = terms /\ (status = "absent" => status' = "absent")
  BY <1>3 DEF Next, SetStatus, CanSetStatus, DepositItem, CanDepositItem, Withdraw,
              CanWithdraw, Reclaim, CanReclaim, Buy, CanBuy, Refund, CanRefund, Buyback,
              CanBuyback, Settle, CanSettle, Deliver, CanDeliver, Fund, TransferAsset, Tick
<1>4. ASSUME UNCHANGED vars PROVE TermsOffered'
  BY <1>2, <1>4 DEF vars
<1> QED
  BY <1>1, <1>2, <1>3, <1>4

\* Some output selects the prizes of d, one after the other.
LEMMA DrawsFollowed ==
    ASSUME PledgeInv, TermsOffered, NEW s \in PendingSeeds, NEW d \in Draws(s)
    PROVE  \E output \in VRFOutput : Follows(s, output, d)
<1> DEFINE n == pulls[s].count
           hash(i) == CHOOSE h \in Hash : Chosen(s, Earlier(d, i), h) = d[i]
           idle == [tier |-> 0, rank |-> 0]
           output == [i \in 1 .. MaxCount |-> IF i <= n THEN hash(i) ELSE idle]
<1>0. TypeOK
  BY DEF PledgeInv, SolvencyInv
<1>1. n \in 1 .. MaxCount /\ MaxCount \in Nat
  BY <1>0, BoundAssumption DEF TypeOK, Pull, PendingSeeds, IsPending
<1>2. d \in [1 .. n -> Prefix(s)] /\ \A i, j \in 1 .. n : d[i] = d[j] => i = j
  BY CandidatesAreAvailable DEF Draws, Prefix
<1>3. ASSUME NEW i \in 1 .. n
      PROVE  hash(i) \in Hash /\ Chosen(s, Earlier(d, i), hash(i)) = d[i]
  <2>1. d[i] \notin Earlier(d, i)
    <3>1. \A j \in 1 .. i - 1 : j \in 1 .. n /\ j # i
      BY <1>1
    <3> QED
      BY <1>2, <3>1 DEF Earlier
  <2>2. PICK p \in Prefix(s) : p = d[i]
    BY <1>2
  <2>3. PICK t \in Tiers : tags[p] - 1 = t
    BY CandidatesAreAvailable DEF Prefix, Candidates
  <2>4. t \in Tier /\ p \in Position /\ tags[p] \in Int
    BY <1>0, BoundAssumption DEF TypeOK, Prefix, Available, Tiers
  <2>5. tags[p] = t + 1
    BY <2>3, <2>4
  <2>6. d[i] \in Left(s, Earlier(d, i), t)
    BY <2>1, <2>2, <2>5 DEF Left
  <2>7. \E h \in Hash : Chosen(s, Earlier(d, i), h) = d[i]
    BY <2>4, <2>6, HashFor
  <2> QED
    BY <2>7
<1> HIDE DEF hash
<1>4. idle \in Hash
  BY WordAssumption DEF Hash, Word
<1>5. \A i \in 1 .. MaxCount : output[i] \in Hash
  <2> HIDE DEF idle
  <2> QED
    BY <1>1, <1>3, <1>4
<1>6. output \in VRFOutput
  BY <1>5 DEF VRFOutput, Hash
<1>7. \A i \in 1 .. n : i \in 1 .. MaxCount /\ output[i] = hash(i)
  BY <1>1
<1> HIDE DEF output
<1>8. Follows(s, output, d)
  BY <1>2, <1>3, <1>7 DEF Follows
<1> QED
  BY <1>6, <1>8

\* In every reachable state, what the program's draw loop selects over all VRF
\* outputs is exactly what Settle may award to the head: it never leaves the
\* pinned prefix nor repeats a prize, and it can reach every eligible sequence.
THEOREM SettlementReachesAll == Spec => []DrawsReachable
<1>1. Init => PledgeInv /\ TermsOffered
  BY PledgeInductive DEF Init, TermsOffered
<1>2. PledgeInv /\ TermsOffered => DrawsReachable
  <2> SUFFICES ASSUME PledgeInv, TermsOffered, NEW s \in Seeds, IsHead(s)
               PROVE  {ChainDraws(s, output) : output \in VRFOutput} = Draws(s)
    BY DEF DrawsReachable
  <2>1. s \in PendingSeeds
    BY DEF IsHead, PendingSeeds
  <2>2. pulls[s].count \in Nat
    BY <2>1, PendingNumbers DEF PledgeInv, SolvencyInv
  <2>3. ASSUME NEW output \in VRFOutput PROVE ChainDraws(s, output) \in Draws(s)
    BY <2>1, ChainFollows, FollowsEligible
  <2>4. ASSUME NEW d \in Draws(s)
        PROVE  \E output \in VRFOutput : ChainDraws(s, output) = d
    <3>1. PICK output \in VRFOutput : Follows(s, output, d)
      BY <2>1, DrawsFollowed
    <3>2. Follows(s, output, ChainDraws(s, output))
      BY <2>1, ChainFollows
    <3> QED
      BY <2>2, <3>1, <3>2, FollowsUnique
  <2> QED
    BY <2>3, <2>4
<1> QED
  BY <1>1, <1>2, PledgeInductive, OfferedNext, PTL DEF Spec

-----------------------------------------------------------------------------
(* The lists of candidates that the SDKs keep.                             *)

\* e lists the members of S in ascending order.
Sorted(e, S) ==
    /\ e \in Seq(Position)
    /\ S = Earlier(e, Len(e) + 1)
    /\ \A i, j \in 1 .. Len(e) : i < j => e[i] < e[j]

\* An increasing list has as many members as entries.
LEMMA EarlierSize ==
    ASSUME NEW e, NEW i \in Nat \ {0}, \A j, l \in 1 .. i - 1 : e[j] = e[l] => j = l
    PROVE  Cardinality(Earlier(e, i)) = i - 1
<1> DEFINE f == [j \in 1 .. i - 1 |-> e[j]]
<1>1. f \in Bijection(1 .. i - 1, Earlier(e, i))
  BY DEF Bijection, Injection, IsInjective, Surjection, Earlier
<1>2. IsFiniteSet(1 .. i - 1) /\ Cardinality(1 .. i - 1) = i - 1
  <2>1. 1 \in Int /\ i - 1 \in Int /\ (IF 1 > i - 1 THEN 0 ELSE (i - 1) - 1 + 1) = i - 1
    OBVIOUS
  <2> QED
    BY <2>1, FS_Interval
<1>3. ExistsBijection(1 .. i - 1, Earlier(e, i))
  BY <1>1 DEF ExistsBijection
<1> QED
  BY <1>2, <1>3, FS_Bijection

\* The entry at k + 1 of a sorted list is the member of rank k.
LEMMA SortedNth ==
    ASSUME NEW S, NEW e, Sorted(e, S)
    PROVE  /\ S \in SUBSET Position
           /\ Len(e) \in Nat /\ Len(e) = Cardinality(S)
           /\ e \in [1 .. Len(e) -> Position]
           /\ \A i \in 1 .. Len(e) : e[i] \in S /\ e[i] = Nth(S, i - 1)
<1>0. e \in Seq(Position) /\ S = Earlier(e, Len(e) + 1)
      /\ \A i, j \in 1 .. Len(e) : i < j => e[i] < e[j]
  BY DEF Sorted
<1>1. Len(e) \in Nat /\ e \in [1 .. Len(e) -> Position]
  BY <1>0, LenProperties
<1>2. PICK m \in Nat : m = Len(e)
  BY <1>1
<1>3. \A i \in 1 .. m : e[i] \in Position /\ e[i] \in Int
  BY <1>1, <1>2, BoundAssumption
<1>4. \A i, j \in 1 .. m : e[i] = e[j] => i = j
  <2> SUFFICES ASSUME NEW i \in 1 .. m, NEW j \in 1 .. m, e[i] = e[j] PROVE i = j
    OBVIOUS
  <2>1. ~ (i < j) /\ ~ (j < i)
    BY <1>0, <1>2, <1>3
  <2> QED
    BY <2>1
<1>5. (m + 1) - 1 = m /\ m + 1 \in Nat \ {0}
  OBVIOUS
<1>6. S = {e[j] : j \in 1 .. m}
  BY <1>0, <1>2, <1>5 DEF Earlier
<1>7. Cardinality(S) = m
  BY <1>0, <1>2, <1>4, <1>5, EarlierSize
<1>8. S \in SUBSET Position
  BY <1>3, <1>6
<1>9. ASSUME NEW i \in 1 .. m PROVE e[i] \in S /\ e[i] = Nth(S, i - 1)
  <2>1. \A j \in 1 .. m : e[j] < e[i] <=> j < i
    <3> TAKE j \in 1 .. m
    <3>1. /\ i < j => e[i] < e[j]
          /\ j < i => e[j] < e[i]
          /\ ~ (i < j) /\ ~ (j < i) => e[i] = e[j]
      BY <1>0, <1>2
    <3>2. e[i] \in Int /\ e[j] \in Int
      BY <1>3
    <3> QED
      BY <3>1, <3>2
  <2>2. \A j : j \in 1 .. i - 1 <=> j \in 1 .. m /\ j < i
    OBVIOUS
  <2>3. Below(S, e[i]) = Earlier(e, i)
    BY <1>6, <2>1, <2>2, Zenon DEF Below, Earlier
  <2>4. Cardinality(Earlier(e, i)) = i - 1
    <3>1. \A j \in 1 .. i - 1 : j \in 1 .. m
      OBVIOUS
    <3> QED
      BY <1>4, <3>1, EarlierSize
  <2>5. e[i] \in S
    BY <1>6
  <2> QED
    BY <1>8, <2>3, <2>4, <2>5, NthIs
<1> QED
  BY <1>1, <1>2, <1>7, <1>8, <1>9

\* It is the only sorted list of S.
LEMMA SortedIsAscending == ASSUME NEW S, NEW e, Sorted(e, S) PROVE e = Ascending(S)
<1>1. e \in [1 .. Cardinality(S) -> Position]
      /\ \A i \in 1 .. Cardinality(S) : e[i] = Nth(S, i - 1)
  BY SortedNth
<1> QED
  BY <1>1 DEF Ascending

\* Every set of positions has one.
LEMMA AscendingSorted ==
    ASSUME NEW S \in SUBSET Position PROVE Sorted(Ascending(S), S)
<1>1. PICK e : e = Ascending(S)
  OBVIOUS
<1>2. PICK m \in Nat : m = Cardinality(S)
  BY BelowFacts
<1>3. /\ Len(e) = m /\ e \in Seq(S)
      /\ \A i, j \in 1 .. m : i < j => e[i] < e[j]
      /\ S = {e[i] : i \in 1 .. m}
  <2>1. PICK n \in Nat : n = MaxPositions
    BY BoundAssumption
  <2>2. S \in SUBSET (0 .. n - 1)
    BY <2>1
  <2>3. /\ Len(Ascending(S)) = Cardinality(S) /\ Ascending(S) \in Seq(S)
        /\ \A i, j \in 1 .. Cardinality(S) : i < j => Ascending(S)[i] < Ascending(S)[j]
        /\ S = {Ascending(S)[i] : i \in 1 .. Cardinality(S)}
    BY <2>2, AscendingLists
  <2> QED
    BY <1>1, <1>2, <2>3
<1>4. e \in Seq(Position)
  BY <1>3, SeqMonotonic
<1>5. (m + 1) - 1 = m
  OBVIOUS
<1>6. S = Earlier(e, Len(e) + 1)
  BY <1>3, <1>5 DEF Earlier
<1>7. Sorted(e, S)
  BY <1>3, <1>4, <1>6 DEF Sorted
<1> QED
  BY <1>1, <1>7

\* Removing an entry keeps the list sorted.
LEMMA SortedRemove ==
    ASSUME NEW S, NEW e, Sorted(e, S), NEW k \in 1 .. Len(e)
    PROVE  Sorted(RemoveAt(e, k), S \ {e[k]})
<1> DEFINE r == RemoveAt(e, k)
           u == SubSeq(e, 1, k - 1)
           v == SubSeq(e, k + 1, Len(e))
           at(j) == IF j < k THEN j ELSE j + 1
<1>0. e \in Seq(Position) /\ S = Earlier(e, Len(e) + 1)
      /\ \A i, j \in 1 .. Len(e) : i < j => e[i] < e[j]
  BY DEF Sorted
<1>1. PICK m \in Nat : m = Len(e)
  BY <1>0, LenProperties
<1>2. \A i \in 1 .. m : e[i] \in Position
  BY <1>0, <1>1, ElementOfSeq
<1>3. k \in 1 .. m /\ k \in Nat /\ k - 1 \in Int /\ k + 1 \in Int
  BY <1>1
<1>4. /\ u \in Seq(Position) /\ Len(u) = k - 1
      /\ \A i \in 1 .. k - 1 : u[i] = e[i]
  <2>1. \A i \in 1 .. k - 1 : e[i] \in Position
    BY <1>2, <1>3
  <2>2. /\ u \in Seq(Position) /\ Len(u) = IF 1 <= k - 1 THEN (k - 1) - 1 + 1 ELSE 0
        /\ \A i \in 1 .. (k - 1) - 1 + 1 : u[i] = e[1 + i - 1]
    BY <1>3, <2>1, SubSeqProperties
  <2> HIDE DEF u
  <2>3. Len(u) = k - 1
    BY <1>3, <2>2
  <2>4. \A i \in 1 .. k - 1 : i \in 1 .. (k - 1) - 1 + 1 /\ 1 + i - 1 = i
    BY <1>3
  <2> QED
    BY <2>2, <2>3, <2>4
<1>5. /\ v \in Seq(Position) /\ Len(v) = m - k
      /\ \A i \in 1 .. m - k : v[i] = e[k + i]
  <2>1. \A i \in k + 1 .. m : e[i] \in Position
    BY <1>2, <1>3
  <2>2. v = SubSeq(e, k + 1, m)
    BY <1>1
  <2>3. /\ v \in Seq(Position) /\ Len(v) = IF k + 1 <= m THEN m - (k + 1) + 1 ELSE 0
        /\ \A i \in 1 .. m - (k + 1) + 1 : v[i] = e[(k + 1) + i - 1]
    BY <1>3, <2>1, <2>2, SubSeqProperties
  <2> HIDE DEF v
  <2>4. Len(v) = m - k
    BY <1>3, <2>3
  <2>5. \A i \in 1 .. m - k : i \in 1 .. m - (k + 1) + 1 /\ (k + 1) + i - 1 = k + i
    BY <1>3
  <2> QED
    BY <2>3, <2>4, <2>5
<1>6. /\ r \in Seq(Position) /\ Len(r) = m - 1
      /\ \A i \in 1 .. m - 1 : r[i] = e[at(i)]
  <2>1. r = u \o v
    BY DEF RemoveAt
  <2> HIDE DEF u, v, r
  <2>2. /\ r \in Seq(Position) /\ Len(r) = Len(u) + Len(v)
        /\ \A i \in 1 .. Len(u) + Len(v) :
             r[i] = IF i <= Len(u) THEN u[i] ELSE v[i - Len(u)]
    BY <1>4, <1>5, <2>1, ConcatProperties
  <2>3. Len(u) + Len(v) = m - 1
    BY <1>3, <1>4, <1>5
  <2>4. ASSUME NEW i \in 1 .. m - 1 PROVE r[i] = e[at(i)]
    <3>1. r[i] = IF i <= k - 1 THEN u[i] ELSE v[i - (k - 1)]
      BY <1>4, <2>2, <2>3
    <3>2. CASE i < k
      <4>1. i <= k - 1 /\ i \in 1 .. k - 1
        BY <1>3, <3>2
      <4> QED
        BY <1>4, <3>1, <3>2, <4>1
    <3>3. CASE ~ (i < k)
      <4>1. ~ (i <= k - 1) /\ i - (k - 1) \in 1 .. m - k /\ k + (i - (k - 1)) = i + 1
        BY <1>3, <3>3
      <4> QED
        BY <1>5, <3>1, <3>3, <4>1
    <3> QED
      BY <3>2, <3>3
  <2> QED
    BY <2>2, <2>3, <2>4
<1> HIDE DEF r
<1>7. \A j \in 1 .. m - 1 : at(j) \in 1 .. m /\ at(j) # k
  BY <1>3
<1>8. \A i, j \in 1 .. m - 1 : i < j => r[i] < r[j]
  <2> SUFFICES ASSUME NEW i \in 1 .. m - 1, NEW j \in 1 .. m - 1, i < j PROVE r[i] < r[j]
    OBVIOUS
  <2>1. at(i) < at(j)
    BY <1>3
  <2> HIDE DEF at
  <2> QED
    BY <1>0, <1>1, <1>6, <1>7, <2>1
<1>9. \A l \in 1 .. m : l # k => \E j \in 1 .. m - 1 : at(j) = l
  <2> SUFFICES ASSUME NEW l \in 1 .. m, l # k PROVE \E j \in 1 .. m - 1 : at(j) = l
    OBVIOUS
  <2>1. CASE l < k
    <3>1. l \in 1 .. m - 1 /\ at(l) = l
      BY <1>3, <2>1
    <3> QED
      BY <3>1
  <2>2. CASE k < l
    <3>1. l - 1 \in 1 .. m - 1 /\ at(l - 1) = l
      BY <1>3, <2>2
    <3> QED
      BY <3>1
  <2> QED
    BY <1>3, <2>1, <2>2
<1>10. \A l \in 1 .. m : e[l] = e[k] => l = k
  <2> SUFFICES ASSUME NEW l \in 1 .. m, e[l] = e[k] PROVE l = k
    OBVIOUS
  <2>1. e[l] \in Int /\ e[k] \in Int
    BY <1>2, <1>3, BoundAssumption
  <2>2. ~ (l < k) /\ ~ (k < l)
    BY <1>0, <1>1, <1>3, <2>1
  <2> QED
    BY <1>3, <2>2
<1>11. S \ {e[k]} = Earlier(r, Len(r) + 1)
  <2>1. (m + 1) - 1 = m /\ ((m - 1) + 1) - 1 = m - 1
    OBVIOUS
  <2>2. S = {e[l] : l \in 1 .. m}
    BY <1>0, <1>1, <2>1 DEF Earlier
  <2>3. Earlier(r, Len(r) + 1) = {r[j] : j \in 1 .. m - 1}
    BY <1>6, <2>1 DEF Earlier
  <2> HIDE DEF at
  <2>4. ASSUME NEW p \in S, p # e[k] PROVE \E j \in 1 .. m - 1 : p = r[j]
    <3>1. PICK l \in 1 .. m : p = e[l]
      BY <2>2
    <3>2. PICK j \in 1 .. m - 1 : at(j) = l
      BY <1>9, <2>4, <3>1
    <3> QED
      BY <1>6, <3>1, <3>2
  <2>5. ASSUME NEW j \in 1 .. m - 1 PROVE r[j] \in S /\ r[j] # e[k]
    BY <1>6, <1>7, <1>10, <2>2
  <2> QED
    BY <2>3, <2>4, <2>5
<1>12. Sorted(r, S \ {e[k]})
  BY <1>6, <1>8, <1>11 DEF Sorted
<1> QED
  BY <1>12 DEF r

-----------------------------------------------------------------------------
(* The SDKs' loops draw what the output selects.                           *)

\* The first i prizes of d, and the lists of what is left in each tier without T.
Taken(d, i) == [j \in 1 .. i |-> d[j]]
ListsLeft(s, T) == [t \in Tier |-> Ascending(Left(s, T, t))]
Lengths(lists) == [t \in Tier |-> Len(lists[t])]
WithoutAt(lists, t, k) == [lists EXCEPT ![t] = RemoveAt(@, k)]

\* The lists are as long as the counts.
LEMMA ListsFacts ==
    ASSUME NEW s, NEW T
    PROVE  /\ Lengths(ListsLeft(s, T)) = LeftCounts(s, T)
           /\ \A t \in Tier : /\ ListsLeft(s, T)[t] \in Seq(Position)
                              /\ Len(ListsLeft(s, T)[t]) = LeftCounts(s, T)[t]
<1>1. ASSUME NEW t \in Tier
      PROVE  /\ ListsLeft(s, T)[t] \in Seq(Position)
             /\ Len(ListsLeft(s, T)[t]) = LeftCounts(s, T)[t]
  <2>1. ListsLeft(s, T)[t] = Ascending(Left(s, T, t))
    BY DEF ListsLeft
  <2>2. Sorted(Ascending(Left(s, T, t)), Left(s, T, t))
    BY LeftFacts, AscendingSorted
  <2>3. Len(Ascending(Left(s, T, t))) = Cardinality(Left(s, T, t))
    BY <2>2, SortedNth
  <2>4. Ascending(Left(s, T, t)) \in Seq(Position)
    BY <2>2 DEF Sorted
  <2>5. LeftCounts(s, T)[t] = Cardinality(Left(s, T, t))
    BY DEF LeftCounts
  <2> QED
    BY <2>1, <2>3, <2>4, <2>5
<1>2. \A t \in Tier : Len(ListsLeft(s, T)[t]) = Cardinality(Left(s, T, t))
  BY <1>1 DEF LeftCounts
<1>3. Lengths(ListsLeft(s, T)) = LeftCounts(s, T)
  BY <1>2 DEF Lengths, LeftCounts
<1> QED
  BY <1>1, <1>3

\* One draw from the lists: the entry at the rank chosen is the prize chosen, and
\* without it the lists are those of the next draw.
LEMMA ListDraw ==
    ASSUME PledgeInv, NEW s \in PendingSeeds,
           NEW T, IsFiniteSet(T), Cardinality(T) < pulls[s].count,
           NEW hash \in Hash, NEW t, t = ChosenTier(s, T, hash),
           NEW k, k = ChosenRank(s, T, hash), NEW p, p = Chosen(s, T, hash)
    PROVE  /\ ListsLeft(s, T)[t][k + 1] = p
           /\ WithoutAt(ListsLeft(s, T), t, k + 1) = ListsLeft(s, T \cup {p})
<1> DEFINE L == Left(s, T, t)
           e == Ascending(L)
<1>1. t \in Tier /\ k \in Nat /\ k < LeftCounts(s, T)[t] /\ p \in L
  BY OneDraw
<1>2. Sorted(e, L)
  BY LeftFacts, AscendingSorted
<1>3. ListsLeft(s, T)[t] = e
  BY <1>1 DEF ListsLeft
<1>4. Len(e) = LeftCounts(s, T)[t] /\ LeftCounts(s, T)[t] \in Nat
  <2>1. LeftCounts(s, T)[t] = Cardinality(L)
    BY <1>1 DEF LeftCounts
  <2>2. Len(e) = Cardinality(L) /\ Len(e) \in Nat
    BY <1>2, SortedNth
  <2> HIDE DEF e, L
  <2> QED
    BY <2>1, <2>2
<1>5. p = Nth(L, k)
  BY DEF Chosen
<1> HIDE DEF e
<1>6. k + 1 \in 1 .. Len(e) /\ (k + 1) - 1 = k
  BY <1>1, <1>4
<1>7. e[k + 1] = p
  BY <1>2, <1>5, <1>6, SortedNth
<1>8. Left(s, T \cup {p}, t) = L \ {p}
  BY DEF Left
<1>9. RemoveAt(e, k + 1) = Ascending(Left(s, T \cup {p}, t))
  <2>1. Sorted(RemoveAt(e, k + 1), L \ {p})
    BY <1>2, <1>6, <1>7, SortedRemove
  <2> QED
    BY <1>8, <2>1, SortedIsAscending
<1>10. ASSUME NEW w \in Tier, w # t PROVE Left(s, T \cup {p}, w) = Left(s, T, w)
  <2>1. tags[p] = t + 1
    BY <1>1 DEF Left
  <2>2. w + 1 # t + 1
    BY <1>1, <1>10
  <2> QED
    BY <2>1, <2>2 DEF Left
<1>11. WithoutAt(ListsLeft(s, T), t, k + 1)
         = [w \in Tier |-> IF w = t THEN RemoveAt(e, k + 1) ELSE Ascending(Left(s, T, w))]
  BY <1>1, <1>3 DEF WithoutAt, ListsLeft
<1>12. WithoutAt(ListsLeft(s, T), t, k + 1) = ListsLeft(s, T \cup {p})
  BY <1>9, <1>10, <1>11 DEF ListsLeft
<1> QED
  BY <1>3, <1>7, <1>12

\* What the SDKs hold after i draws, if they draw d.
LEMMA ListTurn ==
    ASSUME PledgeInv, NEW s \in PendingSeeds, NEW output \in VRFOutput,
           NEW d, Follows(s, output, d), NEW i \in 1 .. pulls[s].count,
           NEW T, T = Earlier(d, i),
           NEW t, t = ChosenTier(s, T, output[i]),
           NEW k, k = ChosenRank(s, T, output[i])
    PROVE  /\ output[i] \in Hash
           /\ IsFiniteSet(T) /\ Cardinality(T) < pulls[s].count
           /\ ListsLeft(s, T)[t][k + 1] = d[i]
           /\ WithoutAt(ListsLeft(s, T), t, k + 1) = ListsLeft(s, Earlier(d, i + 1))
           /\ Append(Taken(d, i - 1), d[i]) = Taken(d, i)
<1> DEFINE n == pulls[s].count
<1>0. TypeOK
  BY DEF PledgeInv, SolvencyInv
<1>1. n \in 1 .. MaxCount /\ n \in Nat /\ MaxCount \in Nat
  BY <1>0, BoundAssumption DEF TypeOK, Pull, PendingSeeds, IsPending
<1>2. i \in 1 .. MaxCount /\ i \in Nat \ {0} /\ i <= n
  BY <1>1
<1>3. output[i] \in Hash
  BY <1>2 DEF VRFOutput, Hash
<1>4. IsFiniteSet(T) /\ Cardinality(T) < n
  BY <1>1, <1>2, EarlierFinite
<1>5. d[i] = Chosen(s, T, output[i])
  BY DEF Follows
<1>6. Earlier(d, i + 1) = T \cup {d[i]}
  <2>1. (i + 1) - 1 = i /\ \A j : j \in 1 .. i <=> j \in 1 .. i - 1 \/ j = i
    BY <1>2
  <2> QED
    BY <2>1, Zenon DEF Earlier
<1>7. /\ ListsLeft(s, T)[t][k + 1] = d[i]
      /\ WithoutAt(ListsLeft(s, T), t, k + 1) = ListsLeft(s, T \cup {d[i]})
  BY <1>3, <1>4, <1>5, ListDraw
<1>8. Append(Taken(d, i - 1), d[i]) = Taken(d, i)
  <2>1. \A j \in 1 .. i : j \in 1 .. n
    BY <1>1, <1>2
  <2>2. d \in [1 .. n -> Prefix(s)]
    BY DEF Follows
  <2>3. Taken(d, i) \in [1 .. i -> Prefix(s)] /\ Taken(d, i - 1) \in [1 .. i - 1 -> Prefix(s)]
    BY <2>1, <2>2, <1>2 DEF Taken
  <2>4. i - 1 \in Nat /\ i \in 1 .. n
    BY <1>2
  <2>5. /\ Taken(d, i) \in Seq(Prefix(s)) /\ Len(Taken(d, i)) = i
        /\ Taken(d, i - 1) \in Seq(Prefix(s)) /\ Len(Taken(d, i - 1)) = i - 1
    BY <1>2, <2>3, <2>4, SeqOfFunction
  <2> DEFINE e == Append(Taken(d, i - 1), d[i])
  <2>6. d[i] \in Prefix(s) /\ (i - 1) + 1 = i
    BY <2>2, <1>2
  <2>7. /\ e \in Seq(Prefix(s)) /\ Len(e) = i
        /\ \A j \in 1 .. i - 1 : e[j] = Taken(d, i - 1)[j]
        /\ e[i] = d[i]
    BY <2>5, <2>6, AppendProperties
  <2> HIDE DEF e
  <2>8. ASSUME NEW j \in 1 .. i PROVE e[j] = Taken(d, i)[j]
    <3>1. Taken(d, i)[j] = d[j] /\ (j \in 1 .. i - 1 => Taken(d, i - 1)[j] = d[j])
      BY DEF Taken
    <3>2. j \in 1 .. i - 1 \/ j = i
      BY <1>2
    <3> QED
      BY <2>7, <3>1, <3>2
  <2> QED
    BY <2>5, <2>7, <2>8, SeqEqual DEF e
<1> QED
  BY <1>3, <1>4, <1>6, <1>7, <1>8

\* What the loops start from and what they return.
LEMMA ListEnds ==
    ASSUME PledgeInv, NEW s \in PendingSeeds, NEW output, NEW d, Follows(s, output, d)
    PROVE  /\ PlanLists(Ledger, s) = ListsLeft(s, Earlier(d, 1))
           /\ Taken(d, 0) = <<>> /\ Taken(d, pulls[s].count) = d
<1>0. TypeOK
  BY DEF PledgeInv, SolvencyInv
<1>1. Earlier(d, 1) = {}
  BY DEF Earlier
<1>2. Ledger.pulls = pulls /\ Ledger.tags = tags
  BY DEF Ledger
<1>3. ASSUME NEW t \in Tier
      PROVE  {p \in Position : p < pulls[s].inventory_version /\ tags[p] = t + 1}
               = Left(s, {}, t)
  <2>1. t + 1 # 0
    OBVIOUS
  <2> QED
    BY <2>1 DEF Left, Prefix, Available
<1>4. PlanLists(Ledger, s)
        = [t \in Tier |-> Ascending({p \in Position : /\ p < pulls[s].inventory_version
                                                       /\ tags[p] = t + 1})]
  BY <1>2 DEF PlanLists
<1>5. PlanLists(Ledger, s) = ListsLeft(s, {})
  BY <1>3, <1>4, Zenon DEF ListsLeft
<1>6. Taken(d, 0) = <<>>
  BY DEF Taken
<1>7. Taken(d, pulls[s].count) = d
  BY DEF Taken, Follows
<1> QED
  BY <1>1, <1>5, <1>6, <1>7

\* One turn of the Rust SDK's loop.
PlanStep(v, output, i, before) ==
    LET tier == RollTier(v.terms.weights, Lengths(before.lists), output[i])
        rank == RollRank(v.terms.weights, Lengths(before.lists), output[i], tier)
    IN  [draws |-> Append(before.draws, before.lists[tier][rank + 1]),
         lists |-> WithoutAt(before.lists, tier, rank + 1)]

\* The Rust SDK plans what the output selects.
LEMMA PlanFollows ==
    ASSUME PledgeInv, NEW s \in PendingSeeds, NEW output \in VRFOutput,
           NEW d, Follows(s, output, d)
    PROVE  PlanDraws(Ledger, s, output) = d
<1> DEFINE n == Ledger.pulls[s].count
           start == [draws |-> <<>>, lists |-> PlanLists(Ledger, s)]
           turn(i, b) == PlanStep(Ledger, output, i, b)
           held(i) == [draws |-> Taken(d, i), lists |-> ListsLeft(s, Earlier(d, i + 1))]
           G == [i \in 0 .. n |-> held(i)]
           loop == CHOOSE g : g = [i \in 0 .. n |-> IF i = 0 THEN start ELSE turn(i, g[i - 1])]
<1>0. TypeOK
  BY DEF PledgeInv, SolvencyInv
<1>1. n \in Nat /\ n = pulls[s].count /\ Ledger.terms = terms
  BY <1>0, PendingNumbers DEF Ledger
<1>2. PlanDraws(Ledger, s, output) = loop[n].draws
  BY DEF PlanDraws, ListDraws, PlanStep, Lengths, WithoutAt
<1>3. held(0) = start
  BY ListEnds
<1>4. ASSUME NEW i \in 1 .. n PROVE held(i) = turn(i, held(i - 1))
  <2> DEFINE T == Earlier(d, i)
             t == ChosenTier(s, T, output[i])
             k == ChosenRank(s, T, output[i])
             b == held(i - 1)
  <2>1. (i - 1) + 1 = i
    BY <1>1
  <2>2. b.draws = Taken(d, i - 1) /\ b.lists = ListsLeft(s, T)
    BY <2>1
  <2>3. /\ ListsLeft(s, T)[t][k + 1] = d[i]
        /\ WithoutAt(ListsLeft(s, T), t, k + 1) = ListsLeft(s, Earlier(d, i + 1))
        /\ Append(Taken(d, i - 1), d[i]) = Taken(d, i)
    <3> HIDE DEF T, t, k, n
    <3> QED
      BY <1>1, ListTurn DEF T, t, k
  <2> HIDE DEF b, T
  <2>4. Lengths(b.lists) = LeftCounts(s, T)
    BY <2>2, ListsFacts
  <2>5. RollTier(terms.weights, Lengths(b.lists), output[i]) = t
        /\ RollRank(terms.weights, Lengths(b.lists), output[i], t) = k
    BY <2>4 DEF ChosenTier, ChosenRank
  <2> HIDE DEF t, k
  <2>6. turn(i, b) = [draws |-> Append(b.draws, b.lists[t][k + 1]),
                      lists |-> WithoutAt(b.lists, t, k + 1)]
    BY <1>1, <2>5 DEF PlanStep
  <2> QED
    BY <2>2, <2>3, <2>6 DEF b, T
<1> HIDE DEF start, turn, held
<1>5. G = [i \in 0 .. n |-> IF i = 0 THEN start ELSE turn(i, G[i - 1])]
  <2>1. ASSUME NEW i \in 0 .. n PROVE held(i) = IF i = 0 THEN start ELSE turn(i, G[i - 1])
    <3>1. CASE i = 0
      BY <1>3, <3>1
    <3>2. CASE i # 0
      <4>1. i \in 1 .. n /\ i - 1 \in 0 .. n
        BY <1>1, <3>2
      <4>2. G[i - 1] = held(i - 1)
        BY <4>1
      <4> HIDE DEF G
      <4> QED
        BY <1>4, <3>2, <4>1, <4>2
    <3> QED
      BY <3>1, <3>2
  <2> QED
    BY <2>1
<1>6. loop = [i \in 0 .. n |-> IF i = 0 THEN start ELSE turn(i, loop[i - 1])]
  <2> HIDE DEF G
  <2> QED
    BY <1>5
<1> HIDE DEF loop
<1> DEFINE S == {i \in Nat : i <= n => loop[i] = held(i)}
<1>7. 0 \in S
  BY <1>1, <1>3, <1>6
<1>8. ASSUME NEW i \in Nat, i \in S PROVE i + 1 \in S
  <2> SUFFICES ASSUME i + 1 <= n PROVE loop[i + 1] = held(i + 1)
    OBVIOUS
  <2>1. i + 1 \in 0 .. n /\ i + 1 \in 1 .. n /\ i + 1 # 0 /\ (i + 1) - 1 = i /\ i <= n
    BY <1>1
  <2>2. loop[i + 1] = turn(i + 1, loop[i])
    BY <1>6, <2>1
  <2>3. held(i + 1) = turn(i + 1, held(i))
    BY <1>4, <2>1
  <2> QED
    BY <1>8, <2>1, <2>2, <2>3
<1>9. n \in S
  <2> HIDE DEF S, n
  <2> QED
    BY <1>1, <1>7, <1>8, SetInduction
<1>10. loop[n].draws = Taken(d, n)
  BY <1>1, <1>9 DEF held
<1> QED
  BY <1>1, <1>2, <1>10, ListEnds

\* The TypeScript SDK's walk over the tiers reaches the same tier.
LEMMA KitRolls ==
    ASSUME NEW w, NEW a, Odds(MaxTiers, w, a), NEW x \in Nat,
           NEW c, \A u \in Tier : c[u] \in Seq(Position) /\ Len(c[u]) = a[u],
           NEW t \in Tier, a[t] > 0, DrawTier(MaxTiers, w, a, x) = {t}
    PROVE  KitTier(w, c, x) = t
<1> DEFINE n == MaxTiers
           next(u, r) == IF c[u - 1] = <<>> THEN r ELSE r - w[u - 1]
           rolled(u) == RollAt(n, w, a, x, u)
           R == [u \in 0 .. n |-> rolled(u)]
           roll == CHOOSE g : g = [u \in 0 .. n |-> IF u = 0 THEN x % KitTotal(w, c)
                                                  ELSE IF c[u - 1] = <<>> THEN g[u - 1]
                                                  ELSE g[u - 1] - w[u - 1]]
           hit(u) == c[u] # <<>> /\ roll[u] < w[u]
<1>0. n \in Nat /\ \A u \in Tier : w[u] \in Nat /\ a[u] \in Nat
  BY DEF Odds
<1>1. KitTier(w, c, x) = CHOOSE u \in Tier : hit(u) /\ \A v \in Tier : v < u => ~ hit(v)
  BY DEF KitTier
<1>2. ASSUME NEW u \in Tier PROVE c[u] # <<>> <=> Stocked(a, u)
  <2>1. c[u] # <<>> <=> Len(c[u]) # 0
    BY EmptySeq
  <2> QED
    BY <1>0, <2>1 DEF Stocked
<1>3. KitTotal(w, c) = Total(n, w, a)
  <2>1. \A u \in Tier : (IF c[u] = <<>> THEN 0 ELSE w[u]) = Share(w, a, u)
    BY <1>2 DEF Share
  <2>2. KitShares(w, c) = Shares(n, w, a)
    BY <2>1 DEF KitShares, Shares
  <2> QED
    BY <2>2 DEF KitTotal, Total
<1>4. Total(n, w, a) \in Nat /\ Total(n, w, a) > 0
  BY TotalPositive
<1>5. PICK r \in Nat : r = x % Total(n, w, a)
  BY <1>4
<1>6. /\ \A u \in 0 .. n : Bound(n, w, a, u) \in Nat /\ rolled(u) = r - Bound(n, w, a, u)
      /\ Bound(n, w, a, 0) = 0
  BY <1>5, Bounds DEF RollAt, Bound
<1>7. rolled(0) = x % KitTotal(w, c)
  <2>1. rolled(0) = r - 0
    BY <1>0, <1>6
  <2> HIDE DEF rolled
  <2> QED
    BY <1>3, <1>5, <2>1
<1>8. ASSUME NEW u \in 1 .. n
      PROVE  rolled(u) = IF c[u - 1] = <<>> THEN rolled(u - 1) ELSE rolled(u - 1) - w[u - 1]
  <2>1. u - 1 \in Tier /\ u - 1 \in 0 .. n /\ u \in 0 .. n /\ (u - 1) + 1 = u
    BY <1>0
  <2>2. Bound(n, w, a, u) = Bound(n, w, a, u - 1) + Share(w, a, u - 1)
    <3>1. Bound(n, w, a, (u - 1) + 1) = Bound(n, w, a, u - 1) + Share(w, a, u - 1)
      BY <2>1, Bounds
    <3> QED
      BY <2>1, <3>1
  <2>3. Share(w, a, u - 1) = IF c[u - 1] = <<>> THEN 0 ELSE w[u - 1]
    BY <1>2, <2>1 DEF Share
  <2>4. PICK y \in Nat : y = Bound(n, w, a, u - 1)
    BY <1>6, <2>1
  <2>5. rolled(u - 1) = r - y
    BY <1>6, <2>1, <2>4
  <2>6. rolled(u) = r - (y + Share(w, a, u - 1))
    BY <1>6, <2>1, <2>2, <2>4
  <2>7. w[u - 1] \in Nat
    BY <1>0, <2>1
  <2> HIDE DEF rolled
  <2>8. CASE c[u - 1] = <<>>
    BY <2>3, <2>5, <2>6, <2>8
  <2>9. CASE c[u - 1] # <<>>
    BY <2>3, <2>5, <2>6, <2>7, <2>9
  <2> QED
    BY <2>8, <2>9
<1> HIDE DEF rolled
<1>9. R = [u \in 0 .. n |-> IF u = 0 THEN x % KitTotal(w, c)
                          ELSE IF c[u - 1] = <<>> THEN R[u - 1]
                          ELSE R[u - 1] - w[u - 1]]
  <2>1. ASSUME NEW u \in 0 .. n
        PROVE  rolled(u) = IF u = 0 THEN x % KitTotal(w, c)
                           ELSE IF c[u - 1] = <<>> THEN R[u - 1] ELSE R[u - 1] - w[u - 1]
    <3>1. CASE u = 0
      BY <1>7, <3>1
    <3>2. CASE u # 0
      <4>1. u \in 1 .. n /\ u - 1 \in 0 .. n
        BY <1>0, <3>2
      <4>2. R[u - 1] = rolled(u - 1)
        BY <4>1
      <4> HIDE DEF R
      <4> QED
        BY <1>8, <3>2, <4>1, <4>2
    <3> QED
      BY <3>1, <3>2
  <2> QED
    BY <2>1
<1>10. roll = [u \in 0 .. n |-> IF u = 0 THEN x % KitTotal(w, c)
                              ELSE IF c[u - 1] = <<>> THEN roll[u - 1]
                              ELSE roll[u - 1] - w[u - 1]]
  <2> HIDE DEF R
  <2> QED
    BY <1>9
<1> HIDE DEF roll
<1> DEFINE S == {u \in Nat : u <= n => roll[u] = rolled(u)}
<1>11. 0 \in S
  BY <1>0, <1>7, <1>10
<1>12. ASSUME NEW u \in Nat, u \in S PROVE u + 1 \in S
  <2> SUFFICES ASSUME u + 1 <= n PROVE roll[u + 1] = rolled(u + 1)
    OBVIOUS
  <2>1. u + 1 \in 0 .. n /\ u + 1 \in 1 .. n /\ u + 1 # 0 /\ (u + 1) - 1 = u /\ u <= n
    BY <1>0
  <2>2. roll[u + 1] = IF c[u] = <<>> THEN roll[u] ELSE roll[u] - w[u]
    BY <1>10, <2>1
  <2>3. rolled(u + 1) = IF c[u] = <<>> THEN rolled(u) ELSE rolled(u) - w[u]
    BY <1>8, <2>1
  <2> QED
    BY <1>12, <2>1, <2>2, <2>3
<1>13. \A u \in Nat : u \in S
  <2> HIDE DEF S
  <2> QED
    BY <1>11, <1>12, SetInduction
<1>14. ASSUME NEW u \in Tier
       PROVE  hit(u) <=> Stocked(a, u) /\ Hits(n, w, a, x, u)
  <2>1. u \in Nat /\ u <= n
    BY <1>0
  <2>2. roll[u] = rolled(u)
    BY <1>13, <2>1
  <2> QED
    BY <1>2, <2>2 DEF Hits, rolled
<1>15. t \in DrawTier(n, w, a, x) /\ \A u \in DrawTier(n, w, a, x) : u = t
  OBVIOUS
<1>16. \A u \in Tier : u \in DrawTier(n, w, a, x)
                        <=> hit(u) /\ \A v \in 0 .. u - 1 : ~ hit(v)
  <2> TAKE u \in Tier
  <2>1. \A v \in 0 .. u - 1 : v \in Tier
    BY <1>0
  <2> HIDE DEF hit
  <2> QED
    BY <1>14, <2>1 DEF DrawTier
<1> HIDE DEF hit
<1>17. \A u \in Tier : (\A v \in 0 .. u - 1 : ~ hit(v)) <=> (\A v \in Tier : v < u => ~ hit(v))
  <2> TAKE u \in Tier
  <2>1. \A v : v \in 0 .. u - 1 <=> v \in Tier /\ v < u
    BY <1>0
  <2> QED
    BY <2>1, Zenon
<1>18. \A u \in Tier : (hit(u) /\ \A v \in Tier : v < u => ~ hit(v)) <=> u = t
  BY <1>15, <1>16, <1>17
<1> QED
  BY <1>1, <1>18

\* One turn of the TypeScript SDK's loop.
KitStep(v, output, i, before) ==
    LET tier == KitTier(v.terms.weights, before.candidates, output[i].tier)
        rank == output[i].rank % Len(before.candidates[tier])
    IN  [selected |-> Append(before.selected, before.candidates[tier][rank + 1]),
         candidates |-> WithoutAt(before.candidates, tier, rank + 1)]

\* The TypeScript SDK selects what the output selects.
LEMMA KitFollows ==
    ASSUME PledgeInv, NEW s \in PendingSeeds, NEW output \in VRFOutput,
           NEW d, Follows(s, output, d)
    PROVE  KitDraws(Ledger, s, output) = d
<1> DEFINE n == Ledger.pulls[s].count
           start == [selected |-> <<>>, candidates |-> PlanLists(Ledger, s)]
           turn(i, b) == KitStep(Ledger, output, i, b)
           held(i) == [selected |-> Taken(d, i),
                       candidates |-> ListsLeft(s, Earlier(d, i + 1))]
           G == [i \in 0 .. n |-> held(i)]
           loop == CHOOSE g : g = [i \in 0 .. n |-> IF i = 0 THEN start ELSE turn(i, g[i - 1])]
<1>0. TypeOK
  BY DEF PledgeInv, SolvencyInv
<1>1. n \in Nat /\ n = pulls[s].count /\ Ledger.terms = terms
  BY <1>0, PendingNumbers DEF Ledger
<1>2. KitDraws(Ledger, s, output) = loop[n].selected
  BY DEF KitDraws, KitStep, WithoutAt
<1>3. held(0) = start
  BY ListEnds
<1>4. ASSUME NEW i \in 1 .. n PROVE held(i) = turn(i, held(i - 1))
  <2> DEFINE T == Earlier(d, i)
             C == LeftCounts(s, T)
             t == ChosenTier(s, T, output[i])
             k == ChosenRank(s, T, output[i])
             b == held(i - 1)
  <2>1. (i - 1) + 1 = i
    BY <1>1
  <2>2. b.selected = Taken(d, i - 1) /\ b.candidates = ListsLeft(s, T)
    BY <2>1
  <2>3. /\ output[i] \in Hash /\ IsFiniteSet(T) /\ Cardinality(T) < pulls[s].count
        /\ ListsLeft(s, T)[t][k + 1] = d[i]
        /\ WithoutAt(ListsLeft(s, T), t, k + 1) = ListsLeft(s, Earlier(d, i + 1))
        /\ Append(Taken(d, i - 1), d[i]) = Taken(d, i)
    <3> HIDE DEF T, t, k, n
    <3> QED
      BY <1>1, ListTurn DEF T, t, k
  <2> HIDE DEF b, T
  <2>4. Odds(MaxTiers, terms.weights, C)
    BY LeftOdds
  <2>5. output[i].tier \in Nat
    BY <2>3, WordAssumption DEF Hash, Word
  <2>6. PICK u \in Tier : C[u] > 0 /\ DrawTier(MaxTiers, terms.weights, C, output[i].tier) = {u}
    <3>1. \E u \in 0 .. MaxTiers - 1 : C[u] > 0
      BY <2>3, SomeLeft
    <3> HIDE DEF C
    <3> QED
      BY <2>4, <2>5, <3>1, DrawLands
  <2>7. u = t
    BY <2>6 DEF ChosenTier, RollTier
  <2>8. \A y \in Tier : b.candidates[y] \in Seq(Position) /\ Len(b.candidates[y]) = C[y]
    BY <2>2, ListsFacts
  <2>9. KitTier(terms.weights, b.candidates, output[i].tier) = t
    <3> HIDE DEF C, t
    <3> QED
      BY <2>4, <2>5, <2>6, <2>7, <2>8, KitRolls
  <2>10. output[i].rank % Len(b.candidates[t]) = k
    BY <2>6, <2>7, <2>8 DEF ChosenRank, RollRank, Rank
  <2> HIDE DEF t, k
  <2>11. turn(i, b) = [selected |-> Append(b.selected, b.candidates[t][k + 1]),
                       candidates |-> WithoutAt(b.candidates, t, k + 1)]
    BY <1>1, <2>9, <2>10 DEF KitStep
  <2> QED
    BY <2>2, <2>3, <2>11 DEF b, T
<1> HIDE DEF start, turn, held
<1>5. G = [i \in 0 .. n |-> IF i = 0 THEN start ELSE turn(i, G[i - 1])]
  <2>1. ASSUME NEW i \in 0 .. n PROVE held(i) = IF i = 0 THEN start ELSE turn(i, G[i - 1])
    <3>1. CASE i = 0
      BY <1>3, <3>1
    <3>2. CASE i # 0
      <4>1. i \in 1 .. n /\ i - 1 \in 0 .. n
        BY <1>1, <3>2
      <4>2. G[i - 1] = held(i - 1)
        BY <4>1
      <4> HIDE DEF G
      <4> QED
        BY <1>4, <3>2, <4>1, <4>2
    <3> QED
      BY <3>1, <3>2
  <2> QED
    BY <2>1
<1>6. loop = [i \in 0 .. n |-> IF i = 0 THEN start ELSE turn(i, loop[i - 1])]
  <2> HIDE DEF G
  <2> QED
    BY <1>5
<1> HIDE DEF loop
<1> DEFINE S == {i \in Nat : i <= n => loop[i] = held(i)}
<1>7. 0 \in S
  BY <1>1, <1>3, <1>6
<1>8. ASSUME NEW i \in Nat, i \in S PROVE i + 1 \in S
  <2> SUFFICES ASSUME i + 1 <= n PROVE loop[i + 1] = held(i + 1)
    OBVIOUS
  <2>1. i + 1 \in 0 .. n /\ i + 1 \in 1 .. n /\ i + 1 # 0 /\ (i + 1) - 1 = i /\ i <= n
    BY <1>1
  <2>2. loop[i + 1] = turn(i + 1, loop[i])
    BY <1>6, <2>1
  <2>3. held(i + 1) = turn(i + 1, held(i))
    BY <1>4, <2>1
  <2> QED
    BY <1>8, <2>1, <2>2, <2>3
<1>9. n \in S
  <2> HIDE DEF S, n
  <2> QED
    BY <1>1, <1>7, <1>8, SetInduction
<1>10. loop[n].selected = Taken(d, n)
  BY <1>1, <1>9 DEF held
<1> QED
  BY <1>1, <1>2, <1>10, ListEnds

\* In every reachable state, the program's draw over its index, the Rust SDK's and
\* the TypeScript SDK's over lists of candidates select the same prizes for the
\* head of the queue, whatever the VRF output; every one of them has an Item.
THEOREM PlansDrawAlike == Spec => []PlannedDrawsExact
<1>1. PledgeInv => PlannedDrawsExact
  <2> SUFFICES ASSUME PledgeInv, NEW s \in Seeds, pending(Ledger, s)
               PROVE  /\ PoolDecodes(Ledger)
                      /\ \A output \in VRFOutput :
                           /\ PlanDraws(Ledger, s, output) = ChainDraws(s, output)
                           /\ KitDraws(Ledger, s, output) = ChainDraws(s, output)
                           /\ \A i \in DOMAIN ChainDraws(s, output) :
                                items[ChainDraws(s, output)[i]] # NoItem
    BY DEF PlannedDrawsExact
  <2>1. TypeOK /\ StockAgrees /\ QueueInv
    BY DEF PledgeInv, SolvencyInv, ReserveInv, StockInv, CountInv
  <2>2. s \in PendingSeeds
    BY DEF pending, Waiting, Ledger, PendingSeeds, IsPending
  <2>3. PoolDecodes(Ledger)
    <3>1. status # "absent"
      BY <2>1, <2>2 DEF QueueInv, AbsentSoldNothing, PendingSeeds, IsPending
    <3> QED
      BY <3>1, PoolDecodable
  <2>4. ASSUME NEW output \in VRFOutput
        PROVE  /\ PlanDraws(Ledger, s, output) = ChainDraws(s, output)
               /\ KitDraws(Ledger, s, output) = ChainDraws(s, output)
               /\ \A i \in DOMAIN ChainDraws(s, output) :
                    items[ChainDraws(s, output)[i]] # NoItem
    <3> DEFINE d == ChainDraws(s, output)
    <3>1. Follows(s, output, d)
      BY <2>2, ChainFollows
    <3> HIDE DEF d
    <3>2. PlanDraws(Ledger, s, output) = d /\ KitDraws(Ledger, s, output) = d
      BY <2>2, <3>1, PlanFollows, KitFollows
    <3>3. \A i \in DOMAIN d : d[i] \in Prefix(s)
      BY <3>1 DEF Follows
    <3>4. \A p \in Prefix(s) : items[p] # NoItem
      BY <2>1 DEF Prefix, Available, StockAgrees
    <3> QED
      BY <3>2, <3>3, <3>4 DEF d
  <2> QED
    BY <2>3, <2>4
<1> QED
  BY <1>1, PledgeInductive, PTL DEF Spec


-----------------------------------------------------------------------------
(* The plans.                                                              *)

\* The fields of the present ledger, and its two decoding checks.
LEMMA PresentFields ==
    ASSUME PledgeInv
    PROVE  /\ Ledger.status = status /\ Ledger.terms = terms /\ Ledger.items = items
           /\ Ledger.inventory_version = inventory_version /\ Ledger.pulls = pulls
           /\ Ledger.pending_draws = pending_draws /\ Ledger.owner = owner
           /\ Ledger.next_settle = next_settle /\ Ledger.tags = tags
           /\ HeaderDecodes(Ledger) <=> status # "absent"
<1>1. /\ Ledger.status = status /\ Ledger.terms = terms /\ Ledger.items = items
      /\ Ledger.inventory_version = inventory_version /\ Ledger.pulls = pulls
      /\ Ledger.pending_draws = pending_draws /\ Ledger.owner = owner
      /\ Ledger.next_settle = next_settle /\ Ledger.tags = tags
  BY DEF Ledger
<1> QED
  BY <1>1 DEF HeaderDecodes, PledgeInv, TermsValid

\* CreatePool::instructions adds a check that the others imply.
LEMMA CreateMatches ==
    ASSUME NEW t \in Terms, status = "absent"
    PROVE  PlansCreate(t) <=> CanCreatePool(t)
<1>1. /\ t.price \in Nat /\ t.bond_per_draw \in Nat /\ MaxU64 \in Nat /\ MaxCount \in Nat
      /\ MaxCount >= 1
  BY InputAssumption, BoundAssumption DEF Term
<1>2. PICK c \in Nat : c = t.price + t.bond_per_draw
  BY <1>1
<1>3. c * 1 <= c * MaxCount
  BY <1>1, <1>2, ProductMonotone
<1>4. Fits(c * MaxCount) => Fits(c)
  BY <1>1, <1>2, <1>3 DEF Fits
<1>5. {t.weights[i] : i \in {j \in Tier : j < t.tier_count}} \cap {0} = {}
        <=> \A i \in Tier : i < t.tier_count => t.weights[i] # 0
  OBVIOUS
<1>6. {t.price, t.deadline_slots, t.bond_per_draw} \cap {0} = {}
        <=> t.price # 0 /\ t.bond_per_draw # 0 /\ t.deadline_slots # 0
  OBVIOUS
<1> QED
  BY <1>2, <1>4, <1>5, <1>6 DEF PlansCreate, CanCreatePool, ValidTerms

\* The next Item address is always free, so that both sides check the same of a
\* restock: the tier.
LEMMA RestockMatches ==
    ASSUME PledgeInv, status # "absent", inventory_version < MaxPositions, NEW t \in Nat
    PROVE  CanRestock(t) <=> t < terms.tier_count
<1>1. TypeOK /\ StockAgrees /\ ValidTerms(terms)
  BY DEF PledgeInv, ReserveInv, StockInv, TermsValid
<1>2. inventory_version \in Position
  BY <1>1, BoundAssumption DEF TypeOK
<1>3. items[inventory_version] = NoItem
  BY <1>1, <1>2, BoundAssumption DEF StockAgrees
<1>4. t \in Tiers <=> t < terms.tier_count
  BY <1>1, BoundAssumption DEF Tiers, ValidTerms
<1> QED
  BY <1>3, <1>4 DEF CanRestock, NextPosition

\* Of what Reclaim checks, the SDK leaves out what the agreement of the three
\* copies of the stock implies.
LEMMA ReclaimMatches ==
    ASSUME PledgeInv, NEW p \in Position
    PROVE  PlansReclaim(Ledger, p) <=> CanReclaim(p)
<1>1. TypeOK /\ StockAgrees
  BY DEF PledgeInv, ReserveInv, StockInv
<1>2. ASSUME items[p] # NoItem
      PROVE  /\ items[p].tier \in Tiers /\ items[p].tier < terms.tier_count
             /\ TagMatches(p) /\ remaining[items[p].tier] # 0
  <2>1. tags[p] = items[p].tier + 1 /\ items[p].tier \in Tiers /\ tags[p] # 0
    BY <1>1, <1>2 DEF StockAgrees
  <2>2. PICK t \in Tier : t = items[p].tier
    BY <2>1 DEF Tiers
  <2>3. p \in Tagged(t)
    BY <2>1, <2>2 DEF Tagged
  <2>4. Cardinality(Tagged(t)) # 0
    BY <2>3, TaggedFinite, FS_EmptySet
  <2>5. remaining[t] # 0
    BY <1>1, <2>4 DEF StockAgrees, Tagged
  <2> QED
    BY <2>1, <2>2, <2>5 DEF TagMatches, Tiers
<1> QED
  BY <1>2, PresentFields DEF PlansReclaim, CanReclaim

\* A pull of the queue pins a version the pool has reached, and its refund is
\* covered.
LEMMA RefundMatches ==
    ASSUME PledgeInv, NEW s \in Seeds
    PROVE  pending(Ledger, s) /\ AfterDeadline(s) <=> CanRefund(s)
<1>1. FIFOQueue /\ TypeOK
  BY DEF PledgeInv, ReserveInv, CountInv, QueueInv
<1>2. pending(Ledger, s) <=> IsHead(s)
  <2>1. IsHead(s) => pulls[s].inventory_version <= inventory_version
    BY <1>1 DEF FIFOQueue, IsHead, PendingSeeds
  <2> QED
    BY <2>1, PresentFields DEF pending, Waiting, NextInQueue, IsHead, IsPending
<1>3. IsHead(s) => (CanSettle(s) <=> ~ CanRefund(s))
  BY HeadPasses DEF HeadResolvable
<1>4. IsHead(s) /\ AfterDeadline(s) => ~ CanSettle(s)
  <2> SUFFICES ASSUME IsHead(s), AfterDeadline(s) PROVE ~ CanSettle(s)
    OBVIOUS
  <2>1. slot \in Nat /\ pulls[s].deadline_slot \in Nat
    BY <1>1, PendingNumbers, BoundAssumption DEF IsHead, PendingSeeds, TypeOK
  <2> QED
    BY <2>1 DEF AfterDeadline, CanSettle
<1> QED
  BY <1>2, <1>3, <1>4 DEF CanRefund

\* What the SDK lists as owed is what Deliver hands over.
LEMMA DeliverMatches ==
    ASSUME LedgerInv, PledgeInv, NEW s \in Seeds, IsSettled(s), NEW i \in 1 .. MaxCount
    PROVE  i \in ToSet(Undelivered(Ledger, s)) <=> CanDeliver(s, i)
<1> DEFINE S == {j \in 1 .. pulls[s].count : pulls[s].outcomes[j].tier # DELIVERED}
<1>1. TypeOK /\ Custody /\ SettledComplete
  BY DEF LedgerInv, CustodyInv, StockInv
<1>2. pulls[s] \in Pull
  BY <1>1 DEF TypeOK, IsSettled
<1>3. PICK n \in Nat : n = pulls[s].count
  BY <1>2, BoundAssumption DEF Pull
<1>4. Undelivered(Ledger, s) = Ascending(S)
  BY PresentFields DEF Undelivered
<1>5. PICK e : e = Ascending(S)
  OBVIOUS
<1>6. IsFiniteSet(S) /\ S \subseteq Nat
  <2>1. IsFiniteSet(1 .. n)
    BY FS_Interval
  <2>2. S \subseteq 1 .. n /\ S \subseteq Nat
    BY <1>3
  <2> HIDE DEF S
  <2> QED
    BY <2>1, <2>2, FS_Subset
<1>7. DOMAIN e = 1 .. Len(e) /\ S = {e[j] : j \in 1 .. Len(e)}
  <2>1. S \in SUBSET (0 .. (n + 1) - 1) /\ n + 1 \in Nat
    BY <1>3
  <2> HIDE DEF S
  <2>2. PICK m \in Nat : m = Cardinality(S)
    BY <1>6, FS_CardinalityType
  <2>3. PICK k \in Nat : k = n + 1
    OBVIOUS
  <2>4. S \in SUBSET (0 .. k - 1)
    BY <2>1, <2>3
  <2>5. /\ Len(Ascending(S)) = Cardinality(S)
        /\ Ascending(S) \in [1 .. Cardinality(S) -> S]
        /\ S = {Ascending(S)[j] : j \in 1 .. Cardinality(S)}
    BY <2>4, AscendingLists
  <2> QED
    BY <1>5, <2>2, <2>5
<1>8. ToSet(e) = S
  <2> HIDE DEF S
  <2> QED
    BY <1>7 DEF ToSet
<1>9. i \in S => owner[pulls[s].outcomes[i].asset] = Pool
  <2> SUFFICES ASSUME i \in S PROVE owner[pulls[s].outcomes[i].asset] = Pool
    OBVIOUS
  <2>1. <<s, i>> \in Awards
    BY <1>1, IsAward
  <2> QED
    BY <1>1, <2>1 DEF Custody
<1>10. i \in S <=> i <= pulls[s].count /\ pulls[s].outcomes[i].tier # DELIVERED
  BY <1>3, BoundAssumption
<1> HIDE DEF S
<1> QED
  BY <1>4, <1>5, <1>8, <1>9, <1>10 DEF CanDeliver

\* In every reachable state of every instance the SDK plans, from the present
\* ledger, exactly what passes the checks of the program.
THEOREM PlansExecute == Spec => []PlansMatchProgram
<1>1. PledgeInv /\ LedgerInv => PlansMatchProgram
  <2> SUFFICES ASSUME PledgeInv, LedgerInv PROVE PlansMatchProgram
    OBVIOUS
  <2>1. TypeOK
    BY DEF PledgeInv, SolvencyInv
  <2>2. \A t \in Terms : status = "absent" => (PlansCreate(t) <=> CanCreatePool(t))
    BY CreateMatches
  <2>3. \A x \in {"paused", "active", "retired"} :
          PlansStatus(Ledger, x) <=> CanSetStatus(x)
    BY PresentFields DEF PlansStatus, CanSetStatus, MayBecome
  <2>4. ASSUME inventory_version < MaxPositions, NEW a \in Assets, NEW t \in 0 .. MaxTiers
        PROVE  PlansDeposit(Ledger, a, t) <=> CanDepositItem(a, t)
    <3>1. t \in Nat
      BY BoundAssumption
    <3>2. status # "absent" => (CanRestock(t) <=> t < terms.tier_count)
      BY <2>4, <3>1, RestockMatches
    <3> QED
      BY <2>1, <3>2, PresentFields DEF PlansDeposit, CanDepositItem, TypeOK
  <2>5. ASSUME inventory_version < MaxPositions, NEW q \in Quotes,
               Spendable(q.price), UnixTime[slot] < q.expires_at
        PROVE  PlansBuyback(Ledger, q) <=> /\ \E w \in Wallets : CanBuyback(q, w)
                                           /\ q.price # 0 /\ q.expires_at > 0
    <3>1. q.tier \in Nat /\ q.asset \in Assets
      BY InputAssumption DEF Quote
    <3>2. status # "absent" => (CanRestock(q.tier) <=> q.tier < terms.tier_count)
      BY <2>5, <3>1, RestockMatches
    <3>3. owner[q.asset] # Pool <=> \E w \in Wallets : owner[q.asset] = w
      BY <2>1, <3>1, AccountAssumption DEF TypeOK
    <3> QED
      BY <2>5, <3>2, <3>3, PresentFields DEF PlansBuyback, CanBuyback
  <2>6. \A p \in Position : PlansReclaim(Ledger, p) <=> CanReclaim(p)
    BY ReclaimMatches
  <2> QED
    BY <2>2, <2>3, <2>4, <2>5, <2>6, RefundMatches, DeliverMatches DEF PlansMatchProgram
<1> QED
  BY <1>1, PledgeInductive, LedgerInductive, PTL DEF Spec
=============================================================================
