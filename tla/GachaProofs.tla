----------------------------- MODULE GachaProofs -----------------------------
(***************************************************************************)
(* Theorems about Gacha, for every value of its constants.  First types,   *)
(* the terms and the vault of a pool, the order of the purchase queue and  *)
(* the counter of pending draws; then the prizes: header, index and Item   *)
(* accounts agree, every pending purchase keeps a prize of its prefix for  *)
(* each of its draws, every claim is in custody and names an asset of its  *)
(* own, and claims end only by delivery to the buyer or by reclaiming.     *)
(***************************************************************************)
EXTENDS Gacha, FiniteSetTheorems, SequenceTheorems, TLAPS

USE DEF Tier, Position

-----------------------------------------------------------------------------
(* Type correctness.                                                       *)

\* A settlement draws finitely many prizes of each tier.
LEMMA DrawnOfFinite ==
    ASSUME TypeOK, NEW s \in Seeds, IsPending(s), NEW d \in Draws(s), NEW t
    PROVE  Cardinality(DrawnOf(s, d, t)) \in Nat
<1>1. IsFiniteSet(Position)
  BY FS_Interval, BoundAssumption
<1>2. DrawnOf(s, d, t) \in SUBSET Position
  BY DEF DrawnOf, Drawn, Draws, Candidates, Available
<1>3. IsFiniteSet(DrawnOf(s, d, t))
  BY <1>1, <1>2, FS_Subset
<1> QED
  BY <1>3, FS_CardinalityType

\* The accounts of an empty ledger are well typed.
LEMMA TypeInit == Init => TypeOK
<1> SUFFICES ASSUME Init PROVE TypeOK
  OBVIOUS
<1> QED
  BY BoundAssumption, AccountAssumption DEF Init, TypeOK, Term

\* Appending a prize keeps the stock well typed.
LEMMA TypeRestock ==
    ASSUME TypeOK, NEW a \in Assets, NEW t, CanRestock(t), Restock(a, t)
    PROVE  /\ inventory_version' \in 0 .. MaxPositions
           /\ remaining' \in [Tier -> Nat]
           /\ tags' \in [Position -> 0 .. MaxTiers]
           /\ items' \in [Position -> Item \cup {NoItem}]
<1>1. t \in Tier /\ t \in Nat /\ t < MaxTiers
  BY BoundAssumption DEF CanRestock, Tiers
<1>2. inventory_version \in Nat /\ inventory_version < MaxPositions
  BY BoundAssumption DEF TypeOK, CanRestock
<1>3. [tier |-> t, asset |-> a] \in Item
  BY <1>1 DEF Item
<1>4. inventory_version' \in 0 .. MaxPositions
  BY <1>2, BoundAssumption DEF Restock
<1>5. remaining' \in [Tier -> Nat]
  BY <1>1 DEF TypeOK, Restock
<1>6. tags' \in [Position -> 0 .. MaxTiers]
  BY <1>1, <1>2, BoundAssumption DEF TypeOK, Restock, NextPosition
<1>7. items' \in [Position -> Item \cup {NoItem}]
  BY <1>3 DEF TypeOK, Restock, NextPosition
<1> QED
  BY <1>4, <1>5, <1>6, <1>7

\* Recording the awards keeps the stock and the pull well typed.
LEMMA TypeAward ==
    ASSUME TypeOK, NEW s \in Seeds, IsPending(s),
           NEW d \in Draws(s), Award(s, d)
    PROVE  /\ remaining' \in [Tier -> Nat]
           /\ tags' \in [Position -> 0 .. MaxTiers]
           /\ items' \in [Position -> Item \cup {NoItem}]
           /\ pulls' \in [Seeds -> Pull \cup {NoPull}]
<1>1. \A t \in Tier : Cardinality(DrawnOf(s, d, t)) \in Nat
  BY DrawnOfFinite
<1>2. remaining' \in [Tier -> Nat]
  <2> SUFFICES ASSUME NEW t \in Tier
               PROVE  remaining[t] - Cardinality(DrawnOf(s, d, t)) \in Nat
    BY DEF Award, CanAward, Won
  <2>1. remaining[t] \in Nat
    BY DEF TypeOK
  <2>2. Cardinality(DrawnOf(s, d, t)) <= remaining[t]
    BY DEF Award, CanAward, Won
  <2> QED
    BY <1>1, <2>1, <2>2
<1>3. tags' \in [Position -> 0 .. MaxTiers]
  BY BoundAssumption DEF Award, CanAward, Won, TypeOK
<1>4. items' \in [Position -> Item \cup {NoItem}]
  BY DEF Award, CanAward, Won, TypeOK, ItemsAfter
<1>5. pulls[s] \in Pull
  BY DEF TypeOK, IsPending
<1> DEFINE outcome(i) == [tier |-> tags[d[i]] - 1, asset |-> items[d[i]].asset]
<1>6. ASSUME NEW i \in 1 .. pulls[s].count
      PROVE  outcome(i) \in Outcome
  <2>1. d[i] \in Position /\ d[i] \in Drawn(s, d)
    BY DEF Draws, Candidates, Available, Drawn
  <2>2. tags[d[i]] - 1 \in Tier
    BY DEF Draws, Candidates, Tiers
  <2>3. items[d[i]] \in Item
    BY <2>1 DEF Award, CanAward, Won, TypeOK
  <2> QED
    BY <2>2, <2>3 DEF Outcome, Item
<1>7. [i \in 1 .. pulls[s].count |-> outcome(i)] \in Seq(Outcome)
  <2>1. pulls[s].count \in Nat
    BY <1>5 DEF Pull
  <2> QED
    BY <1>6, <2>1
<1>8. [pulls[s] EXCEPT !.status = "settled",
                       !.outcomes = [i \in 1 .. pulls[s].count |-> outcome(i)]]
        \in Pull
  BY <1>5, <1>7 DEF Pull
<1>9. pulls' \in [Seeds -> Pull \cup {NoPull}]
  BY <1>8 DEF TypeOK, Award, CanAward, Won
<1> QED
  BY <1>2, <1>3, <1>4, <1>9

\* Marking an outcome, or closing the Pull with the last, keeps pulls well typed.
LEMMA TypeDeliver ==
    ASSUME TypeOK, NEW s \in Seeds, NEW i \in 1 .. MaxCount, Deliver(s, i)
    PROVE  /\ pulls' \in [Seeds -> Pull \cup {NoPull}]
           /\ owner' \in [Assets -> Wallets \cup {Pool}]
<1>1. pulls[s] \in Pull
  BY DEF TypeOK, Deliver, CanDeliver, IsSettled
<1> DEFINE marked == [pulls[s] EXCEPT !.outcomes[i].tier = DELIVERED]
<1>2. pulls[s].outcomes \in Seq(Outcome)
  BY <1>1 DEF Pull
<1>3. [pulls[s].outcomes EXCEPT ![i].tier = DELIVERED] \in Seq(Outcome)
  <2>1. PICK n \in Nat : pulls[s].outcomes \in [1 .. n -> Outcome]
    BY <1>2, SeqDef
  <2>2. ASSUME NEW o \in Outcome PROVE [o EXCEPT !.tier = DELIVERED] \in Outcome
    BY DEF Outcome
  <2>3. [pulls[s].outcomes EXCEPT ![i].tier = DELIVERED] \in [1 .. n -> Outcome]
    BY <2>1, <2>2
  <2> QED
    BY <2>3, SeqDef
<1>4. marked \in Pull
  BY <1>1, <1>3 DEF Pull
<1>5. pulls' = [pulls EXCEPT ![s] = IF AllDelivered(marked) THEN NoPull ELSE marked]
  BY DEF Deliver, CanDeliver
<1>6. pulls' \in [Seeds -> Pull \cup {NoPull}]
  BY <1>4, <1>5 DEF TypeOK
<1>7. pulls[s].buyer \in Wallets
  BY <1>1 DEF Pull
<1>8. owner' \in [Assets -> Wallets \cup {Pool}]
  BY <1>7 DEF TypeOK, Deliver, CanDeliver, Move, Recipient
<1> QED
  BY <1>6, <1>8

\* Every instruction and every external step keeps the ledger well typed.
LEMMA TypeNext == TypeOK /\ [Next]_vars => TypeOK'
<1> SUFFICES ASSUME TypeOK, [Next]_vars PROVE TypeOK'
  OBVIOUS
<1> USE DEF TypeOK
<1>1. ASSUME NEW t \in Terms, CreatePool(t) PROVE TypeOK'
  BY <1>1, InputAssumption DEF CreatePool, CanCreatePool, queue, stock
<1>2. ASSUME NEW x \in {"paused", "active", "retired"}, SetStatus(x) PROVE TypeOK'
  BY <1>2 DEF SetStatus, CanSetStatus, queue, stock
<1>3. ASSUME NEW a \in Assets, NEW t \in 0 .. MaxTiers, DepositItem(a, t)
      PROVE  TypeOK'
  <2>1. CanRestock(t) /\ Restock(a, t)
    BY <1>3 DEF DepositItem, CanDepositItem
  <2>2. owner' \in [Assets -> Wallets \cup {Pool}]
    BY <1>3 DEF DepositItem, CanDepositItem, Move
  <2> QED
    BY <1>3, <2>1, <2>2, TypeRestock DEF DepositItem, CanDepositItem, queue
<1>4. ASSUME NEW n \in Amounts, Withdraw(n) PROVE TypeOK'
  <2>1. vault' \in 0 .. Supply
    BY <1>4, InputAssumption, BoundAssumption DEF Withdraw, CanWithdraw, Spendable, Fits
  <2> QED
    BY <1>4, <2>1 DEF Withdraw, CanWithdraw, queue, stock
<1>5. ASSUME NEW p \in Position, Reclaim(p) PROVE TypeOK'
  <2>1. items[p] \in Item
    BY <1>5 DEF Reclaim, CanReclaim
  <2>2. remaining' \in [Tier -> Nat]
    BY <1>5, <2>1 DEF Reclaim, CanReclaim, Item
  <2>3. tags' \in [Position -> 0 .. MaxTiers]
    BY <1>5, BoundAssumption DEF Reclaim, CanReclaim
  <2>4. items' \in [Position -> Item \cup {NoItem}]
    BY <1>5 DEF Reclaim, CanReclaim
  <2>5. owner' \in [Assets -> Wallets \cup {Pool}]
    BY <1>5, AccountAssumption DEF Reclaim, CanReclaim, Move
  <2> QED
    BY <1>5, <2>2, <2>3, <2>4, <2>5 DEF Reclaim, CanReclaim, queue
<1>6. ASSUME NEW s \in Seeds, NEW b \in Wallets, NEW n \in 1 .. MaxCount,
             NEW v \in 0 .. inventory_version, Buy(s, b, n, v)
      PROVE  TypeOK'
  <2>1. vault' \in 0 .. Supply
    BY <1>6, BoundAssumption, SMTT(20) DEF Buy, CanBuy, Collateralized, Fits
  <2>2. pending_draws' \in Nat /\ next_index' \in 0 .. MaxPurchases
    BY <1>6, BoundAssumption DEF Buy, CanBuy
  <2> DEFINE bought == [status |-> "pending", count |-> n,
                        inventory_version |-> inventory_version,
                        index |-> next_index,
                        deadline_slot |-> slot + terms.deadline_slots,
                        buyer |-> b, outcomes |-> <<>>]
  <2>3. bought \in Pull
    <3>1. <<>> \in Seq(Outcome)
      BY EmptySeq
    <3>2. slot + terms.deadline_slots \in Nat
      BY BoundAssumption DEF Term
    <3> QED
      BY <3>1, <3>2 DEF Pull
  <2>4. pulls' \in [Seeds -> Pull \cup {NoPull}]
    BY <1>6, <2>3 DEF Buy, CanBuy
  <2> QED
    BY <1>6, <2>1, <2>2, <2>4 DEF Buy, CanBuy, stock
<1>7. ASSUME NEW s \in Seeds, Refund(s) PROVE TypeOK'
  <2>1. pulls[s] \in Pull
    BY <1>7 DEF Refund, CanRefund, IsHead, IsPending
  <2>2. vault' \in 0 .. Supply
    BY <1>7, BoundAssumption DEF Refund, CanRefund, Fits
  <2>3. pending_draws' \in Nat /\ next_settle' \in Nat
    <3>1. pulls[s].count \in Nat /\ pulls[s].index \in Nat
      BY <2>1 DEF Pull
    <3>2. /\ pending_draws >= pulls[s].count
          /\ pending_draws' = pending_draws - pulls[s].count
          /\ next_settle' = pulls[s].index + 1
      BY <1>7 DEF Refund, CanRefund, Release, CanRelease
    <3>3. pending_draws \in Nat
      OBVIOUS
    <3> HIDE DEF TypeOK
    <3> QED
      BY <3>1, <3>2, <3>3
  <2>4. pulls' \in [Seeds -> Pull \cup {NoPull}]
    BY <1>7 DEF Refund, CanRefund
  <2> QED
    BY <1>7, <2>2, <2>3, <2>4 DEF Refund, CanRefund, stock
<1>8. ASSUME NEW q \in Quotes, NEW w \in Wallets, Buyback(q, w) PROVE TypeOK'
  <2>1. q.asset \in Assets /\ q.price \in Nat
    BY InputAssumption DEF Quote
  <2>2. CanRestock(q.tier) /\ Restock(q.asset, q.tier)
    BY <1>8 DEF Buyback, CanBuyback
  <2>3. vault' \in 0 .. Supply
    BY <1>8, <2>1, BoundAssumption DEF Buyback, CanBuyback, Spendable, Fits
  <2>4. owner' \in [Assets -> Wallets \cup {Pool}]
    BY <1>8, <2>1 DEF Buyback, CanBuyback, Move
  <2> QED
    BY <1>8, <2>1, <2>2, <2>3, <2>4, TypeRestock DEF Buyback, CanBuyback, queue
<1>9. ASSUME NEW s \in Seeds, Settle(s) PROVE TypeOK'
  <2>1. PICK d \in Draws(s) : Award(s, d)
    BY <1>9 DEF Settle, CanSettle
  <2>2. IsPending(s)
    BY <1>9 DEF Settle, CanSettle, IsHead
  <2>3. pulls[s] \in Pull
    BY <2>2 DEF IsPending
  <2>4. pending_draws' \in Nat /\ next_settle' \in Nat
    <3>1. pulls[s].count \in Nat /\ pulls[s].index \in Nat
      BY <2>3 DEF Pull
    <3>2. /\ pending_draws >= pulls[s].count
          /\ pending_draws' = pending_draws - pulls[s].count
          /\ next_settle' = pulls[s].index + 1
      BY <1>9 DEF Settle, CanSettle, Release, CanRelease
    <3>3. pending_draws \in Nat
      OBVIOUS
    <3> HIDE DEF TypeOK
    <3> QED
      BY <3>1, <3>2, <3>3
  <2>5. /\ remaining' \in [Tier -> Nat]
        /\ tags' \in [Position -> 0 .. MaxTiers]
        /\ items' \in [Position -> Item \cup {NoItem}]
        /\ pulls' \in [Seeds -> Pull \cup {NoPull}]
    BY <2>1, <2>2, TypeAward
  <2> QED
    BY <1>9, <2>4, <2>5 DEF Settle, CanSettle
<1>10. ASSUME NEW s \in Seeds, NEW i \in 1 .. MaxCount, Deliver(s, i) PROVE TypeOK'
  BY <1>10, TypeDeliver DEF Deliver, CanDeliver, queue, stock
<1>11. ASSUME NEW n \in Amounts, Fund(n) PROVE TypeOK'
  <2>1. n \in Nat /\ vault \in Nat /\ Supply \in Nat
    BY InputAssumption, BoundAssumption
  <2>2. vault + n <= Supply /\ vault' = vault + n
    BY <1>11 DEF Fund
  <2>3. vault' \in 0 .. Supply
    <3> HIDE DEF TypeOK
    <3> QED
      BY <2>1, <2>2
  <2> QED
    BY <1>11, <2>3 DEF Fund, queue, stock
<1>12. ASSUME NEW a \in Assets, NEW w \in Wallets, NEW o \in Wallets \cup {Pool},
              TransferAsset(a, w, o)
       PROVE  TypeOK'
  BY <1>12 DEF TransferAsset, Move, queue, stock
<1>13. ASSUME Tick PROVE TypeOK'
  <2>1. slot' \in 0 .. MaxSlot
    BY <1>13, BoundAssumption DEF Tick
  <2> QED
    BY <1>13, <2>1 DEF Tick, queue, stock
<1>14. ASSUME UNCHANGED vars PROVE TypeOK'
  BY <1>14 DEF vars, queue, stock
<1> QED
  BY <1>1, <1>2, <1>3, <1>4, <1>5, <1>6, <1>7, <1>8, <1>9, <1>10, <1>11, <1>12,
     <1>13, <1>14 DEF Next

\* TypeOK holds in every reachable state.
THEOREM TypeCorrect == Spec => []TypeOK
BY TypeInit, TypeNext, PTL DEF Spec

-----------------------------------------------------------------------------
(* Solvency.                                                               *)

\* The collateral grows with the number of draws it covers.
LEMMA ProductMonotone == \A k, m, n \in Nat : m <= n => k * m <= k * n
<1> SUFFICES ASSUME NEW k \in Nat, NEW m \in Nat, NEW n \in Nat, m <= n
             PROVE  k * m <= k * n
  OBVIOUS
<1>1. n - m \in Nat /\ k * (n - m) >= 0
  OBVIOUS
<1>2. k * (n - m) = k * n - k * m
  OBVIOUS
<1> QED
  BY <1>1, <1>2

\* Releasing n of m draws releases exactly their share of the collateral.
LEMMA ProductMinus == \A k, m, n \in Nat : k * (m - n) = k * m - k * n
OBVIOUS

\* Nothing is owed before CreatePool fixes the price and the penalty.
AbsentOwesNothing == status = "absent" => pending_draws = 0

\* The inductive invariant behind AlwaysSolvent.
SolvencyInv == TypeOK /\ AbsentOwesNothing /\ Solvency

\* The empty ledger owes nothing.
LEMMA SolvencyInit == Init => AbsentOwesNothing /\ Solvency
BY BoundAssumption DEF Init, AbsentOwesNothing, Solvency

\* A payment out of the surplus leaves every pending refund covered.
LEMMA SpendableSolvent ==
    ASSUME TypeOK, NEW n \in Nat, Spendable(n), vault' = vault - n,
           UNCHANGED <<terms, pending_draws>>
    PROVE  Solvency'
<1>1. RefundAmount(pending_draws) \in Int /\ vault \in Int
  BY BoundAssumption DEF Spendable, Fits, TypeOK
<1>2. RefundAmount(pending_draws) <= vault'
  BY <1>1 DEF Spendable
<1> QED
  BY <1>2 DEF Solvency, RefundAmount

\* Every step keeps the vault solvent.
LEMMA SolvencyNext == SolvencyInv /\ [Next]_vars => AbsentOwesNothing' /\ Solvency'
<1> SUFFICES ASSUME TypeOK, AbsentOwesNothing, Solvency, [Next]_vars
             PROVE  AbsentOwesNothing' /\ Solvency'
  BY DEF SolvencyInv
<1> DEFINE Goal == AbsentOwesNothing' /\ Solvency'
           cost == terms.price + terms.bond_per_draw
<1> USE DEF AbsentOwesNothing
<1>a. cost \in Nat /\ pending_draws \in Nat /\ vault \in Nat
  BY BoundAssumption DEF TypeOK, Term
<1>b. cost * pending_draws <= vault
  BY DEF Solvency
<1>c. ASSUME UNCHANGED <<status, terms, pending_draws, vault>> PROVE Goal
  BY <1>c DEF Solvency
<1>1. ASSUME NEW t \in Terms, CreatePool(t) PROVE Goal
  <2>1. pending_draws' = 0 /\ vault' = vault
    BY <1>1 DEF CreatePool, CanCreatePool, queue
  <2>2. terms'.price + terms'.bond_per_draw \in Nat
    BY <1>1, InputAssumption DEF CreatePool, CanCreatePool, Term
  <2>3. (terms'.price + terms'.bond_per_draw) * 0 = 0
    BY <2>2
  <2> QED
    BY <2>1, <2>3, <1>a DEF Solvency
<1>2. ASSUME NEW x \in {"paused", "active", "retired"}, SetStatus(x) PROVE Goal
  BY <1>2 DEF SetStatus, CanSetStatus, queue, Solvency
<1>3. ASSUME NEW a \in Assets, NEW t \in 0 .. MaxTiers, DepositItem(a, t) PROVE Goal
  BY <1>3, <1>c DEF DepositItem, CanDepositItem, queue
<1>4. ASSUME NEW n \in Amounts, Withdraw(n) PROVE Goal
  <2>1. Spendable(n) /\ vault' = vault - n /\ UNCHANGED <<status, terms, pending_draws>>
    BY <1>4 DEF Withdraw, CanWithdraw, queue
  <2>2. n \in Nat
    BY InputAssumption
  <2> QED
    BY <2>1, <2>2, SpendableSolvent
<1>5. ASSUME NEW p \in Position, Reclaim(p) PROVE Goal
  BY <1>5, <1>c DEF Reclaim, CanReclaim, queue
<1>6. ASSUME NEW s \in Seeds, NEW b \in Wallets, NEW n \in 1 .. MaxCount,
             NEW v \in 0 .. inventory_version, Buy(s, b, n, v)
      PROVE  Goal
  <2>1. /\ pending_draws' = pending_draws + n
        /\ vault' = vault + Payment(n)
        /\ terms' = terms /\ status' = "active"
        /\ vault + Payment(n) >= RefundAmount(pending_draws + n)
        /\ Fits(RefundAmount(pending_draws + n)) /\ Fits(vault + Payment(n))
    BY <1>6 DEF Buy, CanBuy, Collateralized
  <2>2. RefundAmount(pending_draws + n) \in Int /\ vault + Payment(n) \in Int
    BY <2>1, BoundAssumption DEF Fits
  <2>3. (terms'.price + terms'.bond_per_draw) * pending_draws' <= vault'
    BY <2>1, <2>2 DEF RefundAmount
  <2> QED
    BY <2>1, <2>3 DEF Solvency
<1>7. ASSUME NEW s \in Seeds, Refund(s) PROVE Goal
  <2> DEFINE n == pulls[s].count
  <2>1. n \in Nat
    BY <1>7 DEF Refund, CanRefund, IsHead, IsPending, TypeOK, Pull
  <2>2. /\ pending_draws' = pending_draws - n /\ n <= pending_draws
        /\ vault' = vault - cost * n
        /\ terms' = terms /\ status' = status
    BY <1>7, <1>a, <2>1 DEF Refund, CanRefund, Release, CanRelease, RefundAmount
  <2>3. cost * pending_draws' = cost * pending_draws - cost * n
    BY <1>a, <2>1, <2>2, ProductMinus
  <2>4. cost * n \in Int /\ cost * pending_draws \in Int
    BY <1>a, <2>1
  <2>5. cost * pending_draws' <= vault'
    BY <1>a, <1>b, <2>2, <2>3, <2>4
  <2>6. pending_draws = 0 => pending_draws' = 0
    BY <1>a, <2>1, <2>2
  <2> QED
    BY <2>2, <2>5, <2>6 DEF Solvency
<1>8. ASSUME NEW q \in Quotes, NEW w \in Wallets, Buyback(q, w) PROVE Goal
  <2>1. /\ Spendable(q.price) /\ vault' = vault - q.price
        /\ UNCHANGED <<status, terms, pending_draws>>
    BY <1>8 DEF Buyback, CanBuyback, queue
  <2>2. q.price \in Nat
    BY InputAssumption DEF Quote
  <2> QED
    BY <2>1, <2>2, SpendableSolvent
<1>9. ASSUME NEW s \in Seeds, Settle(s) PROVE Goal
  <2> DEFINE n == pulls[s].count
  <2>1. n \in Nat
    BY <1>9 DEF Settle, CanSettle, IsHead, IsPending, TypeOK, Pull
  <2>2. /\ pending_draws' = pending_draws - n /\ n <= pending_draws
        /\ UNCHANGED <<vault, terms, status>>
    BY <1>9, <1>a, <2>1 DEF Settle, CanSettle, Release, CanRelease
  <2>3. pending_draws' \in Nat /\ pending_draws' <= pending_draws
    BY <1>a, <2>1, <2>2
  <2>4. cost * pending_draws' <= cost * pending_draws
    BY <1>a, <2>3, ProductMonotone
  <2>5. cost * pending_draws' \in Int /\ cost * pending_draws \in Int
    BY <1>a, <2>3
  <2>6. cost * pending_draws' <= vault'
    BY <1>a, <1>b, <2>2, <2>4, <2>5
  <2>7. pending_draws = 0 => pending_draws' = 0
    BY <1>a, <2>3
  <2> QED
    BY <2>2, <2>6, <2>7 DEF Solvency
<1>10. ASSUME NEW s \in Seeds, NEW i \in 1 .. MaxCount, Deliver(s, i) PROVE Goal
  BY <1>10, <1>c DEF Deliver, CanDeliver, queue
<1>11. ASSUME NEW n \in Amounts, Fund(n) PROVE Goal
  <2>1. n \in Nat
    BY InputAssumption
  <2>2. vault' = vault + n /\ UNCHANGED <<status, terms, pending_draws>>
    BY <1>11 DEF Fund, queue
  <2>3. cost * pending_draws <= vault'
    <3>1. cost * pending_draws \in Int
      BY <1>a
    <3> QED
      BY <1>a, <1>b, <2>1, <2>2, <3>1
  <2> QED
    BY <2>2, <2>3 DEF Solvency
<1>12. ASSUME NEW a \in Assets, NEW w \in Wallets, NEW o \in Wallets \cup {Pool},
              TransferAsset(a, w, o)
       PROVE  Goal
  BY <1>12, <1>c DEF TransferAsset, queue
<1>13. ASSUME Tick PROVE Goal
  BY <1>13, <1>c DEF Tick, queue
<1>14. ASSUME UNCHANGED vars PROVE Goal
  BY <1>14, <1>c DEF vars, queue
<1> QED
  BY <1>1, <1>2, <1>3, <1>4, <1>5, <1>6, <1>7, <1>8, <1>9, <1>10, <1>11, <1>12,
     <1>13, <1>14 DEF Next

\* The vault covers the payment and the penalty of every pending draw in every
\* reachable state, whatever the authority withdraws or buys back.
THEOREM AlwaysSolvent == Spec => []Solvency
<1>1. Init => SolvencyInv
  BY TypeInit, SolvencyInit DEF SolvencyInv
<1>2. SolvencyInv /\ [Next]_vars => SolvencyInv'
  BY TypeNext, SolvencyNext DEF SolvencyInv
<1>3. SolvencyInv => Solvency
  BY DEF SolvencyInv
<1> QED
  BY <1>1, <1>2, <1>3, PTL DEF Spec

-----------------------------------------------------------------------------
(* The terms.                                                              *)

\* A pool that exists was created with valid terms.
TermsValid == status # "absent" => ValidTerms(terms)

\* No instruction changes the terms after CreatePool has checked them.
LEMMA TermsNext == TermsValid /\ [Next]_vars => TermsValid'
<1> SUFFICES ASSUME TermsValid, [Next]_vars PROVE TermsValid'
  OBVIOUS
<1>1. ASSUME NEW t \in Terms, CreatePool(t) PROVE TermsValid'
  BY <1>1 DEF CreatePool, CanCreatePool, TermsValid, ValidTerms
<1>2. ASSUME terms' = terms, status = "absent" => status' = "absent"
      PROVE  TermsValid'
  BY <1>2 DEF TermsValid, ValidTerms
<1>3. ASSUME Next, \A t \in Terms : ~ CreatePool(t)
      PROVE  terms' = terms /\ (status = "absent" => status' = "absent")
  BY <1>3 DEF Next, SetStatus, CanSetStatus, DepositItem, CanDepositItem, Withdraw,
              CanWithdraw, Reclaim, CanReclaim, Buy, CanBuy, Refund, CanRefund, Buyback,
              CanBuyback,
              Settle, CanSettle, Deliver, CanDeliver, Fund, TransferAsset, Tick
<1>4. ASSUME UNCHANGED vars PROVE TermsValid'
  BY <1>2, <1>4 DEF vars
<1> QED
  BY <1>1, <1>2, <1>3, <1>4

HIDE DEF Tier, Position

-----------------------------------------------------------------------------
(* What a step does to the queue.                                          *)

\* No purchase is made or resolved.
QueueKept ==
    /\ UNCHANGED queue
    /\ \A s \in Seeds : pulls'[s] = pulls[s] \/ (~ IsPending(s) /\ ~ IsPending(s)')

\* The purchase at the head is settled or refunded.
HeadLeaves(h) ==
    /\ IsHead(h) /\ ~ IsPending(h)'
    /\ Release(h)
    /\ next_index' = next_index
    /\ \A s \in Seeds \ {h} : pulls'[s] = pulls[s]

\* A purchase joins at the end.
Joins(s, n) ==
    /\ pulls[s] = NoPull /\ IsPending(s)'
    /\ pulls'[s].count = n
    /\ pulls'[s].index = next_index
    /\ pulls'[s].inventory_version = inventory_version
    /\ pulls'[s].deadline_slot = slot + terms.deadline_slots
    /\ \A r \in Seeds \ {s} : pulls'[r] = pulls[r]
    /\ pending_draws' = pending_draws + n
    /\ next_index' = next_index + 1
    /\ next_settle' = next_settle
    /\ UNCHANGED <<status, terms, inventory_version, slot>>

\* What the queue relies on elsewhere: the inventory version and the slot only
\* grow, and the terms are fixed before the first purchase.
Advance ==
    /\ inventory_version' >= inventory_version
    /\ slot' >= slot
    /\ terms' = terms \/ status = "absent"
    /\ status' = "absent" => status = "absent" /\ pulls' = pulls

\* Deliveries touch settled pulls only.
LEMMA DeliverKeepsQueue ==
    ASSUME TypeOK, NEW s \in Seeds, NEW i \in 1 .. MaxCount, Deliver(s, i)
    PROVE  QueueKept
<1>1. pulls[s] \in Pull /\ pulls[s].status = "settled"
  BY DEF TypeOK, Deliver, CanDeliver, IsSettled
<1> DEFINE marked == [pulls[s] EXCEPT !.outcomes[i].tier = DELIVERED]
<1>2. pulls' = [pulls EXCEPT ![s] = IF AllDelivered(marked) THEN NoPull ELSE marked]
  BY DEF Deliver, CanDeliver
<1>3. marked.status = "settled"
  BY <1>1 DEF Pull
<1>4. pulls'[s] = NoPull \/ pulls'[s].status = "settled"
  BY <1>2, <1>3 DEF TypeOK
<1>5. ~ IsPending(s) /\ ~ IsPending(s)'
  BY <1>1, <1>4 DEF IsPending
<1>6. \A r \in Seeds \ {s} : pulls'[r] = pulls[r]
  BY <1>2 DEF TypeOK
<1> QED
  BY <1>5, <1>6 DEF QueueKept, Deliver, CanDeliver

\* A settlement resolves the head.
LEMMA SettleLeaves ==
    ASSUME TypeOK, NEW s \in Seeds, Settle(s)
    PROVE  HeadLeaves(s)
<1>1. PICK d \in Draws(s) : Award(s, d)
  BY DEF Settle, CanSettle
<1>2. IsHead(s) /\ Release(s) /\ next_index' = next_index
  BY DEF Settle, CanSettle
<1>3. pulls[s] \in Pull
  BY <1>2 DEF TypeOK, IsHead, IsPending
<1> DEFINE won == [i \in 1 .. pulls[s].count |->
                     [tier |-> tags[d[i]] - 1, asset |-> items[d[i]].asset]]
<1>4. pulls' = [pulls EXCEPT ![s] = [pulls[s] EXCEPT !.status = "settled",
                                                     !.outcomes = won]]
  BY <1>1 DEF Award, CanAward, Won
<1>5. pulls'[s].status = "settled"
  BY <1>3, <1>4 DEF TypeOK, Pull
<1>6. \A r \in Seeds \ {s} : pulls'[r] = pulls[r]
  BY <1>4 DEF TypeOK
<1> QED
  BY <1>2, <1>5, <1>6 DEF HeadLeaves, IsPending

\* A refund resolves the head.
LEMMA RefundLeaves ==
    ASSUME TypeOK, NEW s \in Seeds, Refund(s)
    PROVE  HeadLeaves(s)
<1>1. IsHead(s) /\ Release(s) /\ next_index' = next_index
  BY DEF Refund, CanRefund
<1>2. pulls' = [pulls EXCEPT ![s] = NoPull]
  BY DEF Refund, CanRefund
<1> QED
  BY <1>1, <1>2 DEF HeadLeaves, IsPending, TypeOK

\* A purchase joins.
LEMMA BuyJoins ==
    ASSUME TypeOK, NEW s \in Seeds, NEW b \in Wallets, NEW n \in 1 .. MaxCount,
           NEW v \in 0 .. inventory_version, Buy(s, b, n, v)
    PROVE  Joins(s, n)
<1> DEFINE bought == [status |-> "pending", count |-> n,
                      inventory_version |-> inventory_version,
                      index |-> next_index,
                      deadline_slot |-> slot + terms.deadline_slots,
                      buyer |-> b, outcomes |-> <<>>]
<1>1. bought \in Pull
  <2>1. <<>> \in Seq(Outcome)
    BY EmptySeq
  <2>2. slot + terms.deadline_slots \in Nat
    BY BoundAssumption DEF Term, TypeOK
  <2>3. inventory_version \in Nat /\ next_index \in Nat
    BY BoundAssumption DEF TypeOK
  <2> QED
    BY <2>1, <2>2, <2>3 DEF Pull
<1>2. pulls' = [pulls EXCEPT ![s] = bought]
  BY DEF Buy, CanBuy
<1>3. pulls'[s] = bought /\ \A r \in Seeds \ {s} : pulls'[r] = pulls[r]
  BY <1>2 DEF TypeOK
<1>4. bought # NoPull
  BY <1>1, NullAssumption
<1>5. IsPending(s)'
  BY <1>3, <1>4 DEF IsPending
<1> QED
  BY <1>3, <1>5 DEF Joins, Buy, CanBuy, stock

\* Every step is one of the three.
LEMMA StepKinds ==
    ASSUME TypeOK, [Next]_vars
    PROVE  \/ QueueKept
           \/ \E h \in Seeds : HeadLeaves(h)
           \/ \E s \in Seeds, n \in 1 .. MaxCount : Joins(s, n)
<1> DEFINE Goal == \/ QueueKept
                   \/ \E h \in Seeds : HeadLeaves(h)
                   \/ \E s \in Seeds, n \in 1 .. MaxCount : Joins(s, n)
<1>a. ASSUME UNCHANGED <<queue, pulls>> PROVE Goal
  BY <1>a DEF QueueKept
<1>1. ASSUME NEW t \in Terms, CreatePool(t) PROVE Goal
  BY <1>1, <1>a DEF CreatePool, CanCreatePool
<1>2. ASSUME NEW x \in {"paused", "active", "retired"}, SetStatus(x) PROVE Goal
  BY <1>2, <1>a DEF SetStatus, CanSetStatus
<1>3. ASSUME NEW a \in Assets, NEW t \in 0 .. MaxTiers, DepositItem(a, t) PROVE Goal
  BY <1>3, <1>a DEF DepositItem, CanDepositItem
<1>4. ASSUME NEW n \in Amounts, Withdraw(n) PROVE Goal
  BY <1>4, <1>a DEF Withdraw, CanWithdraw
<1>5. ASSUME NEW p \in Position, Reclaim(p) PROVE Goal
  BY <1>5, <1>a DEF Reclaim, CanReclaim
<1>6. ASSUME NEW s \in Seeds, NEW b \in Wallets, NEW n \in 1 .. MaxCount,
             NEW v \in 0 .. inventory_version, Buy(s, b, n, v)
      PROVE  Goal
  BY <1>6, BuyJoins
<1>7. ASSUME NEW s \in Seeds, Refund(s) PROVE Goal
  BY <1>7, RefundLeaves
<1>8. ASSUME NEW q \in Quotes, NEW w \in Wallets, Buyback(q, w) PROVE Goal
  BY <1>8, <1>a DEF Buyback, CanBuyback
<1>9. ASSUME NEW s \in Seeds, Settle(s) PROVE Goal
  BY <1>9, SettleLeaves
<1>10. ASSUME NEW s \in Seeds, NEW i \in 1 .. MaxCount, Deliver(s, i) PROVE Goal
  BY <1>10, DeliverKeepsQueue
<1>11. ASSUME NEW n \in Amounts, Fund(n) PROVE Goal
  BY <1>11, <1>a DEF Fund
<1>12. ASSUME NEW a \in Assets, NEW w \in Wallets, NEW o \in Wallets \cup {Pool},
              TransferAsset(a, w, o)
       PROVE  Goal
  BY <1>12, <1>a DEF TransferAsset
<1>13. ASSUME Tick PROVE Goal
  BY <1>13, <1>a DEF Tick
<1>14. ASSUME UNCHANGED vars PROVE Goal
  BY <1>14, <1>a DEF vars
<1> QED
  BY <1>1, <1>2, <1>3, <1>4, <1>5, <1>6, <1>7, <1>8, <1>9, <1>10, <1>11, <1>12,
     <1>13, <1>14 DEF Next

\* There is no purchase before CreatePool.
AbsentSoldNothing == status = "absent" => \A s \in Seeds : pulls[s] = NoPull

\* No step turns the inventory version, the slot or the terms back.
LEMMA StepAdvances == ASSUME TypeOK, AbsentSoldNothing, [Next]_vars PROVE Advance
<1>0. /\ inventory_version \in Nat /\ slot \in Nat
      /\ status \in {"absent", "paused", "active", "retired"}
  BY BoundAssumption DEF TypeOK
<1>a. ASSUME UNCHANGED <<inventory_version, slot, terms, status>>, status # "absent"
      PROVE  Advance
  BY <1>0, <1>a DEF Advance
<1>b. ASSUME UNCHANGED <<inventory_version, slot, terms, status, pulls>> PROVE Advance
  BY <1>0, <1>b DEF Advance
<1>1. ASSUME NEW t \in Terms, CreatePool(t) PROVE Advance
  BY <1>0, <1>1 DEF CreatePool, CanCreatePool, stock, Advance
<1>2. ASSUME NEW x \in {"paused", "active", "retired"}, SetStatus(x) PROVE Advance
  BY <1>0, <1>2 DEF SetStatus, CanSetStatus, stock, Advance
<1>3. ASSUME NEW a \in Assets, NEW t \in 0 .. MaxTiers, DepositItem(a, t) PROVE Advance
  BY <1>0, <1>3 DEF DepositItem, CanDepositItem, Restock, Advance
<1>4. ASSUME NEW n \in Amounts, Withdraw(n) PROVE Advance
  BY <1>4, <1>b DEF Withdraw, CanWithdraw, stock
<1>5. ASSUME NEW p \in Position, Reclaim(p) PROVE Advance
  BY <1>5, <1>b DEF Reclaim, CanReclaim
<1>6. ASSUME NEW s \in Seeds, NEW b \in Wallets, NEW n \in 1 .. MaxCount,
             NEW v \in 0 .. inventory_version, Buy(s, b, n, v)
      PROVE  Advance
  BY <1>6, <1>a DEF Buy, CanBuy, stock
<1>7. ASSUME NEW s \in Seeds, Refund(s) PROVE Advance
  BY <1>7, <1>a DEF Refund, CanRefund, stock, IsHead, IsPending, AbsentSoldNothing
<1>8. ASSUME NEW q \in Quotes, NEW w \in Wallets, Buyback(q, w) PROVE Advance
  BY <1>0, <1>8 DEF Buyback, CanBuyback, Restock, Advance
<1>9. ASSUME NEW s \in Seeds, Settle(s) PROVE Advance
  BY <1>9, <1>a DEF Settle, CanSettle, IsHead, IsPending, AbsentSoldNothing
<1>10. ASSUME NEW s \in Seeds, NEW i \in 1 .. MaxCount, Deliver(s, i)
       PROVE  Advance
  BY <1>10, <1>a DEF Deliver, CanDeliver, stock, IsSettled, AbsentSoldNothing
<1>11. ASSUME NEW n \in Amounts, Fund(n) PROVE Advance
  BY <1>11, <1>b DEF Fund, stock
<1>12. ASSUME NEW a \in Assets, NEW w \in Wallets, NEW o \in Wallets \cup {Pool},
              TransferAsset(a, w, o)
       PROVE  Advance
  BY <1>12, <1>b DEF TransferAsset, stock
<1>13. ASSUME Tick PROVE Advance
  BY <1>0, <1>13 DEF Tick, stock, Advance
<1>14. ASSUME UNCHANGED vars PROVE Advance
  BY <1>14, <1>b DEF vars, stock
<1> QED
  BY <1>1, <1>2, <1>3, <1>4, <1>5, <1>6, <1>7, <1>8, <1>9, <1>10, <1>11, <1>12,
     <1>13, <1>14 DEF Next

-----------------------------------------------------------------------------
(* The FIFO order.                                                         *)

\* FIFOQueue, with what makes it inductive: indexes run forward, and no
\* deadline lies further ahead than a purchase made now would set it.
QueueInv ==
    /\ TypeOK
    /\ AbsentSoldNothing
    /\ next_settle <= next_index
    /\ FIFOQueue
    /\ \A s \in PendingSeeds : pulls[s].deadline_slot <= slot + terms.deadline_slots

\* The empty ledger has an empty queue.
LEMMA QueueInit == Init => QueueInv
<1> SUFFICES ASSUME Init PROVE QueueInv
  OBVIOUS
<1>1. TypeOK
  BY TypeInit
<1>2. \A s \in Seeds : pulls[s] = NoPull
  BY DEF Init
<1>3. PendingSeeds = {}
  BY <1>2 DEF PendingSeeds, IsPending
<1>4. next_settle = 0 /\ next_index = 0
  BY DEF Init
<1>5. FIFOQueue
  BY <1>3, <1>4 DEF FIFOQueue
<1> QED
  BY <1>1, <1>2, <1>3, <1>4, <1>5 DEF QueueInv, AbsentSoldNothing

\* The numbers a pending pull carries.
LEMMA PendingNumbers ==
    ASSUME TypeOK, NEW s \in PendingSeeds
    PROVE  /\ s \in Seeds /\ pulls[s] \in Pull
           /\ pulls[s].count \in Nat /\ pulls[s].count \in 1 .. MaxCount
           /\ pulls[s].index \in Nat
           /\ pulls[s].inventory_version \in Nat /\ pulls[s].deadline_slot \in Nat
<1>1. s \in Seeds /\ pulls[s] \in Pull
  BY DEF TypeOK, PendingSeeds, IsPending
<1> QED
  BY <1>1, BoundAssumption DEF Pull

\* A step that makes and resolves no purchase keeps the queue in order.
LEMMA KeptOrder ==
    ASSUME QueueInv, TypeOK', Advance, QueueKept
    PROVE  /\ PendingSeeds' = PendingSeeds
           /\ \A s \in PendingSeeds : pulls'[s] = pulls[s]
           /\ FIFOQueue' /\ next_settle' <= next_index'
<1>1. PendingSeeds' = PendingSeeds
  BY DEF QueueKept, PendingSeeds, IsPending
<1>2. \A s \in PendingSeeds : pulls'[s] = pulls[s]
  BY DEF QueueKept, PendingSeeds
<1>3. next_index' = next_index /\ next_settle' = next_settle
  BY DEF QueueKept, queue
<1>4. {pulls'[s].index : s \in PendingSeeds'} = {pulls[s].index : s \in PendingSeeds}
  BY <1>1, <1>2
<1>5. \A s \in PendingSeeds : pulls[s].inventory_version <= inventory_version'
  <2> TAKE s \in PendingSeeds
  <2>1. pulls[s].inventory_version <= inventory_version
    BY DEF QueueInv, FIFOQueue
  <2>2. inventory_version <= inventory_version'
    BY DEF Advance
  <2>3. /\ pulls[s].inventory_version \in Nat
        /\ inventory_version \in Nat /\ inventory_version' \in Nat
    BY PendingNumbers, BoundAssumption DEF QueueInv, TypeOK
  <2> QED
    BY <2>1, <2>2, <2>3
<1>6. FIFOQueue'
  BY <1>1, <1>2, <1>3, <1>4, <1>5 DEF QueueInv, FIFOQueue
<1> QED
  BY <1>1, <1>2, <1>3, <1>6 DEF QueueInv

\* In an ordered queue the indexes are distinct and lie in the window.
LEMMA QueueFacts ==
    ASSUME QueueInv
    PROVE  /\ next_settle \in Nat /\ next_index \in Nat
           /\ \A s \in PendingSeeds : next_settle <= pulls[s].index
                                      /\ pulls[s].index < next_index
           /\ \A r, s \in PendingSeeds : pulls[r].index = pulls[s].index => r = s
<1>1. TypeOK /\ FIFOQueue
  BY DEF QueueInv
<1>2. next_settle \in Nat /\ next_index \in Nat
  BY <1>1, BoundAssumption DEF TypeOK
<1>3. ASSUME NEW s \in PendingSeeds
      PROVE  next_settle <= pulls[s].index /\ pulls[s].index < next_index
  <2>1. pulls[s].index \in next_settle .. next_index - 1
    BY <1>1 DEF FIFOQueue
  <2> QED
    BY <1>2, <2>1
<1>4. ASSUME NEW r \in PendingSeeds, NEW s \in PendingSeeds,
             pulls[r].index = pulls[s].index
      PROVE  r = s
  <2>1. pulls[r].index \in Nat
    BY <1>1, PendingNumbers
  <2>2. r # s /\ pulls[r].index <= pulls[s].index => pulls[r].index < pulls[s].index
    BY <1>1 DEF FIFOQueue
  <2> QED
    BY <1>4, <2>1, <2>2
<1> QED
  BY <1>2, <1>3, <1>4

\* Resolving the head moves the window by one and keeps the order.
LEMMA HeadLeavesOrder ==
    ASSUME QueueInv, TypeOK', Advance, NEW h \in Seeds, HeadLeaves(h)
    PROVE  /\ PendingSeeds' = PendingSeeds \ {h}
           /\ \A s \in PendingSeeds \ {h} : pulls'[s] = pulls[s]
           /\ h \in PendingSeeds /\ pulls[h].index = next_settle
           /\ FIFOQueue' /\ next_settle' <= next_index'
<1>1. h \in PendingSeeds /\ pulls[h].index = next_settle
  BY DEF HeadLeaves, IsHead, PendingSeeds
<1>2. PendingSeeds' = PendingSeeds \ {h}
  BY DEF HeadLeaves, PendingSeeds, IsPending
<1>3. \A s \in PendingSeeds \ {h} : pulls'[s] = pulls[s]
  BY DEF HeadLeaves, PendingSeeds
<1>4. next_index' = next_index /\ next_settle' = next_settle + 1
  BY <1>1 DEF HeadLeaves, Release, CanRelease
<1>5. next_settle \in Nat /\ next_index \in Nat /\ next_settle < next_index
  BY <1>1, QueueFacts
<1>6. next_settle' <= next_index'
  BY <1>4, <1>5
<1>7. {pulls'[s].index : s \in PendingSeeds'} = next_settle' .. next_index' - 1
  <2>1. ASSUME NEW s \in PendingSeeds'
        PROVE  pulls'[s].index \in next_settle' .. next_index' - 1
    <3>1. s \in PendingSeeds /\ s # h /\ pulls'[s].index = pulls[s].index
      BY <1>2, <1>3
    <3>2. pulls[s].index # next_settle
      BY <1>1, <3>1, QueueFacts
    <3>3. pulls[s].index \in Nat
      BY <3>1, PendingNumbers DEF QueueInv
    <3>4. next_settle <= pulls[s].index /\ pulls[s].index < next_index
      BY <3>1, QueueFacts
    <3> QED
      BY <1>4, <1>5, <3>1, <3>2, <3>3, <3>4
  <2>2. ASSUME NEW i \in next_settle' .. next_index' - 1
        PROVE  \E s \in PendingSeeds' : pulls'[s].index = i
    <3>1. i \in next_settle .. next_index - 1 /\ i # next_settle
      BY <1>4, <1>5
    <3>2. PICK s \in PendingSeeds : pulls[s].index = i
      BY <3>1 DEF QueueInv, FIFOQueue
    <3>3. s # h
      BY <1>1, <3>1, <3>2
    <3> QED
      BY <1>2, <1>3, <3>2, <3>3
  <2> QED
    BY <2>1, <2>2
<1>8. \A s \in PendingSeeds' : pulls'[s].inventory_version <= inventory_version'
  <2> TAKE s \in PendingSeeds'
  <2>0. s \in PendingSeeds /\ pulls'[s] = pulls[s]
    BY <1>2, <1>3
  <2>1. pulls[s].inventory_version <= inventory_version
    BY <2>0 DEF QueueInv, FIFOQueue
  <2>2. inventory_version <= inventory_version'
    BY DEF Advance
  <2>3. pulls[s].inventory_version \in Nat
    BY <2>0, PendingNumbers DEF QueueInv
  <2>4. inventory_version \in Nat /\ inventory_version' \in Nat
    BY BoundAssumption DEF QueueInv, TypeOK
  <2> QED
    BY <2>0, <2>1, <2>2, <2>3, <2>4
<1>9. \A r, s \in PendingSeeds' :
        r # s /\ pulls'[r].index <= pulls'[s].index =>
          /\ pulls'[r].index < pulls'[s].index
          /\ pulls'[r].inventory_version <= pulls'[s].inventory_version
          /\ pulls'[r].deadline_slot <= pulls'[s].deadline_slot
  BY <1>2, <1>3 DEF QueueInv, FIFOQueue
<1>10. FIFOQueue'
  BY <1>7, <1>8, <1>9 DEF FIFOQueue
<1> QED
  BY <1>1, <1>2, <1>3, <1>6, <1>10

\* A purchase takes the index after the last and keeps the order.
LEMMA JoinsOrder ==
    ASSUME QueueInv, TypeOK', NEW s \in Seeds, NEW n \in 1 .. MaxCount, Joins(s, n)
    PROVE  /\ PendingSeeds' = PendingSeeds \cup {s}
           /\ s \notin PendingSeeds
           /\ \A r \in PendingSeeds : pulls'[r] = pulls[r]
           /\ FIFOQueue' /\ next_settle' <= next_index'
<1>1. s \notin PendingSeeds
  BY DEF Joins, PendingSeeds, IsPending
<1>2. PendingSeeds' = PendingSeeds \cup {s}
  BY DEF Joins, PendingSeeds, IsPending
<1>3. \A r \in PendingSeeds : pulls'[r] = pulls[r]
  BY <1>1 DEF Joins, PendingSeeds
<1>4. /\ next_index' = next_index + 1 /\ next_settle' = next_settle
      /\ inventory_version' = inventory_version
      /\ pulls'[s].index = next_index
      /\ pulls'[s].inventory_version = inventory_version
      /\ pulls'[s].deadline_slot = slot + terms.deadline_slots
  BY DEF Joins
<1>5. next_settle \in Nat /\ next_index \in Nat /\ next_settle <= next_index
  BY QueueFacts DEF QueueInv
<1>6. {pulls'[r].index : r \in PendingSeeds'} = next_settle' .. next_index' - 1
  <2>1. ASSUME NEW r \in PendingSeeds'
        PROVE  pulls'[r].index \in next_settle' .. next_index' - 1
    <3>1. CASE r = s
      BY <1>4, <1>5, <3>1
    <3>2. CASE r # s
      <4>1. r \in PendingSeeds /\ pulls'[r].index = pulls[r].index
        BY <1>2, <1>3, <3>2
      <4>2. pulls[r].index \in Nat
        BY <4>1, PendingNumbers DEF QueueInv
      <4>3. next_settle <= pulls[r].index /\ pulls[r].index < next_index
        BY <4>1, QueueFacts
      <4> QED
        BY <1>4, <1>5, <4>1, <4>2, <4>3
    <3> QED
      BY <3>1, <3>2
  <2>2. ASSUME NEW i \in next_settle' .. next_index' - 1
        PROVE  \E r \in PendingSeeds' : pulls'[r].index = i
    <3>1. CASE i = next_index
      BY <1>2, <1>4, <3>1
    <3>2. CASE i # next_index
      <4>1. i \in next_settle .. next_index - 1
        BY <1>4, <1>5, <3>2
      <4>2. PICK r \in PendingSeeds : pulls[r].index = i
        BY <4>1 DEF QueueInv, FIFOQueue
      <4> QED
        BY <1>2, <1>3, <4>2
    <3> QED
      BY <3>1, <3>2
  <2> QED
    BY <2>1, <2>2
<1>7. \A r \in PendingSeeds :
        /\ pulls[r].inventory_version <= inventory_version
        /\ pulls[r].deadline_slot <= slot + terms.deadline_slots
        /\ pulls[r].index \in Nat /\ pulls[r].index < next_index
  BY PendingNumbers, QueueFacts DEF QueueInv, FIFOQueue
<1>8. \A r \in PendingSeeds' : pulls'[r].inventory_version <= inventory_version'
  <2>1. inventory_version \in Nat
    BY BoundAssumption DEF QueueInv, TypeOK
  <2> QED
    BY <1>2, <1>3, <1>4, <1>7, <2>1
<1>9. ASSUME NEW q \in PendingSeeds', NEW r \in PendingSeeds',
             q # r, pulls'[q].index <= pulls'[r].index
      PROVE  /\ pulls'[q].index < pulls'[r].index
             /\ pulls'[q].inventory_version <= pulls'[r].inventory_version
             /\ pulls'[q].deadline_slot <= pulls'[r].deadline_slot
  <2>1. CASE q \in PendingSeeds /\ r \in PendingSeeds
    BY <1>3, <1>9, <2>1 DEF QueueInv, FIFOQueue
  <2>2. CASE q \in PendingSeeds /\ r = s
    BY <1>3, <1>4, <1>7, <2>2
  <2>3. CASE q = s
    <3>1. r \in PendingSeeds
      BY <1>2, <1>9, <2>3
    <3> QED
      BY <1>3, <1>4, <1>5, <1>7, <1>9, <2>3, <3>1
  <2> QED
    BY <1>2, <2>1, <2>2, <2>3
<1>10. FIFOQueue'
  BY <1>6, <1>8, <1>9 DEF FIFOQueue
<1>11. next_settle' <= next_index'
  BY <1>4, <1>5
<1> QED
  BY <1>1, <1>2, <1>3, <1>10, <1>11

\* Every step keeps the queue invariant.
LEMMA QueueNext == QueueInv /\ [Next]_vars => QueueInv'
<1> SUFFICES ASSUME QueueInv, [Next]_vars PROVE QueueInv'
  OBVIOUS
<1> DEFINE Late(s) == pulls[s].deadline_slot <= slot + terms.deadline_slots
<1>1. TypeOK /\ TypeOK'
  BY TypeNext DEF QueueInv
<1>2. Advance
  BY <1>1, StepAdvances DEF QueueInv
<1>3. \A s \in PendingSeeds : status # "absent"
  BY DEF QueueInv, AbsentSoldNothing, PendingSeeds, IsPending
<1>4. ASSUME NEW s \in PendingSeeds, s \in PendingSeeds', pulls'[s] = pulls[s]
      PROVE  Late(s)'
  <2>1. terms' = terms /\ slot <= slot'
    BY <1>2, <1>3 DEF Advance
  <2>2. slot \in Nat /\ slot' \in Nat /\ terms.deadline_slots \in Nat
    BY <1>1, BoundAssumption DEF TypeOK, Term
  <2>3. pulls[s].deadline_slot \in Nat /\ Late(s)
    BY <1>1, PendingNumbers DEF QueueInv
  <2> QED
    BY <1>4, <2>1, <2>2, <2>3
<1>5. CASE QueueKept
  <2>1. /\ PendingSeeds' = PendingSeeds /\ \A s \in PendingSeeds : pulls'[s] = pulls[s]
        /\ FIFOQueue' /\ next_settle' <= next_index'
    BY <1>1, <1>2, <1>5, KeptOrder
  <2>2. AbsentSoldNothing'
    BY <1>2 DEF Advance, AbsentSoldNothing, QueueInv
  <2>3. \A s \in PendingSeeds' : Late(s)'
    BY <1>4, <2>1
  <2> QED
    BY <1>1, <2>1, <2>2, <2>3 DEF QueueInv
<1>6. ASSUME NEW h \in Seeds, HeadLeaves(h) PROVE QueueInv'
  <2>1. /\ PendingSeeds' = PendingSeeds \ {h}
        /\ \A s \in PendingSeeds \ {h} : pulls'[s] = pulls[s]
        /\ h \in PendingSeeds
        /\ FIFOQueue' /\ next_settle' <= next_index'
    BY <1>1, <1>2, <1>6, HeadLeavesOrder
  <2>2. AbsentSoldNothing'
    BY <1>2, <1>3, <2>1 DEF Advance, AbsentSoldNothing
  <2>3. \A s \in PendingSeeds' : Late(s)'
    BY <1>4, <2>1
  <2> QED
    BY <1>1, <2>1, <2>2, <2>3 DEF QueueInv
<1>7. ASSUME NEW s \in Seeds, NEW n \in 1 .. MaxCount, Joins(s, n) PROVE QueueInv'
  <2>1. /\ PendingSeeds' = PendingSeeds \cup {s}
        /\ \A r \in PendingSeeds : pulls'[r] = pulls[r]
        /\ FIFOQueue' /\ next_settle' <= next_index'
    BY <1>1, <1>7, JoinsOrder
  <2>2. AbsentSoldNothing'
    <3>1. pulls' # pulls
      BY <1>7 DEF Joins, IsPending
    <3> QED
      BY <1>2, <3>1 DEF Advance, AbsentSoldNothing
  <2>3. Late(s)'
    <3>1. /\ pulls'[s].deadline_slot = slot + terms.deadline_slots
          /\ slot' = slot /\ terms' = terms
      BY <1>7 DEF Joins
    <3>2. slot + terms.deadline_slots \in Nat
      BY <1>1, BoundAssumption DEF TypeOK, Term
    <3> QED
      BY <3>1, <3>2
  <2>4. \A r \in PendingSeeds' : Late(r)'
    BY <1>4, <2>1, <2>3
  <2> QED
    BY <1>1, <2>1, <2>2, <2>4 DEF QueueInv
<1> QED
  BY <1>1, <1>5, <1>6, <1>7, StepKinds

\* In every reachable state the pending pulls hold the indexes from next_settle
\* to next_index - 1, one each, with prefixes and deadlines in the same order.
THEOREM QueueInOrder == Spec => []FIFOQueue
<1>1. QueueInv => FIFOQueue
  BY DEF QueueInv
<1> QED
  BY <1>1, QueueInit, QueueNext, PTL DEF Spec

-----------------------------------------------------------------------------
(* Counting the pending draws.                                             *)

\* The tickets of one pull.
Block(s, n) == {s} \X (1 .. n)

\* A pull has as many tickets as draws.
LEMMA BlockSize ==
    ASSUME NEW s, NEW n \in Nat
    PROVE  IsFiniteSet(Block(s, n)) /\ Cardinality(Block(s, n)) = n
<1>1. IsFiniteSet({s}) /\ Cardinality({s}) = 1
  BY FS_Singleton
<1>2. IsFiniteSet(1 .. n) /\ Cardinality(1 .. n) = n
  BY FS_Interval
<1>3. /\ IsFiniteSet({s} \X (1 .. n))
      /\ Cardinality({s} \X (1 .. n)) = Cardinality({s}) * Cardinality(1 .. n)
  BY <1>1, <1>2, FS_Product
<1> QED
  BY <1>1, <1>2, <1>3 DEF Block

\* There are finitely many tickets.
LEMMA TicketsFinite ==
    ASSUME NEW i
    PROVE  IsFiniteSet(Tickets(i)) /\ Cardinality(Tickets(i)) \in Nat
<1>1. IsFiniteSet(PendingSeeds)
  BY FS_Subset, AccountAssumption DEF PendingSeeds
<1>2. IsFiniteSet(1 .. MaxCount)
  BY FS_Interval, BoundAssumption
<1>3. IsFiniteSet(PendingSeeds \X (1 .. MaxCount))
  BY <1>1, <1>2, FS_Product
<1>4. Tickets(i) \in SUBSET (PendingSeeds \X (1 .. MaxCount))
  BY DEF Tickets
<1>5. IsFiniteSet(Tickets(i))
  BY <1>3, <1>4, FS_Subset
<1> QED
  BY <1>5, FS_CardinalityType

\* A pending pull contributes its block, whole, from its own index on.
LEMMA TicketsOfPull ==
    ASSUME TypeOK, NEW s \in PendingSeeds, NEW i, pulls[s].index <= i
    PROVE  Block(s, pulls[s].count) \subseteq Tickets(i)
<1>1. pulls[s].count \in 1 .. MaxCount
  BY PendingNumbers
<1>2. ASSUME NEW w \in Block(s, pulls[s].count) PROVE w \in Tickets(i)
  <2>1. w[1] = s /\ w[2] \in 1 .. pulls[s].count /\ w = <<w[1], w[2]>>
    BY DEF Block
  <2>2. w[2] \in 1 .. MaxCount /\ w[2] <= pulls[s].count
    BY <1>1, <2>1, BoundAssumption
  <2>3. w \in PendingSeeds \X (1 .. MaxCount)
    BY <2>1, <2>2
  <2> QED
    BY <2>1, <2>2, <2>3 DEF Tickets
<1> QED
  BY <1>2

\* Resolving the head removes its block from every count.
LEMMA HeadLeavesTickets ==
    ASSUME TypeOK, NEW h \in PendingSeeds, PendingSeeds' = PendingSeeds \ {h},
           \A s \in PendingSeeds \ {h} : pulls'[s] = pulls[s],
           NEW CONSTANT i, pulls[h].index <= i
    PROVE  Cardinality(Tickets(i)') = Cardinality(Tickets(i)) - pulls[h].count
<1> DEFINE B == Block(h, pulls[h].count)
<1>1. Tickets(i)' = Tickets(i) \ B
  <2>1. ASSUME NEW w \in Tickets(i)' PROVE w \in Tickets(i) \ B
    <3>1. /\ w \in (PendingSeeds \ {h}) \X (1 .. MaxCount)
          /\ w[2] <= pulls'[w[1]].count /\ pulls'[w[1]].index <= i
      BY DEF Tickets
    <3>2. w[1] \in PendingSeeds \ {h} /\ w \in PendingSeeds \X (1 .. MaxCount)
      BY <3>1
    <3>3. pulls'[w[1]] = pulls[w[1]]
      BY <3>2
    <3>4. w \in Tickets(i)
      BY <3>1, <3>2, <3>3 DEF Tickets
    <3>5. w \notin B
      BY <3>2 DEF Block
    <3> QED
      BY <3>4, <3>5
  <2>2. ASSUME NEW w \in Tickets(i), w \notin B PROVE w \in Tickets(i)'
    <3>1. /\ w \in PendingSeeds \X (1 .. MaxCount)
          /\ w[2] <= pulls[w[1]].count /\ pulls[w[1]].index <= i
      BY DEF Tickets
    <3>2. w[1] \in PendingSeeds /\ w[2] \in 1 .. MaxCount /\ w = <<w[1], w[2]>>
      BY <3>1
    <3>3. w[1] # h
      <4>1. SUFFICES ASSUME w[1] = h PROVE FALSE
        OBVIOUS
      <4>2. w[2] \in 1 .. pulls[h].count
        BY <3>1, <3>2, <4>1, BoundAssumption, PendingNumbers
      <4>3. w \in B
        BY <3>2, <4>1, <4>2 DEF Block
      <4> QED
        BY <2>2, <4>3
    <3>4. pulls'[w[1]] = pulls[w[1]]
      BY <3>2, <3>3
    <3>5. w \in (PendingSeeds \ {h}) \X (1 .. MaxCount)
      BY <3>2, <3>3
    <3> QED
      BY <3>1, <3>4, <3>5 DEF Tickets
  <2> QED
    BY <2>1, <2>2
<1>2. IsFiniteSet(Tickets(i))
  BY TicketsFinite
<1>3. Tickets(i) \cap B = B
  BY TicketsOfPull
<1>4. Cardinality(Tickets(i) \ B) = Cardinality(Tickets(i)) - Cardinality(B)
  BY <1>2, <1>3, FS_Difference
<1>5. Cardinality(B) = pulls[h].count
  BY PendingNumbers, BlockSize
<1> QED
  BY <1>1, <1>4, <1>5

\* A purchase adds its block from its own index on, and nothing before it.
LEMMA JoinsTickets ==
    ASSUME QueueInv, TypeOK', NEW s \in Seeds, NEW n \in 1 .. MaxCount, Joins(s, n),
           NEW CONSTANT i \in Nat
    PROVE  /\ i < next_index => Tickets(i)' = Tickets(i)
           /\ next_index <= i =>
                Cardinality(Tickets(i)') = Cardinality(Tickets(next_index)) + n
<1> DEFINE B == Block(s, n)
<1>1. /\ PendingSeeds' = PendingSeeds \cup {s} /\ s \notin PendingSeeds
      /\ \A r \in PendingSeeds : pulls'[r] = pulls[r]
  BY JoinsOrder
<1>2. pulls'[s].count = n /\ pulls'[s].index = next_index
  BY DEF Joins
<1>3. next_index \in Nat /\ n \in Nat /\ MaxCount \in Nat
  BY QueueFacts, BoundAssumption
<1>4. ASSUME NEW w \in Tickets(i)', w[1] # s PROVE w \in Tickets(i)
  <2>1. /\ w \in (PendingSeeds \cup {s}) \X (1 .. MaxCount)
        /\ w[2] <= pulls'[w[1]].count /\ pulls'[w[1]].index <= i
    BY <1>1 DEF Tickets
  <2>2. w[1] \in PendingSeeds /\ w \in PendingSeeds \X (1 .. MaxCount)
    BY <1>4, <2>1
  <2>3. pulls'[w[1]] = pulls[w[1]]
    BY <1>1, <2>2
  <2> QED
    BY <2>1, <2>2, <2>3 DEF Tickets
<1>5. ASSUME NEW w \in Tickets(i) PROVE w \in Tickets(i)' /\ w[1] # s
  <2>1. /\ w \in PendingSeeds \X (1 .. MaxCount)
        /\ w[2] <= pulls[w[1]].count /\ pulls[w[1]].index <= i
    BY DEF Tickets
  <2>2. w[1] \in PendingSeeds /\ w \in (PendingSeeds \cup {s}) \X (1 .. MaxCount)
    BY <2>1
  <2>3. pulls'[w[1]] = pulls[w[1]]
    BY <1>1, <2>2
  <2> QED
    BY <1>1, <2>1, <2>2, <2>3 DEF Tickets
<1>6. ASSUME i < next_index PROVE Tickets(i)' = Tickets(i)
  <2>1. ASSUME NEW w \in Tickets(i)', w[1] = s PROVE FALSE
    <3>1. pulls'[s].index <= i
      BY <2>1 DEF Tickets
    <3> QED
      BY <1>2, <1>3, <1>6, <3>1
  <2> QED
    BY <1>4, <1>5, <2>1
<1>7. ASSUME next_index <= i
      PROVE  Cardinality(Tickets(i)') = Cardinality(Tickets(next_index)) + n
  <2>1. Tickets(i)' = Tickets(i) \cup B
    <3>1. ASSUME NEW w \in Tickets(i)', w[1] = s PROVE w \in B
      <4>1. /\ w \in (PendingSeeds \cup {s}) \X (1 .. MaxCount)
            /\ w[2] <= pulls'[s].count
        BY <1>1, <3>1 DEF Tickets
      <4>2. w = <<s, w[2]>> /\ w[2] \in 1 .. n
        BY <1>2, <1>3, <3>1, <4>1
      <4> QED
        BY <4>2 DEF Block
    <3>2. ASSUME NEW w \in B PROVE w \in Tickets(i)'
      <4>1. w = <<s, w[2]>> /\ w[1] = s /\ w[2] \in 1 .. n
        BY DEF Block
      <4>2. w[2] \in 1 .. MaxCount /\ w[2] <= n
        BY <1>3, <4>1
      <4>3. w \in (PendingSeeds \cup {s}) \X (1 .. MaxCount)
        BY <4>1, <4>2
      <4> QED
        BY <1>1, <1>2, <1>7, <4>1, <4>2, <4>3 DEF Tickets
    <3> QED
      BY <1>4, <1>5, <3>1, <3>2
  <2>2. Tickets(i) \cap B = {}
    BY <1>5 DEF Block
  <2>3. Tickets(i) = Tickets(next_index)
    <3>1. \A r \in PendingSeeds : pulls[r].index <= i /\ pulls[r].index <= next_index
      <4> TAKE r \in PendingSeeds
      <4>1. pulls[r].index \in Nat /\ pulls[r].index < next_index
        BY QueueFacts, PendingNumbers DEF QueueInv
      <4> QED
        BY <1>3, <1>7, <4>1
    <3>2. \A w \in PendingSeeds \X (1 .. MaxCount) : w[1] \in PendingSeeds
      OBVIOUS
    <3> QED
      BY <3>1, <3>2 DEF Tickets
  <2>4. IsFiniteSet(Tickets(i)) /\ IsFiniteSet(B) /\ Cardinality(B) = n
    BY <1>3, TicketsFinite, BlockSize
  <2>5. /\ Cardinality(Tickets(i) \cup B)
             = Cardinality(Tickets(i)) + Cardinality(B) - Cardinality(Tickets(i) \cap B)
    BY <2>4, FS_Union
  <2>6. Cardinality(Tickets(i) \cap B) = 0
    BY <2>2, FS_EmptySet
  <2>7. Cardinality(Tickets(i)) \in Nat
    BY TicketsFinite
  <2> QED
    BY <1>3, <2>1, <2>3, <2>4, <2>5, <2>6, <2>7
<1> QED
  BY <1>6, <1>7

\* The inductive invariant behind DrawsCounted.
CountInv == QueueInv /\ PendingDrawsCounted

\* The counter is zero only when nobody waits.
LEMMA NoneDueNoneWaiting ==
    ASSUME CountInv, pending_draws = 0
    PROVE  PendingSeeds = {}
<1>1. QueueInv /\ TypeOK /\ Cardinality(Tickets(next_index)) = 0
  BY DEF CountInv, QueueInv, PendingDrawsCounted
<1>2. Tickets(next_index) = {}
  BY <1>1, TicketsFinite, FS_EmptySet
<1>3. ASSUME NEW s \in PendingSeeds PROVE FALSE
  <2>1. pulls[s].index <= next_index
    BY <1>1, QueueFacts, PendingNumbers
  <2>2. Block(s, pulls[s].count) \subseteq Tickets(next_index)
    BY <1>1, <2>1, TicketsOfPull
  <2>3. <<s, 1>> \in Block(s, pulls[s].count)
    BY <1>1, PendingNumbers, BoundAssumption DEF Block
  <2> QED
    BY <1>2, <2>2, <2>3
<1> QED
  BY <1>3

\* The empty ledger has no tickets.
LEMMA CountInit == Init => PendingDrawsCounted
<1> SUFFICES ASSUME Init PROVE PendingDrawsCounted
  OBVIOUS
<1>1. PendingSeeds = {}
  BY DEF Init, PendingSeeds, IsPending
<1>2. Tickets(next_index) = {}
  BY <1>1 DEF Tickets
<1> QED
  BY <1>2, FS_EmptySet DEF Init, PendingDrawsCounted

\* Every step keeps the counter equal to the number of tickets.
LEMMA CountNext == CountInv /\ [Next]_vars => PendingDrawsCounted'
<1> SUFFICES ASSUME QueueInv, PendingDrawsCounted, [Next]_vars
             PROVE  PendingDrawsCounted'
  BY DEF CountInv
<1>1. TypeOK /\ TypeOK' /\ Advance
  BY TypeNext, StepAdvances DEF QueueInv
<1>2. pending_draws = Cardinality(Tickets(next_index)) /\ pending_draws \in Nat
  BY <1>1 DEF PendingDrawsCounted, TypeOK
<1>3. CASE QueueKept
  <2>1. PendingSeeds' = PendingSeeds /\ \A s \in PendingSeeds : pulls'[s] = pulls[s]
    BY <1>1, <1>3, KeptOrder
  <2>2. pending_draws' = pending_draws /\ next_index' = next_index
    BY <1>3 DEF QueueKept, queue
  <2>3. Tickets(next_index)' = Tickets(next_index)
    BY <2>1, <2>2 DEF Tickets
  <2> QED
    BY <1>2, <2>2, <2>3 DEF PendingDrawsCounted
<1>4. ASSUME NEW h \in Seeds, HeadLeaves(h) PROVE PendingDrawsCounted'
  <2>1. /\ PendingSeeds' = PendingSeeds \ {h} /\ h \in PendingSeeds
        /\ \A s \in PendingSeeds \ {h} : pulls'[s] = pulls[s]
    BY <1>1, <1>4, HeadLeavesOrder
  <2>2. pending_draws' = pending_draws - pulls[h].count /\ next_index' = next_index
    BY <1>4 DEF HeadLeaves, Release, CanRelease
  <2>3. pulls[h].index <= next_index
    <3>1. pulls[h].index < next_index /\ pulls[h].index \in Nat /\ next_index \in Nat
      BY <1>1, <2>1, QueueFacts, PendingNumbers
    <3> QED
      BY <3>1
  <2>4. \A i : pulls[h].index <= i =>
          Cardinality(Tickets(i)') = Cardinality(Tickets(i)) - pulls[h].count
    BY <1>1, <2>1, HeadLeavesTickets
  <2> QED
    BY <1>2, <2>2, <2>3, <2>4 DEF PendingDrawsCounted
<1>5. ASSUME NEW s \in Seeds, NEW n \in 1 .. MaxCount, Joins(s, n)
      PROVE  PendingDrawsCounted'
  <2>1. pending_draws' = pending_draws + n /\ next_index' = next_index + 1
    BY <1>5 DEF Joins
  <2> QED
    BY <1>1, <1>2, <1>5, <2>1, JoinsTickets, QueueFacts DEF PendingDrawsCounted
<1> QED
  BY <1>1, <1>3, <1>4, <1>5, StepKinds

\* In every reachable state the reservation counter of the pool is the sum of
\* the counts of the pending pulls: releasing the head never underflows it.
THEOREM DrawsCounted == Spec => []PendingDrawsCounted
<1>1. Init => CountInv
  BY QueueInit, CountInit DEF CountInv
<1>2. CountInv /\ [Next]_vars => CountInv'
  BY QueueNext, CountNext DEF CountInv
<1>3. CountInv => PendingDrawsCounted
  BY DEF CountInv
<1> QED
  BY <1>1, <1>2, <1>3, PTL DEF Spec

-----------------------------------------------------------------------------
(* The three copies of the stock.                                          *)

USE DEF Tier, Position

Tagged(t) == {p \in Position : tags[p] = t + 1}

\* There is no stock before CreatePool.
AbsentHoldsNothing == status = "absent" => \A p \in Position : items[p] = NoItem

\* The inductive invariant behind StockInAgreement.
StockInv == TypeOK /\ AbsentSoldNothing /\ AbsentHoldsNothing /\ StockAgrees

\* The prizes of a tier are finitely many.
LEMMA TaggedFinite == \A t : IsFiniteSet(Tagged(t)) /\ Cardinality(Tagged(t)) \in Nat
<1> TAKE t
<1>1. IsFiniteSet(Position)
  BY FS_Interval, BoundAssumption
<1>2. IsFiniteSet(Tagged(t))
  BY <1>1, FS_Subset DEF Tagged
<1> QED
  BY <1>2, FS_CardinalityType

\* The empty ledger has no stock anywhere.
LEMMA StockInit == Init => StockInv
<1> SUFFICES ASSUME Init PROVE StockInv
  OBVIOUS
<1>1. TypeOK
  BY TypeInit
<1>2. \A t \in Tier : Tagged(t) = {}
  BY BoundAssumption DEF Init, Tagged
<1>3. \A t \in Tier : remaining[t] = Cardinality(Tagged(t))
  BY <1>2, FS_EmptySet DEF Init
<1>4. \A p \in Position : items[p] = NoItem /\ tags[p] = 0
  BY DEF Init
<1>5. \A s \in Seeds : pulls[s] = NoPull
  BY DEF Init
<1>6. StockAgrees
  BY <1>3, <1>4 DEF StockAgrees, Tagged
<1> QED
  BY <1>1, <1>4, <1>5, <1>6 DEF StockInv, AbsentSoldNothing, AbsentHoldsNothing

\* Appending a prize adds it to all three.
LEMMA RestockAgrees ==
    ASSUME StockInv, NEW a \in Assets, NEW t, CanRestock(t), Restock(a, t),
           terms' = terms
    PROVE  StockAgrees'
<1> DEFINE v == inventory_version
<1>1. TypeOK /\ StockAgrees
  BY DEF StockInv
<1>2. t \in Tier /\ t \in Tiers /\ v \in Position /\ v \in Nat /\ items[v] = NoItem
  BY <1>1, BoundAssumption DEF CanRestock, Tiers, TypeOK, NextPosition
<1>3. [tier |-> t, asset |-> a] \in Item /\ [tier |-> t, asset |-> a] # NoItem
  BY <1>2, NullAssumption DEF Item
<1>4. /\ v' = v + 1
      /\ items' = [items EXCEPT ![v] = [tier |-> t, asset |-> a]]
      /\ tags' = [tags EXCEPT ![v] = t + 1]
      /\ remaining' = [remaining EXCEPT ![t] = @ + 1]
  BY DEF Restock, NextPosition
<1>5. tags[v] = 0
  BY <1>1, <1>2 DEF StockAgrees
<1>6. ASSUME NEW u \in Tier PROVE remaining'[u] = Cardinality(Tagged(u)')
  <2>1. CASE u = t
    <3>1. Tagged(t)' = Tagged(t) \cup {v} /\ v \notin Tagged(t)
      BY <1>1, <1>2, <1>4, <1>5 DEF Tagged, TypeOK
    <3>2. Cardinality(Tagged(t) \cup {v}) = Cardinality(Tagged(t)) + 1
      BY <3>1, TaggedFinite, FS_AddElement
    <3>3. remaining'[t] = remaining[t] + 1 /\ remaining[t] = Cardinality(Tagged(t))
      BY <1>1, <1>2, <1>4 DEF StockAgrees, Tagged, TypeOK
    <3> QED
      BY <2>1, <3>1, <3>2, <3>3
  <2>2. CASE u # t
    <3>1. Tagged(u)' = Tagged(u)
      BY <1>1, <1>2, <1>4, <1>5, <2>2 DEF Tagged, TypeOK
    <3>2. remaining'[u] = remaining[u] /\ remaining[u] = Cardinality(Tagged(u))
      BY <1>1, <1>4, <2>2 DEF StockAgrees, Tagged, TypeOK
    <3> QED
      BY <3>1, <3>2
  <2> QED
    BY <2>1, <2>2
<1>7. ASSUME NEW p \in Position
      PROVE  /\ items'[p] = NoItem <=> tags'[p] = 0
             /\ items'[p] # NoItem => /\ tags'[p] = items'[p].tier + 1
                                      /\ items'[p].tier \in Tiers'
                                      /\ p < v'
  <2>1. Tiers' = Tiers
    BY DEF Tiers
  <2>2. CASE p = v
    <3>1. items'[v] = [tier |-> t, asset |-> a] /\ tags'[v] = t + 1
      BY <1>1, <1>2, <1>4 DEF TypeOK
    <3>2. tags'[v] # 0 /\ v < v'
      BY <1>2, <1>4, <3>1
    <3> QED
      BY <1>2, <1>3, <2>1, <2>2, <3>1, <3>2
  <2>3. CASE p # v
    <3>1. items'[p] = items[p] /\ tags'[p] = tags[p]
      BY <1>1, <1>4, <2>3 DEF TypeOK
    <3>2. p < v => p < v'
      BY <1>2, <1>4
    <3> QED
      BY <1>1, <2>1, <3>1, <3>2 DEF StockAgrees
  <2> QED
    BY <2>2, <2>3
<1> QED
  BY <1>6, <1>7 DEF StockAgrees, Tagged

\* A settlement takes its draws out of all three.
LEMMA AwardAgrees ==
    ASSUME StockInv, TypeOK', NEW s \in Seeds, NEW d \in Draws(s), Award(s, d),
           UNCHANGED <<terms, inventory_version>>
    PROVE  StockAgrees'
<1>1. TypeOK /\ StockAgrees
  BY DEF StockInv
<1>2. ASSUME NEW t \in Tier PROVE remaining'[t] = Cardinality(Tagged(t)')
  <2>1. Tagged(t)' = Tagged(t) \ DrawnOf(s, d, t)
    BY DEF Award, CanAward, Won, Tagged, DrawnOf
  <2>2. DrawnOf(s, d, t) \subseteq Tagged(t)
    BY DEF Draws, Candidates, Available, Drawn, DrawnOf, Tagged
  <2>3. Cardinality(Tagged(t) \ DrawnOf(s, d, t))
          = Cardinality(Tagged(t)) - Cardinality(Tagged(t) \cap DrawnOf(s, d, t))
    BY TaggedFinite, FS_Difference
  <2>4. Tagged(t) \cap DrawnOf(s, d, t) = DrawnOf(s, d, t)
    BY <2>2
  <2>5. remaining'[t] = remaining[t] - Cardinality(DrawnOf(s, d, t))
    BY DEF Award, CanAward, Won
  <2>6. remaining[t] = Cardinality(Tagged(t))
    BY <1>1 DEF StockAgrees, Tagged
  <2> QED
    BY <2>1, <2>3, <2>4, <2>5, <2>6
<1>3. ASSUME NEW p \in Position
      PROVE  /\ items'[p] = NoItem <=> tags'[p] = 0
             /\ items'[p] # NoItem => /\ tags'[p] = items'[p].tier + 1
                                      /\ items'[p].tier \in Tiers'
                                      /\ p < inventory_version'
  <2>1. Tiers' = Tiers
    BY DEF Tiers
  <2>2. IF p \in Drawn(s, d) THEN items'[p] = NoItem /\ tags'[p] = 0
        ELSE items'[p] = items[p] /\ tags'[p] = tags[p]
    BY DEF Award, CanAward, Won, ItemsAfter
  <2> QED
    BY <1>1, <2>1, <2>2 DEF StockAgrees
<1> QED
  BY <1>2, <1>3 DEF StockAgrees, Tagged

\* Reclaiming takes one prize out of all three.
LEMMA ReclaimAgrees ==
    ASSUME StockInv, NEW p \in Position, Reclaim(p)
    PROVE  StockAgrees'
<1>1. TypeOK /\ StockAgrees
  BY DEF StockInv
<1>2. /\ items[p] # NoItem /\ items[p].tier \in Tiers
      /\ tags[p] = items[p].tier + 1
      /\ tags' = [tags EXCEPT ![p] = 0]
      /\ remaining' = [remaining EXCEPT ![items[p].tier] = @ - 1]
      /\ items' = [items EXCEPT ![p] = NoItem]
      /\ terms' = terms /\ inventory_version' = inventory_version
  BY DEF Reclaim, CanReclaim, TagMatches
<1>3. PICK t \in Tier : t = items[p].tier
  BY <1>2 DEF Tiers
<1>4. \A q \in Position : /\ tags'[q] = IF q = p THEN 0 ELSE tags[q]
                          /\ items'[q] = IF q = p THEN NoItem ELSE items[q]
  BY <1>1, <1>2 DEF TypeOK
<1>5. \A u \in Tier : remaining'[u] = IF u = t THEN remaining[u] - 1 ELSE remaining[u]
  BY <1>1, <1>2, <1>3 DEF TypeOK
<1>6. t + 1 # 0 /\ \A u \in Tier : u + 1 # 0 /\ (u + 1 = t + 1 => u = t)
  BY BoundAssumption
<1>7. ASSUME NEW u \in Tier PROVE remaining'[u] = Cardinality(Tagged(u)')
  <2>1. remaining[u] = Cardinality(Tagged(u))
    BY <1>1 DEF StockAgrees, Tagged
  <2>2. CASE u = t
    <3>1. p \in Tagged(u) /\ Tagged(u)' = Tagged(u) \ {p}
      BY <1>2, <1>3, <1>4, <1>6, <2>2 DEF Tagged
    <3>2. Cardinality(Tagged(u) \ {p}) = Cardinality(Tagged(u)) - 1
      BY <3>1, TaggedFinite, FS_RemoveElement
    <3> QED
      BY <1>5, <2>1, <2>2, <3>1, <3>2
  <2>3. CASE u # t
    <3>1. Tagged(u)' = Tagged(u)
      BY <1>2, <1>3, <1>4, <1>6, <2>3 DEF Tagged
    <3> QED
      BY <1>5, <2>1, <2>3, <3>1
  <2> QED
    BY <2>2, <2>3
<1>8. ASSUME NEW q \in Position
      PROVE  /\ items'[q] = NoItem <=> tags'[q] = 0
             /\ items'[q] # NoItem => /\ tags'[q] = items'[q].tier + 1
                                      /\ items'[q].tier \in Tiers'
                                      /\ q < inventory_version'
  <2>1. Tiers' = Tiers
    BY <1>2 DEF Tiers
  <2> QED
    BY <1>1, <1>2, <1>4, <2>1 DEF StockAgrees
<1> QED
  BY <1>7, <1>8 DEF StockAgrees, Tagged

\* Every step keeps the three in agreement.
LEMMA StockNext == StockInv /\ [Next]_vars => StockInv'
<1> SUFFICES ASSUME StockInv, [Next]_vars PROVE StockInv'
  OBVIOUS
<1>0. TypeOK /\ TypeOK' /\ AbsentSoldNothing /\ AbsentHoldsNothing /\ StockAgrees
  BY TypeNext DEF StockInv
<1>1. Advance
  BY <1>0, StepAdvances
<1>2. AbsentSoldNothing'
  BY <1>0, <1>1 DEF Advance, AbsentSoldNothing
<1> DEFINE Goal == AbsentHoldsNothing' /\ StockAgrees'
<1>a. ASSUME UNCHANGED <<stock, terms, status>> PROVE Goal
  <2>1. \A t \in Tier : Tiers' = Tiers /\ Tagged(t)' = Tagged(t)
    BY <1>a DEF stock, Tiers, Tagged
  <2>2. UNCHANGED <<inventory_version, remaining, tags, items>>
    BY <1>a DEF stock
  <2>3. StockAgrees'
    BY <1>0, <1>a, <2>2 DEF StockAgrees, Tiers
  <2> QED
    BY <1>0, <1>a, <2>2, <2>3 DEF AbsentHoldsNothing
<1>3. ASSUME NEW t \in Terms, CreatePool(t) PROVE Goal
  <2>1. UNCHANGED <<inventory_version, remaining, tags, items>> /\ status' # "absent"
    BY <1>3 DEF CreatePool, CanCreatePool, stock
  <2>2. \A p \in Position : items[p] = NoItem
    BY <1>0, <1>3 DEF CreatePool, CanCreatePool, AbsentHoldsNothing
  <2> QED
    BY <1>0, <2>1, <2>2 DEF AbsentHoldsNothing, StockAgrees
<1>4. ASSUME NEW x \in {"paused", "active", "retired"}, SetStatus(x) PROVE Goal
  <2>1. UNCHANGED <<inventory_version, remaining, tags, items, terms>>
    BY <1>4 DEF SetStatus, CanSetStatus, stock
  <2>2. StockAgrees'
    BY <1>0, <2>1 DEF StockAgrees, Tiers
  <2> QED
    BY <1>4, <2>2 DEF SetStatus, CanSetStatus, AbsentHoldsNothing
<1>5. ASSUME NEW a \in Assets, NEW t \in 0 .. MaxTiers, DepositItem(a, t) PROVE Goal
  <2>1. /\ CanRestock(t) /\ Restock(a, t)
        /\ terms' = terms /\ status' = status /\ status # "absent"
    BY <1>5 DEF DepositItem, CanDepositItem
  <2> QED
    BY <2>1, RestockAgrees DEF AbsentHoldsNothing
<1>6. ASSUME NEW n \in Amounts, Withdraw(n) PROVE Goal
  BY <1>6, <1>a DEF Withdraw, CanWithdraw
<1>7. ASSUME NEW p \in Position, Reclaim(p) PROVE Goal
  <2>1. status' # "absent"
    BY <1>7 DEF Reclaim, CanReclaim
  <2> QED
    BY <1>7, <2>1, ReclaimAgrees DEF AbsentHoldsNothing
<1>8. ASSUME NEW s \in Seeds, NEW b \in Wallets, NEW n \in 1 .. MaxCount,
             NEW v \in 0 .. inventory_version, Buy(s, b, n, v)
      PROVE  Goal
  BY <1>8, <1>a DEF Buy, CanBuy
<1>9. ASSUME NEW s \in Seeds, Refund(s) PROVE Goal
  BY <1>9, <1>a DEF Refund, CanRefund
<1>10. ASSUME NEW q \in Quotes, NEW w \in Wallets, Buyback(q, w) PROVE Goal
  <2>1. /\ CanRestock(q.tier) /\ Restock(q.asset, q.tier)
        /\ terms' = terms /\ status' = status /\ status # "absent"
    BY <1>10 DEF Buyback, CanBuyback
  <2>2. q.asset \in Assets
    BY InputAssumption DEF Quote
  <2> QED
    BY <2>1, <2>2, RestockAgrees DEF AbsentHoldsNothing
<1>11. ASSUME NEW s \in Seeds, Settle(s) PROVE Goal
  <2>1. PICK d \in Draws(s) : Award(s, d)
    BY <1>11 DEF Settle, CanSettle
  <2>2. /\ UNCHANGED <<terms, inventory_version>> /\ status' = status
        /\ IsPending(s)
    BY <1>11 DEF Settle, CanSettle, IsHead
  <2>3. status # "absent"
    BY <1>0, <2>2 DEF AbsentSoldNothing, IsPending
  <2> QED
    BY <1>0, <2>1, <2>2, <2>3, AwardAgrees DEF AbsentHoldsNothing
<1>12. ASSUME NEW s \in Seeds, NEW i \in 1 .. MaxCount, Deliver(s, i) PROVE Goal
  BY <1>12, <1>a DEF Deliver, CanDeliver
<1>13. ASSUME NEW n \in Amounts, Fund(n) PROVE Goal
  BY <1>13, <1>a DEF Fund
<1>14. ASSUME NEW a \in Assets, NEW w \in Wallets, NEW o \in Wallets \cup {Pool},
              TransferAsset(a, w, o)
       PROVE  Goal
  BY <1>14, <1>a DEF TransferAsset
<1>15. ASSUME Tick PROVE Goal
  BY <1>15, <1>a DEF Tick
<1>16. ASSUME UNCHANGED vars PROVE Goal
  BY <1>16, <1>a DEF vars
<1>17. Goal
  BY <1>3, <1>4, <1>5, <1>6, <1>7, <1>8, <1>9, <1>10, <1>11, <1>12, <1>13, <1>14,
     <1>15, <1>16 DEF Next
<1> QED
  BY <1>0, <1>2, <1>17 DEF StockInv

\* In every reachable state the header's counts, the availability index and the
\* Item accounts describe the same stock.
THEOREM StockInAgreement == Spec => []StockAgrees
<1>1. StockInv => StockAgrees
  BY DEF StockInv
<1> QED
  BY <1>1, StockInit, StockNext, PTL DEF Spec

-----------------------------------------------------------------------------
(* The prizes of a prefix.                                                 *)

\* A prefix holds finitely many prizes.
LEMMA AvailableFinite ==
    ASSUME NEW v
    PROVE  IsFiniteSet(Available(v)) /\ Cardinality(Available(v)) \in Nat
<1>1. IsFiniteSet(Position)
  BY FS_Interval, BoundAssumption
<1>2. Available(v) \in SUBSET Position
  BY DEF Available
<1>3. IsFiniteSet(Available(v))
  BY <1>1, <1>2, FS_Subset
<1> QED
  BY <1>3, FS_CardinalityType

\* The header promises as many prizes as the index holds.
LEMMA TotalIsAvailable ==
    ASSUME StockInv
    PROVE  /\ TotalRemaining \in Nat
           /\ TotalRemaining = Cardinality(Available(inventory_version))
<1> DEFINE slots == UNION {{t} \X (1 .. remaining[t]) : t \in Tiers}
           number(t) == CHOOSE f : f \in Bijection(1 .. remaining[t], Tagged(t))
           g == [w \in slots |-> number(w[1])[w[2]]]
<1>1. TypeOK /\ StockAgrees
  BY DEF StockInv
<1>2. ASSUME NEW t \in Tier
      PROVE  number(t) \in Bijection(1 .. remaining[t], Tagged(t))
  <2>1. remaining[t] = Cardinality(Tagged(t))
    BY <1>1 DEF StockAgrees, Tagged
  <2>2. ExistsBijection(1 .. remaining[t], Tagged(t))
    BY <2>1, TaggedFinite, FS_CardinalityType
  <2> QED
    BY <2>2 DEF ExistsBijection
<1>3. ASSUME NEW w \in slots
      PROVE  w[1] \in Tier /\ w[2] \in 1 .. remaining[w[1]] /\ w = <<w[1], w[2]>>
  <2>1. PICK t \in Tiers : w \in {t} \X (1 .. remaining[t])
    OBVIOUS
  <2> QED
    BY <2>1 DEF Tiers
<1>4. ASSUME NEW w \in slots PROVE g[w] \in Tagged(w[1])
  <2>1. number(w[1]) \in [1 .. remaining[w[1]] -> Tagged(w[1])]
    BY <1>2, <1>3 DEF Bijection, Injection, IsInjective
  <2>2. number(w[1])[w[2]] \in Tagged(w[1])
    BY <1>3, <2>1
  <2> QED
    BY <2>2
<1>5. ASSUME NEW w \in slots PROVE g[w] \in Available(inventory_version)
  <2>1. g[w] \in Position /\ tags[g[w]] = w[1] + 1
    BY <1>4 DEF Tagged
  <2>2. tags[g[w]] # 0
    BY <1>3, <2>1
  <2>3. g[w] < inventory_version
    BY <1>1, <2>1, <2>2 DEF StockAgrees
  <2> QED
    BY <2>1, <2>2, <2>3 DEF Available
<1>6. ASSUME NEW w \in slots, NEW x \in slots, g[w] = g[x] PROVE w = x
  <2>1. w[1] + 1 = x[1] + 1
    BY <1>4, <1>6 DEF Tagged
  <2>2. w[1] = x[1]
    BY <1>3, <2>1
  <2>3. number(w[1])[w[2]] = number(w[1])[x[2]]
    BY <1>6, <2>2
  <2>4. w[2] = x[2]
    <3> HIDE DEF number, slots
    <3>1. number(w[1]) \in Bijection(1 .. remaining[w[1]], Tagged(w[1]))
      BY <1>2, <1>3
    <3>2. w[2] \in 1 .. remaining[w[1]] /\ x[2] \in 1 .. remaining[w[1]]
      BY <1>3, <2>2
    <3> QED
      BY <2>3, <3>1, <3>2 DEF Bijection, Injection, IsInjective
  <2> QED
    BY <1>3, <2>2, <2>4
<1>7. g \in Injection(slots, Available(inventory_version))
  <2>1. g \in [slots -> Available(inventory_version)]
    BY <1>5
  <2>2. \A w, x \in slots : g[w] = g[x] => w = x
    BY <1>6
  <2> HIDE DEF g, slots
  <2> QED
    BY <2>1, <2>2 DEF Injection, IsInjective
<1>8. ASSUME NEW p \in Available(inventory_version)
      PROVE  \E w \in slots : g[w] = p
  <2>1. PICK t \in Tiers : p \in Tagged(t)
    <3>1. p \in Position /\ tags[p] # 0
      BY DEF Available
    <3>2. items[p] # NoItem /\ tags[p] = items[p].tier + 1 /\ items[p].tier \in Tiers
      BY <1>1, <3>1 DEF StockAgrees
    <3> QED
      BY <3>1, <3>2 DEF Tagged
  <2>2. t \in Tier
    BY DEF Tiers
  <2>3. PICK k \in 1 .. remaining[t] : number(t)[k] = p
    <3> HIDE DEF number
    <3>1. number(t) \in Surjection(1 .. remaining[t], Tagged(t))
      BY <1>2, <2>2 DEF Bijection
    <3> QED
      BY <2>1, <3>1 DEF Surjection
  <2>4. <<t, k>> \in slots
    OBVIOUS
  <2>5. g[<<t, k>>] = number(t)[k]
    BY <2>4
  <2> QED
    BY <2>3, <2>4, <2>5
<1>9. g \in Bijection(slots, Available(inventory_version))
  <2>1. g \in [slots -> Available(inventory_version)]
    BY <1>5
  <2> HIDE DEF g, slots
  <2> QED
    BY <1>7, <1>8, <2>1 DEF Bijection, Surjection
<1>10. /\ Cardinality(slots) \in Nat
       /\ Cardinality(slots) = Cardinality(Available(inventory_version))
  <2> HIDE DEF g, slots
  <2>1. ExistsBijection(slots, Available(inventory_version))
    BY <1>9 DEF ExistsBijection
  <2>2. IsFiniteSet(slots)
    BY <1>7, AvailableFinite, FS_Injection
  <2> QED
    BY <2>1, <2>2, AvailableFinite, FS_Bijection, FS_CardinalityType
<1> QED
  BY <1>10 DEF TotalRemaining

\* A settlement draws at most one prize per draw of the pull.
LEMMA DrawnSize ==
    ASSUME TypeOK, NEW s \in PendingSeeds, NEW d \in Draws(s)
    PROVE  /\ IsFiniteSet(Drawn(s, d))
           /\ Cardinality(Drawn(s, d)) \in Nat
           /\ Cardinality(Drawn(s, d)) <= pulls[s].count
<1>1. PICK n \in Nat : n = pulls[s].count
  BY PendingNumbers
<1>2. IsFiniteSet(1 .. n) /\ Cardinality(1 .. n) = n
  <2>1. 1 \in Int /\ n \in Int /\ (IF 1 > n THEN 0 ELSE n - 1 + 1) = n
    OBVIOUS
  <2> QED
    BY <2>1, FS_Interval
<1>3. d \in [1 .. n -> Drawn(s, d)]
  BY <1>1 DEF Draws, Drawn
<1>4. d \in Surjection(1 .. n, Drawn(s, d))
  BY <1>1, <1>3 DEF Surjection, Drawn
<1>5. IsFiniteSet(Drawn(s, d)) /\ Cardinality(Drawn(s, d)) <= Cardinality(1 .. n)
  BY <1>2, <1>4, FS_Surjection
<1> QED
  BY <1>1, <1>2, <1>5, FS_CardinalityType

-----------------------------------------------------------------------------
(* The reservation.                                                        *)

\* Of the prizes below the present version, exactly those in gone are taken,
\* and none is added.
PrefixLoses(gone) ==
    \A p \in Position :
      p < inventory_version => tags'[p] = IF p \in gone THEN 0 ELSE tags[p]

\* The inductive invariant behind PrizesReserved.
ReserveInv == CountInv /\ StockInv /\ ReservedPrefix

\* Nothing is reserved in the empty ledger.
LEMMA ReserveInit == Init => ReserveInv
<1> SUFFICES ASSUME Init PROVE ReserveInv
  OBVIOUS
<1>1. PendingSeeds = {}
  BY DEF Init, PendingSeeds, IsPending
<1>2. ReservedPrefix
  BY <1>1 DEF ReservedPrefix
<1> QED
  BY <1>2, QueueInit, CountInit, StockInit DEF ReserveInv, CountInv

\* Appending a prize leaves every earlier position alone.
LEMMA RestockKeepsPrefix ==
    ASSUME TypeOK, NEW a, NEW t, CanRestock(t), Restock(a, t)
    PROVE  PrefixLoses({})
<1>1. inventory_version \in Nat
  BY BoundAssumption DEF TypeOK
<1>2. tags' = [tags EXCEPT ![inventory_version] = t + 1]
  BY DEF Restock, NextPosition
<1> QED
  BY <1>1, <1>2 DEF PrefixLoses, TypeOK

\* The prefix of a pending pull loses what is taken and gains nothing.
LEMMA PinnedPrefixLoses ==
    ASSUME QueueInv, NEW gone, PrefixLoses(gone), NEW s \in PendingSeeds,
           pulls'[s] = pulls[s]
    PROVE  Available(pulls[s].inventory_version)'
             = Available(pulls[s].inventory_version) \ gone
<1>1. pulls[s].inventory_version <= inventory_version
  BY DEF QueueInv, FIFOQueue
<1>2. pulls[s].inventory_version \in Nat /\ inventory_version \in Nat
  BY PendingNumbers, BoundAssumption DEF QueueInv, TypeOK
<1>3. ASSUME NEW p \in Position, p < pulls[s].inventory_version
      PROVE  tags'[p] = IF p \in gone THEN 0 ELSE tags[p]
  BY <1>1, <1>2, <1>3, BoundAssumption DEF PrefixLoses
<1> QED
  BY <1>3 DEF Available

\* Nothing is taken from a prefix and nothing is added to the claims on it.
LEMMA KeptReserve ==
    ASSUME ReserveInv, TypeOK', Advance, QueueKept, PrefixLoses({})
    PROVE  ReservedPrefix'
<1>1. /\ PendingSeeds' = PendingSeeds
      /\ \A s \in PendingSeeds : pulls'[s] = pulls[s]
  BY KeptOrder DEF ReserveInv, CountInv
<1>2. ASSUME NEW s \in PendingSeeds
      PROVE  /\ Tickets(pulls[s].index)' = Tickets(pulls[s].index)
             /\ Available(pulls[s].inventory_version)'
                  = Available(pulls[s].inventory_version)
  <2>1. pulls'[s] = pulls[s]
    BY <1>1
  <2>2. Tickets(pulls[s].index)' = Tickets(pulls[s].index)
    BY <1>1, <2>1 DEF Tickets
  <2> QED
    BY <2>1, <2>2, PinnedPrefixLoses DEF ReserveInv, CountInv
<1> QED
  BY <1>1, <1>2 DEF ReserveInv, ReservedPrefix

\* When the head leaves, each claim shrinks by its draws, and each prefix by no
\* more prizes than that.
LEMMA HeadLeavesReserve ==
    ASSUME ReserveInv, TypeOK', Advance, NEW h \in Seeds, HeadLeaves(h),
           NEW gone, PrefixLoses(gone), IsFiniteSet(gone),
           Cardinality(gone) <= pulls[h].count
    PROVE  ReservedPrefix'
<1>1. QueueInv /\ TypeOK
  BY DEF ReserveInv, CountInv, QueueInv
<1>2. /\ PendingSeeds' = PendingSeeds \ {h}
      /\ \A s \in PendingSeeds \ {h} : pulls'[s] = pulls[s]
      /\ h \in PendingSeeds /\ pulls[h].index = next_settle
  BY <1>1, HeadLeavesOrder
<1>3. ASSUME NEW s \in PendingSeeds \ {h}
      PROVE  Cardinality(Tickets(pulls[s].index)')
               <= Cardinality(Available(pulls[s].inventory_version)')
  <2> DEFINE i == pulls[s].index
             A == Available(pulls[s].inventory_version)
  <2>1. pulls[h].index <= i
    BY <1>1, <1>2, QueueFacts
  <2>2. Cardinality(Tickets(i)') = Cardinality(Tickets(i)) - pulls[h].count
    <3>1. \A j : pulls[h].index <= j =>
            Cardinality(Tickets(j)') = Cardinality(Tickets(j)) - pulls[h].count
      BY <1>1, <1>2, HeadLeavesTickets
    <3>2. pulls'[s].index = i
      BY <1>2
    <3>3. Tickets(i)' = {w \in PendingSeeds' \X (1 .. MaxCount) :
                           w[2] <= pulls'[w[1]].count /\ pulls'[w[1]].index <= i}
      BY <3>2 DEF Tickets
    <3> QED
      BY <2>1, <3>1, <3>3 DEF Tickets
  <2>3. Available(pulls[s].inventory_version)' = A \ gone
    BY <1>1, <1>2, PinnedPrefixLoses
  <2>4. Cardinality(A \ gone) = Cardinality(A) - Cardinality(A \cap gone)
    BY AvailableFinite, FS_Difference
  <2>5. Cardinality(A \cap gone) <= Cardinality(gone)
    BY FS_Intersection
  <2>6. Cardinality(Tickets(i)) <= Cardinality(A)
    BY DEF ReserveInv, ReservedPrefix
  <2>7. /\ Cardinality(A) \in Nat /\ Cardinality(Tickets(i)) \in Nat
        /\ Cardinality(A \cap gone) \in Nat /\ Cardinality(gone) \in Nat
        /\ pulls[h].count \in Nat
    <3>1. IsFiniteSet(A \cap gone)
      BY FS_Intersection
    <3> QED
      BY <1>1, <1>2, <3>1, AvailableFinite, TicketsFinite, FS_CardinalityType,
         PendingNumbers
  <2> QED
    BY <2>2, <2>3, <2>4, <2>5, <2>6, <2>7
<1> QED
  BY <1>2, <1>3 DEF ReservedPrefix

\* A purchase claims no prize of an older prefix, and the stock covers it
\* together with every older claim.
LEMMA JoinsReserve ==
    ASSUME ReserveInv, TypeOK', NEW s \in Seeds, NEW n \in 1 .. MaxCount,
           Joins(s, n), InStock(n), tags' = tags
    PROVE  ReservedPrefix'
<1>1. QueueInv /\ TypeOK /\ StockInv
  BY DEF ReserveInv, CountInv, QueueInv
<1>2. /\ PendingSeeds' = PendingSeeds \cup {s}
      /\ \A r \in PendingSeeds : pulls'[r] = pulls[r]
  BY <1>1, JoinsOrder
<1>3. /\ pulls'[s].index = next_index
      /\ pulls'[s].inventory_version = inventory_version
  BY DEF Joins
<1>4. \A i \in Nat :
        /\ i < next_index => Tickets(i)' = Tickets(i)
        /\ next_index <= i =>
             Cardinality(Tickets(i)') = Cardinality(Tickets(next_index)) + n
  BY <1>1, JoinsTickets
<1>5. ASSUME NEW r \in PendingSeeds
      PROVE  Cardinality(Tickets(pulls[r].index)')
               <= Cardinality(Available(pulls[r].inventory_version)')
  <2>1. PICK i \in Nat : i = pulls[r].index
    BY <1>1, PendingNumbers
  <2>2. pulls'[r].index = i
    BY <1>2, <2>1
  <2>3. Tickets(i)' = Tickets(i)
    BY <1>1, <1>4, <2>1, QueueFacts
  <2>4. Tickets(pulls[r].index)' = Tickets(pulls[r].index)
    BY <2>1, <2>2, <2>3 DEF Tickets
  <2>5. Available(pulls[r].inventory_version)' = Available(pulls[r].inventory_version)
    BY <1>2 DEF Available
  <2> QED
    BY <2>4, <2>5 DEF ReserveInv, ReservedPrefix
<1>6. Cardinality(Tickets(pulls[s].index)')
        <= Cardinality(Available(pulls[s].inventory_version)')
  <2>1. PICK i \in Nat : i = next_index
    BY <1>1, QueueFacts
  <2>2. Cardinality(Tickets(i)') = pending_draws + n
    BY <1>4, <2>1 DEF ReserveInv, CountInv, PendingDrawsCounted
  <2>3. Tickets(pulls[s].index)' = Tickets(i)'
    BY <1>3, <2>1 DEF Tickets
  <2>4. pending_draws + n <= TotalRemaining
    BY DEF InStock
  <2>5. TotalRemaining <= Cardinality(Available(inventory_version))
    BY <1>1, TotalIsAvailable
  <2>6. Available(pulls[s].inventory_version)' = Available(inventory_version)
    BY <1>3 DEF Available
  <2>7. /\ pending_draws + n \in Int /\ TotalRemaining \in Int
        /\ Cardinality(Available(inventory_version)) \in Int
    BY <1>1, TotalIsAvailable, AvailableFinite DEF TypeOK
  <2> QED
    BY <2>2, <2>3, <2>4, <2>5, <2>6, <2>7
<1> QED
  BY <1>2, <1>5, <1>6 DEF ReservedPrefix

\* Every step keeps the reservation.
LEMMA ReserveNext == ReserveInv /\ [Next]_vars => ReserveInv'
<1> SUFFICES ASSUME ReserveInv, [Next]_vars PROVE ReserveInv'
  OBVIOUS
<1>0. /\ TypeOK /\ TypeOK' /\ QueueInv /\ CountInv /\ StockInv /\ Advance
  BY TypeNext, StepAdvances DEF ReserveInv, CountInv, QueueInv
<1> DEFINE Goal == ReservedPrefix'
<1>a. ASSUME UNCHANGED <<queue, pulls, tags>> PROVE Goal
  BY <1>0, <1>a, KeptReserve DEF QueueKept, PrefixLoses
<1>1. ASSUME NEW t \in Terms, CreatePool(t) PROVE Goal
  BY <1>1, <1>a DEF CreatePool, CanCreatePool, stock
<1>2. ASSUME NEW x \in {"paused", "active", "retired"}, SetStatus(x) PROVE Goal
  BY <1>2, <1>a DEF SetStatus, CanSetStatus, stock
<1>3. ASSUME NEW a \in Assets, NEW t \in 0 .. MaxTiers, DepositItem(a, t) PROVE Goal
  <2>1. QueueKept
    BY <1>3 DEF DepositItem, CanDepositItem, QueueKept
  <2>2. PrefixLoses({})
    BY <1>0, <1>3, RestockKeepsPrefix DEF DepositItem, CanDepositItem
  <2> QED
    BY <1>0, <2>1, <2>2, KeptReserve
<1>4. ASSUME NEW n \in Amounts, Withdraw(n) PROVE Goal
  BY <1>4, <1>a DEF Withdraw, CanWithdraw, stock
<1>5. ASSUME NEW p \in Position, Reclaim(p) PROVE Goal
  <2>1. PendingSeeds = {}
    BY <1>0, <1>5, NoneDueNoneWaiting DEF Reclaim, CanReclaim
  <2>2. PendingSeeds' = PendingSeeds
    BY <1>5 DEF Reclaim, CanReclaim, PendingSeeds, IsPending
  <2> QED
    BY <2>1, <2>2 DEF ReservedPrefix
<1>6. ASSUME NEW s \in Seeds, NEW b \in Wallets, NEW n \in 1 .. MaxCount,
             NEW v \in 0 .. inventory_version, Buy(s, b, n, v)
      PROVE  Goal
  <2>1. Joins(s, n)
    BY <1>0, <1>6, BuyJoins
  <2>2. InStock(n) /\ tags' = tags
    BY <1>6 DEF Buy, CanBuy, stock
  <2> QED
    BY <1>0, <2>1, <2>2, JoinsReserve
<1>7. ASSUME NEW s \in Seeds, Refund(s) PROVE Goal
  <2>1. HeadLeaves(s)
    BY <1>0, <1>7, RefundLeaves
  <2>2. PrefixLoses({})
    BY <1>7 DEF Refund, CanRefund, stock, PrefixLoses
  <2>3. s \in PendingSeeds
    BY <2>1 DEF HeadLeaves, IsHead, PendingSeeds
  <2>4. IsFiniteSet({}) /\ Cardinality({}) <= pulls[s].count
    BY <1>0, <2>3, PendingNumbers, FS_EmptySet
  <2> QED
    BY <1>0, <2>1, <2>2, <2>4, HeadLeavesReserve
<1>8. ASSUME NEW q \in Quotes, NEW w \in Wallets, Buyback(q, w) PROVE Goal
  <2>1. QueueKept
    BY <1>8 DEF Buyback, CanBuyback, QueueKept
  <2>2. PrefixLoses({})
    BY <1>0, <1>8, RestockKeepsPrefix DEF Buyback, CanBuyback
  <2> QED
    BY <1>0, <2>1, <2>2, KeptReserve
<1>9. ASSUME NEW s \in Seeds, Settle(s) PROVE Goal
  <2>1. HeadLeaves(s)
    BY <1>0, <1>9, SettleLeaves
  <2>2. PICK d \in Draws(s) : Award(s, d)
    BY <1>9 DEF Settle, CanSettle
  <2>3. s \in PendingSeeds
    BY <2>1 DEF HeadLeaves, IsHead, PendingSeeds
  <2>4. PrefixLoses(Drawn(s, d))
    BY <2>2 DEF Award, CanAward, Won, PrefixLoses
  <2>5. IsFiniteSet(Drawn(s, d)) /\ Cardinality(Drawn(s, d)) <= pulls[s].count
    BY <1>0, <2>3, DrawnSize
  <2> QED
    BY <1>0, <2>1, <2>4, <2>5, HeadLeavesReserve
<1>10. ASSUME NEW s \in Seeds, NEW i \in 1 .. MaxCount, Deliver(s, i) PROVE Goal
  <2>1. QueueKept
    BY <1>0, <1>10, DeliverKeepsQueue
  <2>2. PrefixLoses({})
    BY <1>10 DEF Deliver, CanDeliver, stock, PrefixLoses
  <2> QED
    BY <1>0, <2>1, <2>2, KeptReserve
<1>11. ASSUME NEW n \in Amounts, Fund(n) PROVE Goal
  BY <1>11, <1>a DEF Fund, stock
<1>12. ASSUME NEW a \in Assets, NEW w \in Wallets, NEW o \in Wallets \cup {Pool},
              TransferAsset(a, w, o)
       PROVE  Goal
  BY <1>12, <1>a DEF TransferAsset, stock
<1>13. ASSUME Tick PROVE Goal
  BY <1>13, <1>a DEF Tick, stock
<1>14. ASSUME UNCHANGED vars PROVE Goal
  BY <1>14, <1>a DEF vars, stock
<1>15. ReservedPrefix'
  BY <1>1, <1>2, <1>3, <1>4, <1>5, <1>6, <1>7, <1>8, <1>9, <1>10, <1>11, <1>12,
     <1>13, <1>14 DEF Next
<1>16. QueueInv' /\ PendingDrawsCounted' /\ StockInv'
  BY <1>0, QueueNext, CountNext, StockNext
<1> QED
  BY <1>15, <1>16 DEF ReserveInv, CountInv

\* In every reachable state the prefix pinned by a pending purchase still holds
\* a prize for each of its draws after every older purchase has taken its own.
THEOREM PrizesReserved == Spec => []ReservedPrefix
<1>1. ReserveInv => ReservedPrefix
  BY DEF ReserveInv
<1> QED
  BY <1>1, ReserveInit, ReserveNext, PTL DEF Spec

-----------------------------------------------------------------------------
(* The purchase at the head can be resolved.                               *)

\* The inductive invariant of money and stock together.
PledgeInv == SolvencyInv /\ ReserveInv /\ TermsValid

\* It holds in the empty ledger and after every step.
LEMMA PledgeInductive ==
    /\ Init => PledgeInv
    /\ PledgeInv /\ [Next]_vars => PledgeInv'
<1>1. Init => PledgeInv
  BY TypeInit, SolvencyInit, ReserveInit DEF PledgeInv, SolvencyInv, TermsValid, Init
<1>2. PledgeInv /\ [Next]_vars => PledgeInv'
  BY TypeNext, SolvencyNext, ReserveNext, TermsNext DEF PledgeInv, SolvencyInv
<1> QED
  BY <1>1, <1>2

\* The pool counts at least the head's draws, and its prefix holds a prize for
\* each of them.
LEMMA HeadIsReserved ==
    ASSUME ReserveInv, NEW s \in PendingSeeds
    PROVE  /\ pulls[s].count <= pending_draws
           /\ pulls[s].count <= Cardinality(Available(pulls[s].inventory_version))
<1> DEFINE block == Block(s, pulls[s].count)
<1>1. QueueInv /\ TypeOK /\ pending_draws = Cardinality(Tickets(next_index))
  BY DEF ReserveInv, CountInv, QueueInv, PendingDrawsCounted
<1>2. PICK n \in Nat : n = pulls[s].count
  BY <1>1, PendingNumbers
<1>3. PICK i \in Nat : i = pulls[s].index
  BY <1>1, PendingNumbers
<1>4. i < next_index /\ next_index \in Nat
  BY <1>1, <1>3, QueueFacts
<1>5. block \subseteq Tickets(i) /\ block \subseteq Tickets(next_index)
  BY <1>1, <1>3, <1>4, TicketsOfPull
<1>6. IsFiniteSet(block) /\ Cardinality(block) = n
  BY <1>2, BlockSize
<1>7. Cardinality(block) <= Cardinality(Tickets(i))
      /\ Cardinality(block) <= Cardinality(Tickets(next_index))
  BY <1>5, TicketsFinite, FS_Subset
<1>8. Cardinality(Tickets(i)) <= Cardinality(Available(pulls[s].inventory_version))
  BY <1>3 DEF ReserveInv, ReservedPrefix
<1>9. /\ Cardinality(Tickets(i)) \in Nat /\ Cardinality(Tickets(next_index)) \in Nat
      /\ Cardinality(Available(pulls[s].inventory_version)) \in Nat
  BY TicketsFinite, AvailableFinite
<1> QED
  BY <1>1, <1>2, <1>6, <1>7, <1>8, <1>9

\* Every prize of the prefix can be drawn: no tag names a tier without weight.
LEMMA CandidatesAreAvailable ==
    ASSUME PledgeInv, NEW s \in PendingSeeds
    PROVE  Candidates(s) = Available(pulls[s].inventory_version)
<1>1. TypeOK /\ StockAgrees /\ AbsentSoldNothing /\ TermsValid
  BY DEF PledgeInv, ReserveInv, StockInv
<1>2. ValidTerms(terms)
  BY <1>1 DEF AbsentSoldNothing, TermsValid, PendingSeeds, IsPending
<1>3. ASSUME NEW p \in Available(pulls[s].inventory_version)
      PROVE  tags[p] - 1 \in Tiers /\ terms.weights[tags[p] - 1] # 0
  <2>1. p \in Position /\ tags[p] # 0
    BY DEF Available
  <2>2. tags[p] = items[p].tier + 1 /\ items[p].tier \in Tiers
    BY <1>1, <2>1 DEF StockAgrees
  <2>3. PICK t \in Tiers : t = items[p].tier
    BY <2>2
  <2>4. tags[p] - 1 = t /\ t \in Tier /\ t < terms.tier_count
    BY <2>2, <2>3 DEF Tiers
  <2> QED
    BY <1>2, <2>4 DEF ValidTerms
<1> QED
  BY <1>3 DEF Candidates

\* Whatever is drawn for a waiting purchase can be awarded.
LEMMA DrawsAward ==
    ASSUME PledgeInv, NEW s \in PendingSeeds, NEW d \in Draws(s)
    PROVE  CanAward(s, d)
<1> DEFINE A == Available(pulls[s].inventory_version)
<1>1. TypeOK /\ StockAgrees
  BY DEF PledgeInv, ReserveInv, StockInv
<1>2. Drawn(s, d) \subseteq A
  <2>1. d \in [1 .. pulls[s].count -> A]
    BY CandidatesAreAvailable DEF Draws
  <2> HIDE DEF A
  <2> QED
    BY <2>1 DEF Drawn
<1>3. ASSUME NEW p \in Drawn(s, d)
      PROVE  items[p] # NoItem /\ items[p].tier = tags[p] - 1
  <2>1. p \in Position /\ tags[p] # 0
    BY <1>2 DEF Available
  <2>2. /\ items[p] # NoItem /\ tags[p] = items[p].tier + 1
        /\ items[p].tier \in Tiers
    BY <1>1, <2>1 DEF StockAgrees
  <2>3. PICK t \in Tier : t = items[p].tier
    BY <2>2 DEF Tiers
  <2> QED
    BY <2>2, <2>3
<1>4. ASSUME NEW t \in Tier PROVE Cardinality(DrawnOf(s, d, t)) <= remaining[t]
  <2>1. DrawnOf(s, d, t) \subseteq Tagged(t)
    BY <1>2 DEF DrawnOf, Tagged, Available
  <2>2. remaining[t] = Cardinality(Tagged(t))
    BY <1>1 DEF StockAgrees, Tagged
  <2> QED
    BY <2>1, <2>2, TaggedFinite, FS_Subset
<1> QED
  BY <1>3, <1>4 DEF CanAward

\* Some draw of the head can be awarded.
LEMMA HeadHasDraw ==
    ASSUME PledgeInv, NEW s \in PendingSeeds
    PROVE  \E d \in Draws(s) : CanAward(s, d)
<1> DEFINE A == Available(pulls[s].inventory_version)
<1>1. TypeOK /\ StockAgrees /\ ReserveInv
  BY DEF PledgeInv, ReserveInv, StockInv
<1>2. Candidates(s) = A
  BY CandidatesAreAvailable
<1>3. PICK n \in Nat : n = pulls[s].count
  BY <1>1, PendingNumbers
<1>4. PICK m \in Nat : m = Cardinality(A)
  BY AvailableFinite
<1>5. n <= m
  BY <1>1, <1>3, <1>4, HeadIsReserved
<1>6. PICK f : f \in Bijection(1 .. m, A)
  <2> HIDE DEF A
  <2>1. ExistsBijection(1 .. Cardinality(A), A)
    BY AvailableFinite, FS_CardinalityType DEF A
  <2> QED
    BY <1>4, <2>1 DEF ExistsBijection
<1> DEFINE d == [i \in 1 .. n |-> f[i]]
<1>7. /\ f \in [1 .. m -> A]
      /\ \A i, j \in 1 .. m : f[i] = f[j] => i = j
  BY <1>6 DEF Bijection, Injection, IsInjective
<1>8. \A i \in 1 .. n : i \in 1 .. m
  BY <1>5
<1>9. d \in [1 .. n -> A] /\ \A i, j \in 1 .. n : d[i] = d[j] => i = j
  <2> HIDE DEF A
  <2> QED
    BY <1>7, <1>8
<1>10. d \in Draws(s)
  BY <1>2, <1>3, <1>9 DEF Draws
<1> HIDE DEF d
<1> QED
  BY <1>10, DrawsAward

\* In every reachable state the purchase at the head of the queue passes every
\* check of Settle up to its deadline and every check of Refund after it, and
\* never both: no claim, withdrawal, buyback or status change can block it.
LEMMA HeadPasses == PledgeInv => HeadResolvable
<1> SUFFICES ASSUME PledgeInv, NEW s \in Seeds, IsHead(s)
             PROVE  CanSettle(s) <=> ~ CanRefund(s)
  BY DEF HeadResolvable
<1>1. s \in PendingSeeds
  BY DEF IsHead, PendingSeeds
<1>2. TypeOK /\ ReserveInv /\ Solvency
  BY DEF PledgeInv, SolvencyInv
<1>3. PICK n \in Nat : n = pulls[s].count
  BY <1>1, <1>2, PendingNumbers
<1>4. n <= pending_draws /\ pending_draws \in Nat
  BY <1>1, <1>2, <1>3, HeadIsReserved DEF TypeOK
<1>5. PICK r \in Nat : r = terms.price + terms.bond_per_draw
  BY <1>2 DEF TypeOK, Term
<1>6. r * n <= r * pending_draws /\ r * pending_draws <= vault
  BY <1>2, <1>4, <1>5, ProductMonotone DEF Solvency
<1>7. vault \in Nat /\ vault <= MaxU64 /\ MaxU64 \in Nat
  BY <1>2, BoundAssumption DEF TypeOK
<1>8. r * n \in Nat /\ r * pending_draws \in Nat
  BY <1>4
<1>9. Fits(RefundAmount(pulls[s].count)) /\ vault >= RefundAmount(pulls[s].count)
  BY <1>3, <1>5, <1>6, <1>7, <1>8 DEF Fits, RefundAmount
<1>10. slot <= pulls[s].deadline_slot <=> ~ AfterDeadline(s)
  BY <1>1, <1>2, PendingNumbers, BoundAssumption DEF AfterDeadline, TypeOK
<1> QED
  BY <1>1, <1>3, <1>4, <1>9, <1>10, HeadHasDraw DEF CanSettle, CanRefund, CanRelease

\* In every reachable state the head can be resolved, in the one way its deadline
\* decides.
THEOREM HeadPassesGuards == Spec => []HeadResolvable
BY HeadPasses, PledgeInductive, PTL DEF Spec

-----------------------------------------------------------------------------
(* The outstanding awards, and what a step does to them.                   *)

\* A settled pull records one outcome for each of its draws.
SettledComplete ==
    \A s \in Seeds :
      IsSettled(s) => pulls[s].outcomes \in [1 .. pulls[s].count -> Outcome]

\* No award is made or delivered.
SettledKept ==
    \A s \in Seeds : pulls'[s] = pulls[s] \/ (~ IsSettled(s) /\ ~ IsSettled(s)')

\* The pull s is settled with the prizes at the positions d.
Wins(s, d) ==
    /\ ~ IsSettled(s) /\ IsSettled(s)'
    /\ pulls'[s].count = pulls[s].count /\ pulls'[s].buyer = pulls[s].buyer
    /\ pulls'[s].outcomes \in [1 .. pulls[s].count -> Outcome]
    /\ \A i \in 1 .. pulls[s].count :
         /\ pulls'[s].outcomes[i].tier # DELIVERED
         /\ pulls'[s].outcomes[i].asset = items[d[i]].asset
    /\ \A r \in Seeds \ {s} : pulls'[r] = pulls[r]

\* The award i of the pull s is handed over, the others stay as they are.
HandsOver(s, i) ==
    /\ <<s, i>> \in Awards
    /\ Awards' = Awards \ {<<s, i>>}
    /\ \A w \in Awards' : /\ pulls'[w[1]].buyer = pulls[w[1]].buyer
                          /\ pulls'[w[1]].outcomes[w[2]].asset
                               = pulls[w[1]].outcomes[w[2]].asset

\* An award is recorded in a settled pull.
LEMMA AwardFacts ==
    ASSUME TypeOK, SettledComplete, NEW w \in Awards
    PROVE  /\ w[1] \in Seeds /\ w[2] \in 1 .. MaxCount /\ w = <<w[1], w[2]>>
           /\ IsSettled(w[1]) /\ pulls[w[1]] \in Pull
           /\ w[2] \in 1 .. pulls[w[1]].count
           /\ pulls[w[1]].outcomes[w[2]] \in Outcome
           /\ pulls[w[1]].outcomes[w[2]].asset \in Assets
           /\ pulls[w[1]].outcomes[w[2]].tier # DELIVERED
           /\ pulls[w[1]].buyer \in Wallets
<1>1. w[1] \in Seeds /\ w[2] \in 1 .. MaxCount /\ w = <<w[1], w[2]>>
  BY DEF Awards
<1>2. IsSettled(w[1]) /\ w[2] <= pulls[w[1]].count
      /\ pulls[w[1]].outcomes[w[2]].tier # DELIVERED
  BY DEF Awards
<1>3. pulls[w[1]] \in Pull
  BY <1>1, <1>2 DEF TypeOK, IsSettled
<1>4. pulls[w[1]].count \in 1 .. MaxCount /\ pulls[w[1]].buyer \in Wallets
  BY <1>3 DEF Pull
<1>5. w[2] \in 1 .. pulls[w[1]].count
  BY <1>1, <1>2, <1>4, BoundAssumption
<1>6. pulls[w[1]].outcomes[w[2]] \in Outcome
  BY <1>1, <1>2, <1>5 DEF SettledComplete
<1> QED
  BY <1>1, <1>2, <1>3, <1>4, <1>5, <1>6 DEF Outcome

\* The undelivered outcomes of a settled pull are awards.
LEMMA IsAward ==
    ASSUME TypeOK, NEW s \in Seeds, IsSettled(s), NEW i \in 1 .. pulls[s].count,
           pulls[s].outcomes[i].tier # DELIVERED
    PROVE  <<s, i>> \in Awards
<1>1. pulls[s] \in Pull
  BY DEF TypeOK, IsSettled
<1>2. pulls[s].count \in 1 .. MaxCount
  BY <1>1 DEF Pull
<1>3. i \in 1 .. MaxCount /\ i <= pulls[s].count
  BY <1>2, BoundAssumption
<1>4. <<s, i>> \in Seeds \X (1 .. MaxCount)
  BY <1>3
<1> QED
  BY <1>3, <1>4 DEF Awards

\* Where no award is made or delivered, the awards are the same.
LEMMA KeptAwards ==
    ASSUME SettledKept
    PROVE  /\ Awards' = Awards
           /\ \A w \in Awards : pulls'[w[1]] = pulls[w[1]]
           /\ SettledComplete => SettledComplete'
<1>1. ASSUME NEW s \in Seeds
      PROVE  /\ IsSettled(s)' <=> IsSettled(s)
             /\ IsSettled(s) => pulls'[s] = pulls[s]
  BY DEF SettledKept, IsSettled
<1>2. ASSUME NEW w \in Seeds \X (1 .. MaxCount)
      PROVE  w[1] \in Seeds
  OBVIOUS
<1>3. Awards' = Awards
  BY <1>1, <1>2 DEF Awards
<1>4. \A w \in Awards : pulls'[w[1]] = pulls[w[1]]
  BY <1>1, <1>2 DEF Awards
<1>5. SettledComplete => SettledComplete'
  BY <1>1 DEF SettledComplete
<1> QED
  BY <1>3, <1>4, <1>5

\* A settlement adds one award for each draw.
LEMMA WonAwards ==
    ASSUME TypeOK, TypeOK', NEW s \in Seeds, NEW d, Wins(s, d)
    PROVE  /\ \A w \in Awards : /\ w[1] # s /\ w \in Awards'
                                /\ pulls'[w[1]] = pulls[w[1]]
           /\ \A w \in Awards' : \/ w \in Awards
                                 \/ w[1] = s /\ w[2] \in 1 .. pulls[s].count
           /\ SettledComplete => SettledComplete'
<1>1. ASSUME NEW w \in Awards
      PROVE  w[1] # s /\ w \in Awards' /\ pulls'[w[1]] = pulls[w[1]]
  <2>1. w \in Seeds \X (1 .. MaxCount) /\ w[1] \in Seeds /\ IsSettled(w[1])
    BY DEF Awards
  <2>2. w[1] # s
    BY <2>1 DEF Wins
  <2>3. pulls'[w[1]] = pulls[w[1]]
    BY <2>1, <2>2 DEF Wins
  <2> QED
    BY <2>1, <2>2, <2>3 DEF Awards, IsSettled
<1>2. ASSUME NEW w \in Awards', w[1] # s PROVE w \in Awards
  <2>1. w \in Seeds \X (1 .. MaxCount) /\ w[1] \in Seeds
    BY DEF Awards
  <2>2. pulls'[w[1]] = pulls[w[1]]
    BY <1>2, <2>1 DEF Wins
  <2> QED
    BY <2>1, <2>2 DEF Awards, IsSettled
<1>3. ASSUME NEW w \in Awards', w[1] = s PROVE w[2] \in 1 .. pulls[s].count
  <2>1. w[2] \in 1 .. MaxCount /\ w[2] <= pulls'[s].count
    BY <1>3 DEF Awards
  <2>2. pulls'[s] \in Pull /\ pulls'[s].count = pulls[s].count
    BY DEF Wins, TypeOK, IsSettled
  <2>3. pulls[s].count \in 1 .. MaxCount
    BY <2>2 DEF Pull
  <2> QED
    BY <2>1, <2>2, <2>3, BoundAssumption
<1>4. ASSUME SettledComplete PROVE SettledComplete'
  <2>1. ASSUME NEW r \in Seeds, IsSettled(r)'
        PROVE  pulls'[r].outcomes \in [1 .. pulls'[r].count -> Outcome]
    <3>1. CASE r = s
      BY <3>1 DEF Wins
    <3>2. CASE r # s
      BY <1>4, <2>1, <3>2 DEF Wins, SettledComplete, IsSettled
    <3> QED
      BY <3>1, <3>2
  <2> QED
    BY <2>1 DEF SettledComplete
<1> QED
  BY <1>1, <1>2, <1>3, <1>4

\* Settle wins the prizes it draws.
LEMMA SettleWins ==
    ASSUME TypeOK, TypeOK', NEW s \in Seeds, IsHead(s), NEW d \in Draws(s), Award(s, d)
    PROVE  Wins(s, d)
<1> DEFINE n == pulls[s].count
           outcome(i) == [tier |-> tags[d[i]] - 1, asset |-> items[d[i]].asset]
           won == [i \in 1 .. n |-> outcome(i)]
<1>1. pulls[s] \in Pull /\ pulls[s].status = "pending"
  BY DEF TypeOK, IsHead, IsPending
<1>2. pulls' = [pulls EXCEPT ![s] = [pulls[s] EXCEPT !.status = "settled",
                                                     !.outcomes = won]]
  BY DEF Award, CanAward, Won
<1>3. /\ pulls'[s] = [pulls[s] EXCEPT !.status = "settled", !.outcomes = won]
      /\ \A r \in Seeds \ {s} : pulls'[r] = pulls[r]
  BY <1>2 DEF TypeOK
<1>4. /\ pulls'[s].status = "settled" /\ pulls'[s].outcomes = won
      /\ pulls'[s].count = n /\ pulls'[s].buyer = pulls[s].buyer
  <2> HIDE DEF won
  <2> QED
    BY <1>1, <1>3 DEF Pull
<1>5. pulls'[s] # NoPull
  <2>1. [pulls[s] EXCEPT !.status = "settled", !.outcomes = won] \in Pull
    <3>1. won \in Seq(Outcome)
      <4>1. ASSUME NEW i \in 1 .. n PROVE outcome(i) \in Outcome
        <5>1. d[i] \in Position /\ d[i] \in Drawn(s, d) /\ tags[d[i]] - 1 \in Tier
          BY DEF Draws, Candidates, Available, Drawn, Tiers
        <5>2. items[d[i]] \in Item
          BY <5>1 DEF Award, CanAward, Won, TypeOK
        <5> QED
          BY <5>1, <5>2 DEF Outcome, Item
      <4>2. n \in Nat
        BY <1>1 DEF Pull
      <4> QED
        BY <4>1, <4>2
    <3> HIDE DEF won
    <3> QED
      BY <1>1, <3>1 DEF Pull
  <2> QED
    BY <1>3, <2>1, NullAssumption
<1>6. ASSUME NEW i \in 1 .. n
      PROVE  /\ won[i] \in Outcome /\ won[i].tier # DELIVERED
             /\ won[i].asset = items[d[i]].asset
  <2>1. d[i] \in Position /\ d[i] \in Drawn(s, d) /\ tags[d[i]] - 1 \in Tier
    BY DEF Draws, Candidates, Available, Drawn, Tiers
  <2>2. items[d[i]] \in Item
    BY <2>1 DEF Award, CanAward, Won, TypeOK
  <2>3. won[i] = outcome(i)
    OBVIOUS
  <2>4. tags[d[i]] - 1 # DELIVERED
    BY <2>1, BoundAssumption DEF DELIVERED
  <2> QED
    BY <2>1, <2>2, <2>3, <2>4 DEF Outcome, Item
<1>7. won \in [1 .. n -> Outcome]
  BY <1>6
<1>8. ~ IsSettled(s) /\ IsSettled(s)'
  BY <1>1, <1>4, <1>5 DEF IsSettled
<1> HIDE DEF won
<1> QED
  BY <1>3, <1>4, <1>6, <1>7, <1>8 DEF Wins

\* Deliver marks one outcome, or closes a Pull that has no other award.
LEMMA DeliverHandsOver ==
    ASSUME TypeOK, TypeOK', SettledComplete,
           NEW s \in Seeds, NEW i \in 1 .. MaxCount, Deliver(s, i)
    PROVE  /\ HandsOver(s, i) /\ SettledComplete'
           /\ \A r \in Seeds \ {s} : pulls'[r] = pulls[r]
           /\ ~ IsPending(s) /\ ~ IsPending(s)'
<1> DEFINE n == pulls[s].count
           o == pulls[s].outcomes
           marks == [o EXCEPT ![i].tier = DELIVERED]
           marked == [pulls[s] EXCEPT !.outcomes[i].tier = DELIVERED]
<1>1. /\ pulls[s] \in Pull /\ IsSettled(s) /\ pulls[s].status = "settled"
      /\ n \in 1 .. MaxCount /\ n \in Nat /\ i \in 1 .. n
      /\ o \in [1 .. n -> Outcome] /\ o[i].tier # DELIVERED
  <2>1. pulls[s] \in Pull /\ IsSettled(s) /\ i <= n /\ o[i].tier # DELIVERED
    BY DEF TypeOK, Deliver, CanDeliver, IsSettled
  <2>2. n \in 1 .. MaxCount /\ n \in Nat
    BY <2>1, BoundAssumption DEF Pull
  <2> QED
    BY <2>1, <2>2, BoundAssumption DEF SettledComplete, IsSettled
<1>2. /\ marks \in [1 .. n -> Outcome]
      /\ marks[i].tier = DELIVERED /\ marks[i].asset = o[i].asset
      /\ \A j \in 1 .. n \ {i} : marks[j] = o[j]
  <2>1. o[i] \in Outcome
    BY <1>1
  <2>2. /\ [o[i] EXCEPT !.tier = DELIVERED] \in Outcome
        /\ [o[i] EXCEPT !.tier = DELIVERED].tier = DELIVERED
        /\ [o[i] EXCEPT !.tier = DELIVERED].asset = o[i].asset
    BY <2>1 DEF Outcome
  <2>3. marks = [o EXCEPT ![i] = [o[i] EXCEPT !.tier = DELIVERED]]
    BY <1>1
  <2> QED
    BY <1>1, <2>2, <2>3
<1>3. /\ marked.outcomes = marks /\ marked.count = n /\ marked.status = "settled"
      /\ marked.buyer = pulls[s].buyer
  BY <1>1 DEF Pull
<1>a. marked \in Pull /\ marked # NoPull
  <2>1. marks \in Seq(Outcome)
    BY <1>1, <1>2
  <2>2. marked = [pulls[s] EXCEPT !.outcomes = marks]
    BY <1>1 DEF Pull
  <2> HIDE DEF marks, marked
  <2> QED
    BY <1>1, <2>1, <2>2, NullAssumption DEF Pull
<1>4. pulls' = [pulls EXCEPT ![s] = IF AllDelivered(marked) THEN NoPull ELSE marked]
  BY DEF Deliver, CanDeliver
<1>5. \A r \in Seeds \ {s} : pulls'[r] = pulls[r]
  BY <1>4 DEF TypeOK
<1>6. AllDelivered(marked) <=> \A j \in 1 .. n : marks[j].tier = DELIVERED
  BY <1>3 DEF AllDelivered
<1>7. pulls'[s] = IF AllDelivered(marked) THEN NoPull ELSE marked
  BY <1>4 DEF TypeOK
<1> HIDE DEF marks, marked
<1>8. \/ pulls'[s] = NoPull /\ \A j \in 1 .. n : marks[j].tier = DELIVERED
      \/ IsSettled(s)' /\ pulls'[s] = marked
  BY <1>3, <1>a, <1>6, <1>7 DEF IsSettled
<1>9. <<s, i>> \in Awards
  BY <1>1, IsAward
<1>10. ASSUME NEW w \in Awards'
       PROVE  /\ w \in Awards /\ w # <<s, i>>
              /\ pulls'[w[1]].buyer = pulls[w[1]].buyer
              /\ pulls'[w[1]].outcomes[w[2]].asset = pulls[w[1]].outcomes[w[2]].asset
  <2>1. /\ w \in Seeds \X (1 .. MaxCount) /\ w[1] \in Seeds
        /\ w[2] \in 1 .. MaxCount /\ w = <<w[1], w[2]>>
        /\ IsSettled(w[1])' /\ w[2] <= pulls'[w[1]].count
        /\ pulls'[w[1]].outcomes[w[2]].tier # DELIVERED
    BY DEF Awards
  <2>2. CASE w[1] # s
    <3>1. pulls'[w[1]] = pulls[w[1]] /\ w # <<s, i>>
      BY <1>5, <2>1, <2>2
    <3> QED
      BY <2>1, <3>1 DEF Awards, IsSettled
  <2>3. CASE w[1] = s
    <3>1. pulls'[s] = marked
      BY <1>8, <2>1, <2>3 DEF IsSettled
    <3>2. w[2] \in 1 .. n
      BY <1>1, <1>3, <2>1, <2>3, <3>1, BoundAssumption
    <3>3. w[2] # i
      BY <1>2, <1>3, <2>1, <2>3, <3>1
    <3>4. pulls'[s].outcomes[w[2]] = o[w[2]]
      BY <1>2, <1>3, <3>1, <3>2, <3>3
    <3>5. w \in Awards
      BY <1>1, <2>1, <2>3, <3>2, <3>4, IsAward
    <3> QED
      BY <1>3, <2>1, <2>3, <3>1, <3>3, <3>4, <3>5
  <2> QED
    BY <2>2, <2>3
<1>11. ASSUME NEW w \in Awards, w # <<s, i>> PROVE w \in Awards'
  <2>1. /\ w \in Seeds \X (1 .. MaxCount) /\ w[1] \in Seeds
        /\ w[2] \in 1 .. MaxCount /\ w = <<w[1], w[2]>>
        /\ IsSettled(w[1]) /\ w[2] <= pulls[w[1]].count
        /\ pulls[w[1]].outcomes[w[2]].tier # DELIVERED
    BY DEF Awards
  <2>2. CASE w[1] # s
    <3>1. pulls'[w[1]] = pulls[w[1]]
      BY <1>5, <2>1, <2>2
    <3> QED
      BY <2>1, <3>1 DEF Awards, IsSettled
  <2>3. CASE w[1] = s
    <3>1. w[2] \in 1 .. n /\ w[2] # i
      BY <1>1, <1>11, <2>1, <2>3, BoundAssumption
    <3>2. marks[w[2]] = o[w[2]]
      BY <1>2, <3>1
    <3>3. IsSettled(s)' /\ pulls'[s] = marked
      BY <1>8, <2>1, <2>3, <3>1, <3>2
    <3> QED
      BY <1>3, <2>1, <2>3, <3>2, <3>3 DEF Awards
  <2> QED
    BY <2>2, <2>3
<1>12. HandsOver(s, i)
  BY <1>9, <1>10, <1>11 DEF HandsOver
<1>13. SettledComplete'
  <2>1. ASSUME NEW r \in Seeds, IsSettled(r)'
        PROVE  pulls'[r].outcomes \in [1 .. pulls'[r].count -> Outcome]
    <3>1. CASE r = s
      BY <1>2, <1>3, <1>8, <2>1, <3>1 DEF IsSettled
    <3>2. CASE r # s
      BY <1>5, <2>1, <3>2 DEF SettledComplete, IsSettled
    <3> QED
      BY <3>1, <3>2
  <2> QED
    BY <2>1 DEF SettledComplete
<1>14. ~ IsPending(s) /\ ~ IsPending(s)'
  BY <1>1, <1>3, <1>8 DEF IsPending
<1> QED
  BY <1>5, <1>12, <1>13, <1>14

-----------------------------------------------------------------------------
(* Custody.                                                                *)

\* The inductive invariant behind PrizesInCustody.
CustodyInv == StockInv /\ SettledComplete /\ Custody

\* The empty ledger owes no prize.
LEMMA CustodyInit == Init => SettledComplete /\ Custody
<1> SUFFICES ASSUME Init PROVE SettledComplete /\ Custody
  OBVIOUS
<1>1. \A s \in Seeds : ~ IsSettled(s)
  BY DEF Init, IsSettled
<1>2. \A p \in Position : items[p] = NoItem
  BY DEF Init
<1>3. Awards = {}
  BY <1>1 DEF Awards
<1> QED
  BY <1>1, <1>2, <1>3 DEF SettledComplete, Custody

\* Claims may end, as long as the pool keeps the assets of the ones that stay.
LEMMA FewerClaims ==
    ASSUME Custody,
           \A p \in Position : items'[p] # NoItem => items'[p] = items[p],
           \A w \in Awards' : /\ w \in Awards
                              /\ pulls'[w[1]].outcomes[w[2]].asset
                                   = pulls[w[1]].outcomes[w[2]].asset,
           \A p \in Position : items'[p] # NoItem => owner'[items[p].asset] = Pool,
           \A w \in Awards' : owner'[pulls[w[1]].outcomes[w[2]].asset] = Pool
    PROVE  Custody'
BY SMTT(20) DEF Custody

\* What a holder can give away is not claimed: the pool owns every claimed asset.
LEMMA OutsideUnclaimed ==
    ASSUME Custody, NEW a, NEW w \in Wallets, owner[a] = w
    PROVE  /\ \A p \in Position : items[p] # NoItem => items[p].asset # a
           /\ \A x \in Awards : pulls[x[1]].outcomes[x[2]].asset # a
BY AccountAssumption DEF Custody

\* The assets named by claims.
LEMMA ClaimedAssets ==
    ASSUME TypeOK, SettledComplete
    PROVE  /\ \A p \in Position : items[p] # NoItem => items[p].asset \in Assets
           /\ \A w \in Awards : pulls[w[1]].outcomes[w[2]].asset \in Assets
<1>1. \A p \in Position : items[p] # NoItem => items[p].asset \in Assets
  BY DEF TypeOK, Item
<1> QED
  BY <1>1, AwardFacts

\* A wallet's own transfer touches no claim.
LEMMA TransferCustody ==
    ASSUME TypeOK, SettledComplete, Custody, NEW a \in Assets, NEW w \in Wallets,
           NEW o, Move(a, w, o), UNCHANGED <<items, pulls>>
    PROVE  Custody'
<1>1. owner[a] = w /\ \A x \in Assets : x # a => owner'[x] = owner[x]
  BY DEF Move, TypeOK
<1>2. Awards' = Awards
  BY DEF Awards, IsSettled
<1>3. ASSUME NEW p \in Position, items[p] # NoItem PROVE owner'[items[p].asset] = Pool
  BY <1>1, <1>3, OutsideUnclaimed, ClaimedAssets DEF Custody
<1>4. ASSUME NEW x \in Awards PROVE owner'[pulls[x[1]].outcomes[x[2]].asset] = Pool
  BY <1>1, OutsideUnclaimed, ClaimedAssets DEF Custody
<1> QED
  BY <1>2, <1>3, <1>4, FewerClaims

\* A deposit or a buyback claims an asset that was in nobody's claim before.
LEMMA RestockCustody ==
    ASSUME TypeOK, SettledComplete, Custody, NEW a \in Assets, NEW t,
           NEW w \in Wallets, CanRestock(t), Restock(a, t), Move(a, w, Pool),
           pulls' = pulls
    PROVE  Custody'
<1> DEFINE v == inventory_version
<1>1. v \in Position
  BY BoundAssumption DEF CanRestock, TypeOK
<1>2. t \in Tier
  BY DEF CanRestock, Tiers
<1>3. /\ items'[v] = [tier |-> t, asset |-> a]
      /\ \A p \in Position : p # v => items'[p] = items[p]
  BY <1>1 DEF Restock, NextPosition, TypeOK
<1>4. items'[v].asset = a
  BY <1>3
<1>5. owner[a] = w /\ owner'[a] = Pool /\ \A x \in Assets : x # a => owner'[x] = owner[x]
  BY DEF Move, TypeOK
<1>6. Awards' = Awards
  BY DEF Awards, IsSettled
<1>7. /\ \A p \in Position : items[p] # NoItem => items[p].asset # a
      /\ \A x \in Awards : pulls[x[1]].outcomes[x[2]].asset # a
  BY <1>5, OutsideUnclaimed
<1>8. ASSUME NEW p \in Position, items'[p] # NoItem
      PROVE  /\ owner'[items'[p].asset] = Pool
             /\ \A x \in Awards : items'[p].asset # pulls[x[1]].outcomes[x[2]].asset
             /\ \A q \in Position : items'[q] # NoItem
                                    /\ items'[p].asset = items'[q].asset => p = q
  <2>1. CASE p = v
    BY <1>3, <1>4, <1>5, <1>7, <2>1
  <2>2. CASE p # v
    <3>1. items'[p] = items[p] /\ items[p].asset \in Assets /\ items[p].asset # a
      BY <1>3, <1>7, <1>8, <2>2, ClaimedAssets
    <3>2. owner'[items[p].asset] = Pool
      BY <1>5, <1>8, <3>1 DEF Custody
    <3>3. ASSUME NEW q \in Position, items'[q] # NoItem, items'[p].asset = items'[q].asset
          PROVE  p = q
      BY <1>3, <1>4, <1>8, <3>1, <3>3 DEF Custody
    <3> QED
      BY <1>8, <3>1, <3>2, <3>3 DEF Custody
  <2> QED
    BY <2>1, <2>2
<1>9. ASSUME NEW x \in Awards PROVE owner'[pulls[x[1]].outcomes[x[2]].asset] = Pool
  BY <1>5, <1>7, ClaimedAssets DEF Custody
<1> QED
  BY <1>6, <1>8, <1>9 DEF Custody

\* A settlement turns the claims of the prizes drawn into awards.
LEMMA SettleCustody ==
    ASSUME TypeOK, TypeOK', SettledComplete, Custody, NEW s \in Seeds,
           NEW d \in Draws(s), Award(s, d), Wins(s, d), owner' = owner
    PROVE  Custody'
<1> DEFINE n == pulls[s].count
<1>1. ASSUME NEW i \in 1 .. n
      PROVE  /\ d[i] \in Position /\ d[i] \in Drawn(s, d) /\ items[d[i]] # NoItem
             /\ pulls'[s].outcomes[i].asset = items[d[i]].asset
  BY DEF Draws, Candidates, Available, Drawn, Award, CanAward, Won, Wins
<1>2. \A i, j \in 1 .. n : d[i] = d[j] => i = j
  BY DEF Draws
<1>3. ASSUME NEW p \in Position, items'[p] # NoItem
      PROVE  /\ items'[p] = items[p] /\ p \notin Drawn(s, d)
             /\ \A i \in 1 .. n : p # d[i]
  <2>1. items'[p] = IF p \in Drawn(s, d) THEN NoItem ELSE items[p]
    BY DEF Award, CanAward, Won, ItemsAfter
  <2> QED
    BY <1>1, <1>3, <2>1
<1>4. ASSUME NEW w \in Awards'
      PROVE  \/ /\ w \in Awards
                /\ pulls'[w[1]].outcomes[w[2]].asset = pulls[w[1]].outcomes[w[2]].asset
             \/ /\ w = <<s, w[2]>> /\ w[2] \in 1 .. n
                /\ pulls'[w[1]].outcomes[w[2]].asset = items[d[w[2]]].asset
  <2>1. w = <<w[1], w[2]>>
    BY DEF Awards
  <2>2. CASE w \in Awards
    BY <2>2, WonAwards
  <2>3. CASE w \notin Awards
    <3>1. w[1] = s /\ w[2] \in 1 .. n
      BY <2>3, WonAwards
    <3> QED
      BY <1>1, <2>1, <3>1
  <2> QED
    BY <2>2, <2>3
<1>5. \A p \in Position : items'[p] # NoItem => owner'[items'[p].asset] = Pool
  BY <1>3 DEF Custody
<1>6. \A w \in Awards' : owner'[pulls'[w[1]].outcomes[w[2]].asset] = Pool
  BY <1>1, <1>4, SMTT(20) DEF Custody
<1>7. \A p, q \in Position :
        items'[p] # NoItem /\ items'[q] # NoItem /\ items'[p].asset = items'[q].asset
          => p = q
  BY <1>3 DEF Custody
<1>8. ASSUME NEW w \in Awards', NEW x \in Awards',
             pulls'[w[1]].outcomes[w[2]].asset = pulls'[x[1]].outcomes[x[2]].asset
      PROVE  w = x
  <2>1. CASE w \in Awards /\ x \in Awards
    <3>1. /\ pulls'[w[1]].outcomes[w[2]].asset = pulls[w[1]].outcomes[w[2]].asset
          /\ pulls'[x[1]].outcomes[x[2]].asset = pulls[x[1]].outcomes[x[2]].asset
      BY <2>1, WonAwards
    <3> QED
      BY <1>8, <2>1, <3>1 DEF Custody
  <2>2. CASE w \notin Awards /\ x \notin Awards
    <3>1. /\ w = <<s, w[2]>> /\ w[2] \in 1 .. n /\ x = <<s, x[2]>> /\ x[2] \in 1 .. n
          /\ items[d[w[2]]].asset = items[d[x[2]]].asset
      BY <1>4, <1>8, <2>2
    <3>2. d[w[2]] = d[x[2]]
      BY <1>1, <3>1 DEF Custody
    <3> QED
      BY <1>2, <3>1, <3>2
  <2>3. ASSUME NEW y \in Awards', NEW z \in Awards', y \in Awards, z \notin Awards
        PROVE  pulls'[y[1]].outcomes[y[2]].asset # pulls'[z[1]].outcomes[z[2]].asset
    <3>1. pulls'[y[1]].outcomes[y[2]].asset = pulls[y[1]].outcomes[y[2]].asset
      BY <2>3, WonAwards
    <3>2. z[2] \in 1 .. n /\ pulls'[z[1]].outcomes[z[2]].asset = items[d[z[2]]].asset
      BY <1>4, <2>3
    <3> QED
      BY <1>1, <2>3, <3>1, <3>2 DEF Custody
  <2> QED
    BY <1>8, <2>1, <2>2, <2>3
<1>9. ASSUME NEW p \in Position, items'[p] # NoItem, NEW w \in Awards'
      PROVE  items'[p].asset # pulls'[w[1]].outcomes[w[2]].asset
  <2>1. items'[p] = items[p] /\ items[p] # NoItem
    BY <1>3, <1>9
  <2>2. CASE w \in Awards
    <3>1. pulls'[w[1]].outcomes[w[2]].asset = pulls[w[1]].outcomes[w[2]].asset
      BY <2>2, WonAwards
    <3> QED
      BY <2>1, <2>2, <3>1 DEF Custody
  <2>3. CASE w \notin Awards
    <3>1. w[2] \in 1 .. n /\ pulls'[w[1]].outcomes[w[2]].asset = items[d[w[2]]].asset
      BY <1>4, <2>3
    <3>2. p # d[w[2]] /\ d[w[2]] \in Position /\ items[d[w[2]]] # NoItem
      BY <1>1, <1>3, <1>9, <3>1
    <3> QED
      BY <2>1, <3>1, <3>2 DEF Custody
  <2> QED
    BY <2>2, <2>3
<1> QED
  BY <1>5, <1>6, <1>7, <1>8, <1>9 DEF Custody

\* Delivering gives up one award and no other claim: it alone names its asset.
LEMMA DeliverCustody ==
    ASSUME TypeOK, TypeOK', SettledComplete, Custody, NEW s \in Seeds,
           NEW i \in 1 .. MaxCount, Deliver(s, i)
    PROVE  Custody'
<1> DEFINE a == pulls[s].outcomes[i].asset
<1>1. HandsOver(s, i) /\ items' = items
  BY DeliverHandsOver DEF Deliver, CanDeliver, stock
<1>2. <<s, i>> \in Awards
  BY <1>1 DEF HandsOver
<1>3. a \in Assets
  BY <1>2, ClaimedAssets
<1>4. \A x \in Assets : x # a => owner'[x] = owner[x]
  BY DEF Deliver, CanDeliver, Move, TypeOK
<1>5. ASSUME NEW p \in Position, items[p] # NoItem PROVE owner'[items[p].asset] = Pool
  BY <1>2, <1>4, <1>5, ClaimedAssets DEF Custody
<1>6. ASSUME NEW w \in Awards'
      PROVE  /\ w \in Awards
             /\ pulls'[w[1]].outcomes[w[2]].asset = pulls[w[1]].outcomes[w[2]].asset
             /\ owner'[pulls[w[1]].outcomes[w[2]].asset] = Pool
  <2>1. /\ w \in Awards /\ w # <<s, i>>
        /\ pulls'[w[1]].outcomes[w[2]].asset = pulls[w[1]].outcomes[w[2]].asset
    BY <1>1 DEF HandsOver
  <2>2. pulls[w[1]].outcomes[w[2]].asset # a
    BY <1>2, <2>1 DEF Custody
  <2> QED
    BY <1>4, <2>1, <2>2, ClaimedAssets DEF Custody
<1> QED
  BY <1>1, <1>5, <1>6, FewerClaims

\* Reclaiming gives up one unsold prize and no other claim.
LEMMA ReclaimCustody ==
    ASSUME TypeOK, SettledComplete, Custody, NEW p \in Position, Reclaim(p)
    PROVE  Custody'
<1> DEFINE a == items[p].asset
<1>1. /\ items[p] # NoItem /\ items' = [items EXCEPT ![p] = NoItem] /\ pulls' = pulls
      /\ Move(a, Pool, Authority)
  BY DEF Reclaim, CanReclaim
<1>2. \A q \in Position : items'[q] = IF q = p THEN NoItem ELSE items[q]
  BY <1>1 DEF TypeOK
<1>3. \A x \in Assets : x # a => owner'[x] = owner[x]
  BY <1>1 DEF Move, TypeOK
<1>4. Awards' = Awards
  BY <1>1 DEF Awards, IsSettled
<1>5. ASSUME NEW q \in Position, items'[q] # NoItem
      PROVE  items'[q] = items[q] /\ owner'[items[q].asset] = Pool
  <2>1. q # p /\ items'[q] = items[q] /\ items[q] # NoItem
    BY <1>2, <1>5
  <2>2. items[q].asset # a
    BY <1>1, <2>1 DEF Custody
  <2> QED
    BY <1>3, <2>1, <2>2, ClaimedAssets DEF Custody
<1>6. ASSUME NEW w \in Awards PROVE owner'[pulls[w[1]].outcomes[w[2]].asset] = Pool
  BY <1>1, <1>3, ClaimedAssets DEF Custody
<1> QED
  BY <1>1, <1>4, <1>5, <1>6, FewerClaims

\* Steps that make and deliver no award.
LEMMA NeutralCustody ==
    ASSUME Custody, SettledKept, UNCHANGED <<items, owner>>
    PROVE  Custody'
<1>1. Awards' = Awards /\ \A w \in Awards : pulls'[w[1]] = pulls[w[1]]
  BY KeptAwards
<1>2. \A w \in Awards : owner'[pulls[w[1]].outcomes[w[2]].asset] = Pool
  BY DEF Custody
<1>3. \A p \in Position : items'[p] # NoItem => owner'[items[p].asset] = Pool
  BY DEF Custody
<1> QED
  BY <1>1, <1>2, <1>3, FewerClaims

\* Buying and refunding concern pulls that are not settled.
LEMMA QueueStepsKeepSettled ==
    ASSUME TypeOK, NEW s \in Seeds,
           \/ Refund(s)
           \/ \E b \in Wallets, n \in 1 .. MaxCount, v \in 0 .. inventory_version :
                Buy(s, b, n, v)
    PROVE  SettledKept
<1>1. CASE Refund(s)
  <2>1. IsPending(s) /\ pulls' = [pulls EXCEPT ![s] = NoPull]
    BY <1>1 DEF Refund, CanRefund, IsHead
  <2>2. ~ IsSettled(s) /\ pulls'[s] = NoPull
    BY <2>1 DEF IsPending, IsSettled, TypeOK
  <2> QED
    BY <2>1, <2>2 DEF SettledKept, IsSettled, TypeOK
<1>2. ASSUME NEW b \in Wallets, NEW n \in 1 .. MaxCount,
             NEW v \in 0 .. inventory_version, Buy(s, b, n, v)
      PROVE  SettledKept
  <2>1. Joins(s, n)
    BY <1>2, BuyJoins
  <2>2. ~ IsSettled(s) /\ ~ IsSettled(s)'
    BY <2>1 DEF Joins, IsPending, IsSettled
  <2> QED
    BY <2>1, <2>2 DEF Joins, SettledKept
<1> QED
  BY <1>1, <1>2

\* Every step keeps what the pool owes in its custody.
LEMMA CustodyNext == CustodyInv /\ [Next]_vars => CustodyInv'
<1> SUFFICES ASSUME CustodyInv, [Next]_vars PROVE CustodyInv'
  OBVIOUS
<1>0. TypeOK /\ TypeOK' /\ StockInv /\ SettledComplete /\ Custody
  BY TypeNext DEF CustodyInv, StockInv
<1> DEFINE Goal == SettledComplete' /\ Custody'
<1>a. ASSUME UNCHANGED <<items, pulls, owner>> PROVE Goal
  BY <1>0, <1>a, NeutralCustody, KeptAwards DEF SettledKept
<1>b. ASSUME pulls' = pulls PROVE SettledComplete'
  BY <1>0, <1>b, KeptAwards DEF SettledKept
<1>1. ASSUME NEW t \in Terms, CreatePool(t) PROVE Goal
  BY <1>1, <1>a DEF CreatePool, CanCreatePool, stock
<1>2. ASSUME NEW x \in {"paused", "active", "retired"}, SetStatus(x) PROVE Goal
  BY <1>2, <1>a DEF SetStatus, CanSetStatus, stock
<1>3. ASSUME NEW a \in Assets, NEW t \in 0 .. MaxTiers, DepositItem(a, t) PROVE Goal
  <2>1. CanRestock(t) /\ Restock(a, t) /\ Move(a, Authority, Pool) /\ pulls' = pulls
    BY <1>3 DEF DepositItem, CanDepositItem
  <2> QED
    BY <1>0, <1>b, <2>1, AccountAssumption, RestockCustody
<1>4. ASSUME NEW n \in Amounts, Withdraw(n) PROVE Goal
  BY <1>4, <1>a DEF Withdraw, CanWithdraw, stock
<1>5. ASSUME NEW p \in Position, Reclaim(p) PROVE Goal
  BY <1>0, <1>5, <1>b, ReclaimCustody DEF Reclaim, CanReclaim
<1>6. ASSUME NEW s \in Seeds, NEW b \in Wallets, NEW n \in 1 .. MaxCount,
             NEW v \in 0 .. inventory_version, Buy(s, b, n, v)
      PROVE  Goal
  <2>1. SettledKept /\ UNCHANGED <<items, owner>>
    BY <1>0, <1>6, QueueStepsKeepSettled DEF Buy, CanBuy, stock
  <2> QED
    BY <1>0, <2>1, NeutralCustody, KeptAwards
<1>7. ASSUME NEW s \in Seeds, Refund(s) PROVE Goal
  <2>1. SettledKept /\ UNCHANGED <<items, owner>>
    BY <1>0, <1>7, QueueStepsKeepSettled DEF Refund, CanRefund, stock
  <2> QED
    BY <1>0, <2>1, NeutralCustody, KeptAwards
<1>8. ASSUME NEW q \in Quotes, NEW w \in Wallets, Buyback(q, w) PROVE Goal
  <2>1. /\ CanRestock(q.tier) /\ Restock(q.asset, q.tier) /\ Move(q.asset, w, Pool)
        /\ pulls' = pulls
    BY <1>8 DEF Buyback, CanBuyback
  <2>2. q.asset \in Assets
    BY InputAssumption DEF Quote
  <2> QED
    BY <1>0, <1>b, <2>1, <2>2, RestockCustody
<1>9. ASSUME NEW s \in Seeds, Settle(s) PROVE Goal
  <2>1. PICK d \in Draws(s) : Award(s, d)
    BY <1>9 DEF Settle, CanSettle
  <2>2. IsHead(s) /\ owner' = owner
    BY <1>9 DEF Settle, CanSettle
  <2>3. Wins(s, d)
    BY <1>0, <2>1, <2>2, SettleWins
  <2> QED
    BY <1>0, <2>1, <2>2, <2>3, WonAwards, SettleCustody
<1>10. ASSUME NEW s \in Seeds, NEW i \in 1 .. MaxCount, Deliver(s, i) PROVE Goal
  BY <1>0, <1>10, DeliverHandsOver, DeliverCustody
<1>11. ASSUME NEW n \in Amounts, Fund(n) PROVE Goal
  BY <1>11, <1>a DEF Fund, stock
<1>12. ASSUME NEW a \in Assets, NEW w \in Wallets, NEW o \in Wallets \cup {Pool},
              TransferAsset(a, w, o)
       PROVE  Goal
  <2>1. Move(a, w, o) /\ UNCHANGED <<items, pulls>>
    BY <1>12 DEF TransferAsset, stock
  <2> QED
    BY <1>0, <1>b, <2>1, TransferCustody
<1>13. ASSUME Tick PROVE Goal
  BY <1>13, <1>a DEF Tick, stock
<1>14. ASSUME UNCHANGED vars PROVE Goal
  BY <1>14, <1>a DEF vars, stock
<1>15. Goal
  BY <1>1, <1>2, <1>3, <1>4, <1>5, <1>6, <1>7, <1>8, <1>9, <1>10, <1>11, <1>12,
     <1>13, <1>14 DEF Next
<1> QED
  BY <1>0, <1>15, StockNext DEF CustodyInv

\* In every reachable state each prize the program owes, unsold or awarded, is
\* owned by the pool, and no two claims name the same asset.
THEOREM PrizesInCustody == Spec => []Custody
<1>1. Init => CustodyInv
  BY StockInit, CustodyInit DEF CustodyInv
<1>2. CustodyInv => Custody
  BY DEF CustodyInv
<1> QED
  BY <1>1, <1>2, CustodyNext, PTL DEF Spec

-----------------------------------------------------------------------------
(* The action properties: what no step may do to a waiting purchase, to an  *)
(* award, to a prize in custody or to a retired pool.                       *)

\* What the action properties rest on.
LedgerInv == ReserveInv /\ CustodyInv

\* It holds in the empty ledger and after every step.
LEMMA LedgerInductive ==
    /\ Init => LedgerInv
    /\ LedgerInv /\ [Next]_vars => LedgerInv'
<1>1. Init => LedgerInv
  BY ReserveInit, StockInit, CustodyInit DEF LedgerInv, CustodyInv
<1>2. LedgerInv /\ [Next]_vars => LedgerInv'
  BY ReserveNext, CustodyNext DEF LedgerInv
<1> QED
  BY <1>1, <1>2

\* Its parts, before and after a step.
LEMMA LedgerFacts ==
    ASSUME LedgerInv, [Next]_vars
    PROVE  /\ TypeOK /\ TypeOK' /\ QueueInv /\ CountInv /\ StockInv /\ Advance
           /\ SettledComplete /\ Custody
  BY TypeNext, StepAdvances
     DEF LedgerInv, ReserveInv, CountInv, QueueInv, CustodyInv

-----------------------------------------------------------------------------
(* Awards.                                                                 *)

\* Only a settlement makes awards, only a delivery ends one.
LEMMA AwardSteps ==
    ASSUME TypeOK, [Next]_vars
    PROVE  \/ SettledKept
           \/ \E s \in Seeds : Settle(s)
           \/ \E s \in Seeds, i \in 1 .. MaxCount : Deliver(s, i)
<1> DEFINE Goal == \/ SettledKept
                   \/ \E s \in Seeds : Settle(s)
                   \/ \E s \in Seeds, i \in 1 .. MaxCount : Deliver(s, i)
<1>a. ASSUME pulls' = pulls PROVE Goal
  BY <1>a DEF SettledKept
<1>1. ASSUME NEW t \in Terms, CreatePool(t) PROVE Goal
  BY <1>1, <1>a DEF CreatePool, CanCreatePool
<1>2. ASSUME NEW x \in {"paused", "active", "retired"}, SetStatus(x) PROVE Goal
  BY <1>2, <1>a DEF SetStatus, CanSetStatus
<1>3. ASSUME NEW a \in Assets, NEW t \in 0 .. MaxTiers, DepositItem(a, t) PROVE Goal
  BY <1>3, <1>a DEF DepositItem, CanDepositItem
<1>4. ASSUME NEW n \in Amounts, Withdraw(n) PROVE Goal
  BY <1>4, <1>a DEF Withdraw, CanWithdraw
<1>5. ASSUME NEW p \in Position, Reclaim(p) PROVE Goal
  BY <1>5, <1>a DEF Reclaim, CanReclaim
<1>6. ASSUME NEW s \in Seeds, NEW b \in Wallets, NEW n \in 1 .. MaxCount,
             NEW v \in 0 .. inventory_version, Buy(s, b, n, v)
      PROVE  Goal
  BY <1>6, QueueStepsKeepSettled
<1>7. ASSUME NEW s \in Seeds, Refund(s) PROVE Goal
  BY <1>7, QueueStepsKeepSettled
<1>8. ASSUME NEW q \in Quotes, NEW w \in Wallets, Buyback(q, w) PROVE Goal
  BY <1>8, <1>a DEF Buyback, CanBuyback
<1>9. ASSUME NEW n \in Amounts, Fund(n) PROVE Goal
  BY <1>9, <1>a DEF Fund
<1>10. ASSUME NEW a \in Assets, NEW w \in Wallets, NEW o \in Wallets \cup {Pool},
              TransferAsset(a, w, o)
       PROVE  Goal
  BY <1>10, <1>a DEF TransferAsset
<1>11. ASSUME Tick PROVE Goal
  BY <1>11, <1>a DEF Tick
<1>12. ASSUME UNCHANGED vars PROVE Goal
  BY <1>12, <1>a DEF vars
<1> QED
  BY <1>1, <1>2, <1>3, <1>4, <1>5, <1>6, <1>7, <1>8, <1>9, <1>10, <1>11, <1>12
     DEF Next

\* An award lasts until it is delivered.
LEMMA AwardsKeptStep ==
    ASSUME LedgerInv, [Next]_vars, NEW w \in Awards
    PROVE  KeptOrDelivered(w)
<1>0. TypeOK /\ TypeOK' /\ SettledComplete
  BY LedgerFacts
<1>1. CASE SettledKept
  <2>1. w \in Awards' /\ pulls'[w[1]] = pulls[w[1]]
    BY <1>1, KeptAwards
  <2> QED
    BY <2>1 DEF KeptOrDelivered
<1>2. ASSUME NEW s \in Seeds, Settle(s) PROVE KeptOrDelivered(w)
  <2>1. PICK d \in Draws(s) : Award(s, d)
    BY <1>2 DEF Settle, CanSettle
  <2>2. Wins(s, d)
    BY <1>0, <1>2, <2>1, SettleWins DEF Settle, CanSettle
  <2>3. w \in Awards' /\ pulls'[w[1]] = pulls[w[1]]
    BY <1>0, <2>2, WonAwards
  <2> QED
    BY <2>3 DEF KeptOrDelivered
<1>3. ASSUME NEW s \in Seeds, NEW i \in 1 .. MaxCount, Deliver(s, i)
      PROVE  KeptOrDelivered(w)
  <2>1. HandsOver(s, i)
    BY <1>0, <1>3, DeliverHandsOver
  <2>2. CASE w = <<s, i>>
    <3>1. w[1] = s /\ w[2] = i /\ pulls[s].outcomes[i].asset \in Assets
      BY <1>0, <2>2, AwardFacts
    <3>2. owner'[pulls[s].outcomes[i].asset] = pulls[s].buyer
      BY <1>0, <1>3, <3>1 DEF Deliver, CanDeliver, Move, Recipient, TypeOK
    <3> QED
      BY <3>1, <3>2 DEF KeptOrDelivered
  <2>3. CASE w # <<s, i>>
    BY <2>1, <2>3 DEF HandsOver, KeptOrDelivered
  <2> QED
    BY <2>2, <2>3
<1> QED
  BY <1>0, <1>1, <1>2, <1>3, AwardSteps

\* No step of the program ends an award except by delivering its asset to the
\* buyer recorded at purchase; closing a Pull drops nothing.
THEOREM AwardsLast == Spec => AwardsKept
<1>1. LedgerInv /\ [Next]_vars => [\A w \in Awards : KeptOrDelivered(w)]_vars
  BY AwardsKeptStep
<1> QED
  BY <1>1, LedgerInductive, PTL DEF Spec, AwardsKept

\* A pending pull is settled by its own settlement only.
LEMMA SettledBySettle ==
    ASSUME LedgerInv, [Next]_vars, NEW s \in Seeds, IsPending(s), IsSettled(s)'
    PROVE  Settle(s)
<1>0. TypeOK /\ TypeOK' /\ SettledComplete
  BY LedgerFacts
<1>1. ~ IsSettled(s) /\ pulls'[s] # pulls[s]
  BY DEF IsPending, IsSettled
<1>2. CASE SettledKept
  BY <1>1, <1>2 DEF SettledKept
<1>3. ASSUME NEW r \in Seeds, Settle(r) PROVE Settle(s)
  <2>1. PICK d \in Draws(r) : Award(r, d)
    BY <1>3 DEF Settle, CanSettle
  <2>2. Wins(r, d)
    BY <1>0, <1>3, <2>1, SettleWins DEF Settle, CanSettle
  <2>3. r = s
    BY <1>1, <2>2 DEF Wins
  <2> QED
    BY <1>3, <2>3
<1>4. ASSUME NEW r \in Seeds, NEW i \in 1 .. MaxCount, Deliver(r, i) PROVE FALSE
  <2>1. r # s
    BY <1>1, <1>4 DEF Deliver, CanDeliver
  <2> QED
    BY <1>0, <1>1, <1>4, <2>1, DeliverHandsOver
<1> QED
  BY <1>0, <1>2, <1>3, <1>4, AwardSteps

\* A settlement closes the Items it drew, one for each draw, and nothing else.
LEMMA SettleCloses ==
    ASSUME TypeOK, TypeOK', NEW s \in Seeds, IsHead(s), NEW d \in Draws(s), Award(s, d)
    PROVE  /\ ClosedItems = Drawn(s, d)
           /\ \A p \in ClosedItems : p < pulls[s].inventory_version
           /\ Cardinality(ClosedItems) = pulls[s].count
           /\ {items[p].asset : p \in ClosedItems}
                = {pulls'[s].outcomes[i].asset : i \in 1 .. pulls[s].count}
<1> DEFINE n == pulls[s].count
<1>1. s \in PendingSeeds
  BY DEF IsHead, PendingSeeds
<1>2. PICK m \in Nat : m = n
  BY <1>1, PendingNumbers
<1>3. ASSUME NEW i \in 1 .. n
      PROVE  /\ d[i] \in Position /\ d[i] \in Drawn(s, d)
             /\ d[i] < pulls[s].inventory_version
  BY DEF Draws, Candidates, Available, Drawn
<1>4. ASSUME NEW p \in Drawn(s, d) PROVE \E i \in 1 .. n : p = d[i]
  BY DEF Drawn
<1>5. ClosedItems = Drawn(s, d)
  <2>1. ASSUME NEW p \in Position
        PROVE  items'[p] # items[p] <=> p \in Drawn(s, d)
    BY DEF Award, CanAward, Won, ItemsAfter
  <2> QED
    BY <1>3, <1>4, <2>1 DEF ClosedItems
<1>6. \A p \in ClosedItems : p < pulls[s].inventory_version
  BY <1>3, <1>4, <1>5
<1>7. Cardinality(Drawn(s, d)) = m
  <2>1. IsFiniteSet(1 .. m) /\ Cardinality(1 .. m) = m
    <3>1. 1 \in Int /\ m \in Int /\ (IF 1 > m THEN 0 ELSE m - 1 + 1) = m
      OBVIOUS
    <3> QED
      BY <3>1, FS_Interval
  <2>2. d \in [1 .. m -> Drawn(s, d)]
    BY <1>2 DEF Draws, Drawn
  <2>3. d \in Surjection(1 .. m, Drawn(s, d))
    BY <1>2, <2>2 DEF Surjection, Drawn
  <2>4. d \in Injection(1 .. m, Drawn(s, d))
    BY <1>2, <2>2 DEF Injection, IsInjective, Draws
  <2> QED
    BY <2>1, <2>3, <2>4, FS_Surjection
<1>8. {items[p].asset : p \in Drawn(s, d)} = {pulls'[s].outcomes[i].asset : i \in 1 .. n}
  <2>1. \A i \in 1 .. n : pulls'[s].outcomes[i].asset = items[d[i]].asset
    BY SettleWins DEF Wins
  <2> QED
    BY <1>3, <1>4, <2>1
<1> QED
  BY <1>2, <1>5, <1>6, <1>7, <1>8

\* The settlement of the head awards prizes of its prefix, one for each draw, and
\* closes exactly their Items, in every reachable state.
THEOREM AwardsFromPrefix == Spec => AwardsPinned
<1>1. ASSUME LedgerInv, [Next]_vars PROVE AwardStep
  <2>0. TypeOK /\ TypeOK'
    BY <1>1, LedgerFacts
  <2>1. ASSUME NEW s \in Seeds, IsHead(s), IsSettled(s)'
        PROVE  /\ \A p \in ClosedItems : p < pulls[s].inventory_version
               /\ Cardinality(ClosedItems) = pulls[s].count
               /\ {items[p].asset : p \in ClosedItems}
                    = {pulls'[s].outcomes[i].asset : i \in 1 .. pulls[s].count}
    <3>1. Settle(s)
      BY <1>1, <2>1, SettledBySettle DEF IsHead
    <3>2. PICK d \in Draws(s) : Award(s, d)
      BY <3>1 DEF Settle, CanSettle
    <3> QED
      BY <2>0, <2>1, <3>2, SettleCloses
  <2> QED
    BY <2>1 DEF AwardStep
<1>2. LedgerInv /\ [Next]_vars => [AwardStep]_vars
  BY <1>1
<1> QED
  BY <1>2, LedgerInductive, PTL DEF Spec, AwardsPinned

-----------------------------------------------------------------------------
(* The stock, and the prizes in custody.                                   *)

\* What changes the stock.
LEMMA StockSteps ==
    ASSUME [Next]_vars
    PROVE  \/ UNCHANGED <<tags, items>>
           \/ \E a \in Assets : \E t : /\ CanRestock(t) /\ Restock(a, t)
                                        /\ status \in {"paused", "active"}
           \/ \E p \in Position : Reclaim(p)
           \/ \E s \in Seeds : Settle(s)
<1>1. \A q \in Quotes : q.asset \in Assets
  BY InputAssumption DEF Quote
<1>2. ASSUME Next PROVE
           \/ UNCHANGED <<tags, items>>
           \/ \E a \in Assets : \E t : /\ CanRestock(t) /\ Restock(a, t)
                                        /\ status \in {"paused", "active"}
           \/ \E p \in Position : Reclaim(p)
           \/ \E s \in Seeds : Settle(s)
  BY <1>1, <1>2 DEF Next, CreatePool, CanCreatePool, SetStatus, CanSetStatus, DepositItem,
                    CanDepositItem, Withdraw, CanWithdraw, Buy, CanBuy, Refund, CanRefund,
                    Buyback, CanBuyback, Deliver, CanDeliver, Fund, TransferAsset, Tick, stock
<1>3. ASSUME UNCHANGED vars PROVE UNCHANGED <<tags, items>>
  BY <1>3 DEF vars, stock
<1> QED
  BY <1>2, <1>3

\* What moves an asset.
LEMMA OwnerSteps ==
    ASSUME [Next]_vars
    PROVE  \/ owner' = owner
           \/ \E a \in Assets, w \in Wallets : \E o : Move(a, w, o)
           \/ \E p \in Position : Reclaim(p)
           \/ \E s \in Seeds, i \in 1 .. MaxCount : Deliver(s, i)
<1>1. \A q \in Quotes : q.asset \in Assets
  BY InputAssumption DEF Quote
<1>2. ASSUME Next PROVE
           \/ owner' = owner
           \/ \E a \in Assets, w \in Wallets : \E o : Move(a, w, o)
           \/ \E p \in Position : Reclaim(p)
           \/ \E s \in Seeds, i \in 1 .. MaxCount : Deliver(s, i)
  BY <1>1, <1>2, AccountAssumption
     DEF Next, CreatePool, CanCreatePool, SetStatus, CanSetStatus, DepositItem,
         CanDepositItem, Withdraw, CanWithdraw, Buy, CanBuy, Refund, CanRefund,
         Buyback, CanBuyback, Settle, CanSettle, Fund, TransferAsset, Tick
<1>3. ASSUME UNCHANGED vars PROVE owner' = owner
  BY <1>3 DEF vars
<1> QED
  BY <1>2, <1>3

\* A step that changes a candidate of a waiting pull settles an older one.
LEMMA PinnedHolds == ASSUME LedgerInv, [Next]_vars PROVE PinnedStep
<1>0. /\ TypeOK /\ TypeOK' /\ QueueInv /\ CountInv /\ StockInv /\ FIFOQueue
  BY LedgerFacts DEF QueueInv
<1> SUFFICES ASSUME NEW s \in Seeds, NEW p \in Position, IsPending(s), IsPending(s)',
                    p < pulls[s].inventory_version,
                    <<tags[p], items[p]>>' # <<tags[p], items[p]>>
             PROVE  /\ tags'[p] = 0 /\ items'[p] = NoItem
                    /\ \E h \in Seeds :
                         /\ IsHead(h) /\ IsSettled(h)'
                         /\ pulls[h].index < pulls[s].index
                         /\ \E i \in 1 .. pulls[h].count :
                              pulls'[h].outcomes[i].asset = items[p].asset
  BY DEF PinnedStep
<1>1. s \in PendingSeeds
  BY DEF PendingSeeds
<1>2. ~ UNCHANGED <<tags, items>>
  OBVIOUS
<1>3. ASSUME NEW a \in Assets, NEW t, CanRestock(t), Restock(a, t) PROVE FALSE
  <2>1. p # inventory_version
    <3>1. pulls[s].inventory_version <= inventory_version
      BY <1>0, <1>1 DEF FIFOQueue
    <3>2. pulls[s].inventory_version \in Nat
      BY <1>0, <1>1, PendingNumbers
    <3>3. inventory_version \in Nat
      BY <1>0, BoundAssumption DEF TypeOK
    <3> QED
      BY <3>1, <3>2, <3>3, BoundAssumption
  <2>2. tags'[p] = tags[p] /\ items'[p] = items[p]
    BY <1>0, <1>3, <2>1 DEF Restock, NextPosition, TypeOK
  <2> QED
    BY <2>2
<1>4. ASSUME NEW q \in Position, Reclaim(q) PROVE FALSE
  BY <1>0, <1>1, <1>4, NoneDueNoneWaiting DEF Reclaim, CanReclaim
<1>5. PICK h \in Seeds : Settle(h)
  BY <1>2, <1>3, <1>4, StockSteps
<1>6. PICK d \in Draws(h) : Award(h, d)
  BY <1>5 DEF Settle, CanSettle
<1>7. IsHead(h) /\ h \in PendingSeeds
  BY <1>5 DEF Settle, CanSettle, IsHead, PendingSeeds
<1>8. Wins(h, d)
  BY <1>0, <1>6, <1>7, SettleWins
<1>9. h # s
  BY <1>8 DEF Wins, IsPending, IsSettled
<1>10. pulls[h].index < pulls[s].index
  <2>1. /\ pulls[h].index = next_settle /\ next_settle <= pulls[s].index
        /\ pulls[h].index # pulls[s].index
    BY <1>0, <1>1, <1>7, <1>9, QueueFacts DEF IsHead
  <2>2. pulls[h].index \in Nat /\ pulls[s].index \in Nat
    BY <1>0, <1>1, <1>7, PendingNumbers
  <2> QED
    BY <2>1, <2>2
<1>11. p \in Drawn(h, d) /\ tags'[p] = 0 /\ items'[p] = NoItem
  BY <1>6 DEF Award, CanAward, Won, ItemsAfter
<1>12. PICK i \in 1 .. pulls[h].count : p = d[i]
  BY <1>11 DEF Drawn
<1>13. pulls'[h].outcomes[i].asset = items[p].asset
  BY <1>8, <1>12 DEF Wins
<1>14. IsSettled(h)'
  BY <1>8 DEF Wins
<1> QED
  BY <1>7, <1>10, <1>11, <1>13, <1>14

\* While a purchase waits, nothing enters the prefix its buyer signed, and only
\* the settlement of an older purchase takes anything out of it.
THEOREM PrefixPinned == Spec => PinnedCandidates
<1>1. LedgerInv /\ [Next]_vars => [PinnedStep]_vars
  BY PinnedHolds
<1> QED
  BY <1>1, LedgerInductive, PTL DEF Spec, PinnedCandidates

\* The pool gives an asset away to its winner, or back to the authority.
LEMMA ReleaseHolds == ASSUME LedgerInv, [Next]_vars PROVE ReleaseStep
<1>0. /\ TypeOK /\ TypeOK' /\ CountInv /\ SettledComplete /\ Custody
  BY LedgerFacts
<1> SUFFICES ASSUME NEW a \in Assets, owner[a] = Pool, owner'[a] # Pool
             PROVE  DeliversAward(a) \/ ReturnsUnsold(a)
  BY DEF ReleaseStep
<1>1. owner' # owner
  OBVIOUS
<1>2. ASSUME NEW b \in Assets, NEW w \in Wallets, NEW o, Move(b, w, o) PROVE FALSE
  BY <1>0, <1>2, AccountAssumption DEF Move, TypeOK
<1>3. ASSUME NEW p \in Position, Reclaim(p) PROVE ReturnsUnsold(a)
  <2>1. /\ items[p] # NoItem /\ Move(items[p].asset, Pool, Authority)
        /\ items' = [items EXCEPT ![p] = NoItem]
        /\ status = "retired" /\ pending_draws = 0
    BY <1>3 DEF Reclaim, CanReclaim
  <2>2. items[p].asset = a /\ owner'[a] = Authority
    BY <1>0, <2>1, ClaimedAssets DEF Move, TypeOK
  <2>3. items'[p] = NoItem
    BY <1>0, <2>1 DEF TypeOK
  <2>4. PendingSeeds = {}
    BY <1>0, <2>1, NoneDueNoneWaiting
  <2> QED
    BY <2>1, <2>2, <2>3, <2>4 DEF ReturnsUnsold
<1>4. ASSUME NEW s \in Seeds, NEW i \in 1 .. MaxCount, Deliver(s, i)
      PROVE  DeliversAward(a)
  <2>1. HandsOver(s, i)
    BY <1>0, <1>4, DeliverHandsOver
  <2>2. PICK w \in Awards : w = <<s, i>>
    BY <2>1 DEF HandsOver
  <2>3. w[1] = s /\ w[2] = i
    BY <2>2
  <2>4. pulls[s].outcomes[i].asset = a /\ owner'[a] = pulls[s].buyer
    <3>1. Move(pulls[s].outcomes[i].asset, Pool, pulls[s].buyer)
      BY <1>4 DEF Deliver, CanDeliver, Recipient
    <3>2. pulls[s].outcomes[i].asset \in Assets
      BY <1>0, <2>3, ClaimedAssets
    <3> QED
      BY <1>0, <3>1, <3>2 DEF Move, TypeOK
  <2>5. w \notin Awards'
    BY <2>1, <2>2 DEF HandsOver
  <2> QED
    BY <2>3, <2>4, <2>5 DEF DeliversAward
<1> QED
  BY <1>1, <1>2, <1>3, <1>4, OwnerSteps

\* An asset leaves the pool's custody as the delivery of an award to its buyer,
\* or as an unsold prize of a retired pool in which nobody waits.
THEOREM CustodyReleasedRightly == Spec => CustodyRelease
<1>1. LedgerInv /\ [Next]_vars => [ReleaseStep]_vars
  BY ReleaseHolds
<1> QED
  BY <1>1, LedgerInductive, PTL DEF Spec, CustodyRelease

\* Retirement is final: a retired pool gains no stock and no purchase.
LEMMA RetiredHolds == ASSUME LedgerInv, [Next]_vars PROVE RetiredStep
<1>0. /\ TypeOK /\ TypeOK' /\ QueueInv /\ Advance
  BY LedgerFacts
<1> SUFFICES ASSUME status = "retired"
             PROVE  /\ status' = "retired"
                    /\ next_index' = next_index
                    /\ Available(MaxPositions)' \subseteq Available(MaxPositions)
                    /\ PendingSeeds' \subseteq PendingSeeds
  BY DEF RetiredStep
<1>1. status' = "retired"
  BY DEF Next, vars, CreatePool, CanCreatePool, SetStatus, CanSetStatus, MayBecome,
         DepositItem, CanDepositItem, Withdraw, CanWithdraw, Reclaim, CanReclaim,
         Buy, CanBuy, Refund, CanRefund, Buyback, CanBuyback, Settle, CanSettle, Deliver,
         CanDeliver, Fund, TransferAsset, Tick
<1>2. next_index' = next_index
  BY DEF Next, vars, queue, CreatePool, CanCreatePool, SetStatus, CanSetStatus,
         DepositItem, CanDepositItem, Withdraw, CanWithdraw, Reclaim, CanReclaim,
         Buy, CanBuy, Refund, CanRefund, Buyback, CanBuyback, Settle, CanSettle, Deliver,
         CanDeliver, Fund, TransferAsset, Tick
<1>3. ASSUME NEW p \in Position, tags'[p] # 0 PROVE tags[p] # 0
  <2>1. CASE UNCHANGED <<tags, items>>
    BY <1>3, <2>1
  <2>2. ASSUME NEW q \in Position, Reclaim(q) PROVE tags[p] # 0
    BY <1>0, <1>3, <2>2 DEF Reclaim, CanReclaim, TypeOK
  <2>3. ASSUME NEW s \in Seeds, Settle(s) PROVE tags[p] # 0
    BY <1>3, <2>3 DEF Settle, CanSettle, Award, CanAward, Won
  <2> QED
    BY <2>1, <2>2, <2>3, StockSteps
<1>4. Available(MaxPositions)' \subseteq Available(MaxPositions)
  BY <1>3 DEF Available
<1>5. PendingSeeds' \subseteq PendingSeeds
  <2>1. CASE QueueKept
    BY <1>0, <2>1, KeptOrder
  <2>2. ASSUME NEW h \in Seeds, HeadLeaves(h) PROVE PendingSeeds' \subseteq PendingSeeds
    BY <1>0, <2>2, HeadLeavesOrder
  <2>3. ASSUME NEW s \in Seeds, NEW n \in 1 .. MaxCount, Joins(s, n) PROVE FALSE
    <3>1. next_index' = next_index + 1 /\ next_index \in Nat
      BY <1>0, <2>3, QueueFacts DEF Joins
    <3> QED
      BY <1>2, <3>1
  <2> QED
    BY <1>0, <2>1, <2>2, <2>3, StepKinds
<1> QED
  BY <1>1, <1>2, <1>4, <1>5

\* A retired pool stays retired, sells nothing, and its stock and queue shrink.
THEOREM RetirementIsFinal == Spec => RetiredOnlyDrains
<1>1. LedgerInv /\ [Next]_vars => [RetiredStep]_vars
  BY RetiredHolds
<1> QED
  BY <1>1, LedgerInductive, PTL DEF Spec, RetiredOnlyDrains

-----------------------------------------------------------------------------
(* Unsold prizes can be reclaimed.                                         *)

\* In every reachable state of a retired pool that owes nothing, every unsold
\* prize passes every check of Reclaim: the index, the header, the Item account
\* and Core all still agree about it.
LEMMA UnsoldPasses == LedgerInv => UnsoldReclaimable
<1> SUFFICES ASSUME LedgerInv, status = "retired", pending_draws = 0,
                    NEW p \in Available(inventory_version)
             PROVE  CanReclaim(p)
  BY DEF UnsoldReclaimable
<1>1. TypeOK /\ StockAgrees /\ Custody
  BY DEF LedgerInv, CustodyInv, StockInv
<1>2. p \in Position /\ p < inventory_version /\ tags[p] # 0
  BY DEF Available
<1>3. /\ items[p] # NoItem /\ tags[p] = items[p].tier + 1
      /\ items[p].tier \in Tiers
  BY <1>1, <1>2 DEF StockAgrees
<1>4. PICK t \in Tier : t = items[p].tier
  BY <1>3 DEF Tiers
<1>5. p \in Tagged(t)
  BY <1>2, <1>3, <1>4 DEF Tagged
<1>6. remaining[t] # 0
  <2>1. Cardinality(Tagged(t)) # 0
    BY <1>5, TaggedFinite, FS_EmptySet
  <2> QED
    BY <1>1, <2>1 DEF StockAgrees, Tagged
<1>7. owner[items[p].asset] = Pool
  BY <1>1, <1>2, <1>3 DEF Custody
<1> QED
  BY <1>2, <1>3, <1>4, <1>6, <1>7 DEF CanReclaim, TagMatches

\* Once a pool is retired and owes no draws, all its unsold prizes can be
\* reclaimed.
THEOREM UnsoldPassesGuards == Spec => []UnsoldReclaimable
BY UnsoldPasses, LedgerInductive, PTL DEF Spec


-----------------------------------------------------------------------------
(* The program implements Promises.                                        *)

\* What the refinement rests on.
PromiseInv == PledgeInv /\ LedgerInv

\* Its parts, before and after a step.
LEMMA PromiseFacts ==
    ASSUME PromiseInv, [Next]_vars
    PROVE  /\ PromiseInv' /\ TypeOK /\ TypeOK' /\ Solvency' /\ Custody /\ SettledComplete
           /\ CountInv /\ StockInv /\ StockInv' /\ QueueInv
           /\ AbsentOwesNothing /\ AbsentOwesNothing' /\ TermsValid
<1>1. PromiseInv'
  BY PledgeInductive, LedgerInductive DEF PromiseInv
<1> QED
  BY <1>1, LedgerFacts
     DEF PromiseInv, PledgeInv, SolvencyInv, ReserveInv, LedgerInv, CustodyInv, CountInv

\* The kinds of promises are the states of a Pull.
KindOf(s) ==
    /\ Promise!OwesDraws(s) <=> IsPending(s)
    /\ Promise!OwesPrizes(s) <=> IsSettled(s)
    /\ ~ IsPending(s) /\ ~ IsSettled(s) => Promised[s] = Promise!Kept
    /\ IsPending(s) => Promised[s] = Promise!DrawsFor(pulls[s].buyer, pulls[s].count)
    /\ IsSettled(s) => Promised[s] = Promise!PrizesFor(pulls[s].buyer, StillOwed(s))

\* So it is before and after a step.
LEMMA PromiseKinds == ASSUME NEW s \in Seeds PROVE KindOf(s) /\ KindOf(s)'
<1>1. KindOf(s)
  <2>1. ~ (IsPending(s) /\ IsSettled(s))
    BY DEF IsPending, IsSettled
  <2> QED
    BY <2>1
       DEF KindOf, Promise!OwesDraws, Promise!OwesPrizes, Promise!Kept,
           Promise!DrawsFor, Promise!PrizesFor, Promised
<1>2. KindOf(s)'
  <2>1. ~ (IsPending(s)' /\ IsSettled(s)')
    BY DEF IsPending, IsSettled
  <2> QED
    BY <2>1
       DEF KindOf, Promise!OwesDraws, Promise!OwesPrizes, Promise!Kept,
           Promise!DrawsFor, Promise!PrizesFor, Promised
<1> QED
  BY <1>1, <1>2

\* A step that leaves the other pulls alone changes one promise.
LEMMA PromiseChanges ==
    ASSUME NEW s \in Seeds, \A r \in Seeds \ {s} : pulls'[r] = pulls[r]
    PROVE  Promised' = [Promised EXCEPT ![s] = Promised'[s]]
<1>1. ASSUME NEW r \in Seeds \ {s} PROVE Promised'[r] = Promised[r]
  <2>1. pulls'[r] = pulls[r]
    BY <1>1
  <2>2. StillOwed(r)' = StillOwed(r)
    BY <2>1 DEF StillOwed
  <2>3. (IsPending(r)' <=> IsPending(r)) /\ (IsSettled(r)' <=> IsSettled(r))
    BY <2>1 DEF IsPending, IsSettled
  <2> QED
    BY <2>1, <2>2, <2>3 DEF Promised
<1> QED
  BY <1>1 DEF Promised

\* Both modules count with the same operator.
LEMMA SameSize == \A S : Promise!Cardinality(S) = Cardinality(S)
BY DEF Promise!Cardinality, Cardinality

\* The draws promised are the tickets of the whole queue, which the pool counts.
LEMMA DrawsPromised ==
    ASSUME CountInv
    PROVE  /\ Promise!DrawsOwed = Tickets(next_index)
           /\ Promise!Owed = pending_draws
<1>1. TypeOK /\ QueueInv /\ PendingDrawsCounted
  BY DEF CountInv, QueueInv
<1>2. ASSUME NEW s \in Seeds, NEW k \in 1 .. MaxCount
      PROVE  Promise!OwesDraws(s) /\ k <= Promised[s].count
               <=> s \in PendingSeeds /\ k <= pulls[s].count /\ pulls[s].index <= next_index
  <2>1. CASE IsPending(s)
    <3>0. Promised[s] = Promise!DrawsFor(pulls[s].buyer, pulls[s].count)
      BY <2>1, PromiseKinds DEF KindOf
    <3>1. s \in PendingSeeds /\ Promise!OwesDraws(s) /\ Promised[s].count = pulls[s].count
      BY <2>1, <3>0 DEF PendingSeeds, Promise!DrawsFor, Promise!OwesDraws
    <3>2. pulls[s].index <= next_index
      BY <1>1, <3>1, QueueFacts, PendingNumbers
    <3> QED
      BY <3>1, <3>2
  <2>2. CASE ~ IsPending(s)
    BY <2>2, PromiseKinds DEF KindOf, PendingSeeds
  <2> QED
    BY <2>1, <2>2
<1>3. Promise!DrawsOwed = Tickets(next_index)
  BY <1>2 DEF Promise!DrawsOwed, Tickets, PendingSeeds
<1> QED
  BY <1>1, <1>3, SameSize DEF Promise!Owed, PendingDrawsCounted

\* The shelf has one asset for each available position.
LEMMA ShelfSize ==
    ASSUME StockInv, Custody
    PROVE  Cardinality(Shelf) = TotalRemaining
<1> DEFINE A == Available(inventory_version)
           asset == [p \in A |-> items[p].asset]
<1>1. ASSUME NEW p \in Position PROVE p \in A <=> items[p] # NoItem
  BY DEF Available, StockInv, StockAgrees
<1>2. asset \in Surjection(A, Shelf)
  <2>1. asset \in [A -> Shelf]
    BY <1>1 DEF Available, Shelf
  <2>2. \A a \in Shelf : \E p \in A : asset[p] = a
    BY <1>1 DEF Available, Shelf
  <2> QED
    BY <2>1, <2>2 DEF Surjection
<1>3. asset \in Injection(A, Shelf)
  <2>1. \A p, q \in A : items[p].asset = items[q].asset => p = q
    BY <1>1 DEF Available, Custody
  <2> QED
    BY <1>2, <2>1 DEF Surjection, Injection, IsInjective
<1>4. Cardinality(Shelf) = Cardinality(A)
  BY <1>2, <1>3, AvailableFinite, FS_Surjection
<1> QED
  BY <1>4, TotalIsAvailable

\* What is owed after a step is covered by the vault.
LEMMA CoveredAfter ==
    ASSUME TypeOK', Solvency', NEW n, pending_draws' = n
    PROVE  DrawRefund' * n <= vault'
<1>1. n \in Nat /\ vault' \in Nat
  BY BoundAssumption DEF TypeOK
<1>2. CASE status' = "absent"
  BY <1>1, <1>2 DEF DrawRefund
<1>3. CASE status' # "absent"
  BY <1>3 DEF DrawRefund, Solvency
<1> QED
  BY <1>2, <1>3


\* What a step leaves alone.
LEMMA SamePromises ==
    /\ UNCHANGED <<status, terms>> => UNCHANGED Promise!terms
    /\ pulls' = pulls => Promised' = Promised
    /\ items' = items => Shelf' = Shelf
<1>1. UNCHANGED <<status, terms>> => UNCHANGED Promise!terms
  BY DEF Promise!terms, Phase, DrawPrice, DrawRefund
<1>2. pulls' = pulls => Promised' = Promised
  BY DEF Promised, IsPending, IsSettled, StillOwed
<1>3. items' = items => Shelf' = Shelf
  BY DEF Shelf
<1> QED
  BY <1>1, <1>2, <1>3

\* A restock puts one asset on the shelf.
LEMMA ShelfGains ==
    ASSUME TypeOK, NEW a \in Assets, NEW t, CanRestock(t), Restock(a, t)
    PROVE  Shelf' = Shelf \cup {a}
<1> DEFINE v == inventory_version
<1>1. v \in Position /\ t \in Tier
  BY BoundAssumption DEF CanRestock, Tiers, TypeOK
<1>2. /\ items'[v] = [tier |-> t, asset |-> a]
      /\ \A p \in Position : p # v => items'[p] = items[p]
      /\ items[v] = NoItem
  BY <1>1 DEF CanRestock, Restock, NextPosition, TypeOK
<1>3. items'[v] # NoItem /\ items'[v].asset = a
  BY <1>1, <1>2, NullAssumption DEF Item
<1>4. ASSUME NEW x
      PROVE  x \in Shelf' <=> x \in Shelf \/ x = a
  BY <1>1, <1>2, <1>3 DEF Shelf
<1> QED
  BY <1>4

\* Closing Items takes as many assets from the shelf.
LEMMA ShelfLoses ==
    ASSUME Custody, NEW gone \in SUBSET Position, IsFiniteSet(gone),
           \A p \in gone : items[p] # NoItem,
           \A p \in Position : items'[p] = IF p \in gone THEN NoItem ELSE items[p]
    PROVE  LET prizes == {items[p].asset : p \in gone}
           IN  /\ prizes \subseteq Shelf /\ Shelf' = Shelf \ prizes
               /\ Cardinality(prizes) = Cardinality(gone)
<1> DEFINE prizes == {items[p].asset : p \in gone}
           asset == [p \in gone |-> items[p].asset]
<1>1. \A p, q \in gone : items[p].asset = items[q].asset => p = q
  BY DEF Custody
<1>2. prizes \subseteq Shelf
  BY DEF Shelf
<1>3. ASSUME NEW x PROVE x \in Shelf' <=> x \in Shelf /\ x \notin prizes
  <2>1. ASSUME NEW p \in Position, items'[p] # NoItem, x = items'[p].asset
        PROVE  x \in Shelf /\ x \notin prizes
    <3>1. p \notin gone /\ items'[p] = items[p] /\ items[p] # NoItem
      BY <2>1
    <3>2. x \in Shelf
      BY <2>1, <3>1 DEF Shelf
    <3>3. ASSUME NEW q \in gone PROVE items[q].asset # x
      BY <2>1, <3>1, <3>3 DEF Custody
    <3> QED
      BY <3>2, <3>3
  <2>2. ASSUME NEW p \in Position, items[p] # NoItem, x = items[p].asset, x \notin prizes
        PROVE  items'[p] # NoItem /\ items'[p].asset = x
    BY <2>2
  <2> QED
    BY <2>1, <2>2 DEF Shelf
<1>4. Cardinality(prizes) = Cardinality(gone)
  <2>1. asset \in [gone -> prizes] /\ \A x \in prizes : \E p \in gone : asset[p] = x
    OBVIOUS
  <2>2. asset \in Surjection(gone, prizes)
    BY <2>1 DEF Surjection
  <2>3. \A p, q \in gone : asset[p] = asset[q] => p = q
    BY <1>1
  <2>4. asset \in Injection(gone, prizes)
    BY <2>1, <2>3 DEF Injection, IsInjective
  <2> QED
    BY <2>2, <2>4, FS_Surjection
<1> QED
  BY <1>2, <1>3, <1>4

\* Cash moves, and what backs the draws stays.
LEMMA CashMoves ==
    ASSUME PromiseInv, [Next]_vars, UNCHANGED <<status, terms, pending_draws>>
    PROVE  /\ DrawRefund * Promise!Owed <= vault' /\ vault' \in 0 .. Supply
           /\ UNCHANGED Promise!terms
<1>1. DrawRefund' * pending_draws <= vault'
  BY PromiseFacts, CoveredAfter
<1>2. DrawRefund' = DrawRefund
  BY DEF DrawRefund
<1>3. Promise!Owed = pending_draws
  BY PromiseFacts, DrawsPromised
<1> QED
  BY <1>1, <1>2, <1>3, PromiseFacts, SamePromises DEF TypeOK

\* A sale is backed by prizes and by cash.
LEMMA BuySells ==
    ASSUME PromiseInv, [Next]_vars, NEW s \in Seeds, NEW b \in Wallets,
           NEW n \in 1 .. MaxCount, NEW v \in 0 .. inventory_version, Buy(s, b, n, v)
    PROVE  Promise!Sell(s, b, n)
<1>1. /\ TypeOK /\ TypeOK' /\ Solvency' /\ Custody /\ CountInv /\ StockInv
  BY PromiseFacts
<1>2. n \in Nat /\ pending_draws \in Nat /\ terms.price \in Nat
  BY <1>1, BoundAssumption DEF TypeOK, Term
<1>3. /\ status = "active" /\ pulls[s] = NoPull /\ InStock(n)
      /\ pending_draws' = pending_draws + n
      /\ vault' = vault + terms.price * n
      /\ UNCHANGED <<status, terms, items, owner>>
  BY DEF Buy, CanBuy, Payment, stock
<1>4. Joins(s, n)
  BY <1>1, BuyJoins
<1>5. /\ Phase = "open" /\ DrawPrice = terms.price /\ DrawRefund' = DrawRefund
      /\ UNCHANGED Promise!terms /\ Shelf' = Shelf
  BY <1>3, SamePromises DEF Phase, DrawPrice, DrawRefund
<1>6. Promised[s] = Promise!Kept
  BY <1>3, PromiseKinds DEF KindOf, IsPending, IsSettled
<1>7. Promised' = [Promised EXCEPT ![s] = Promise!DrawsFor(b, n)]
  <2>1. IsPending(s)' /\ pulls'[s].count = n
    BY <1>4 DEF Joins
  <2>2. pulls'[s].buyer = b
    BY <1>1 DEF Buy, TypeOK
  <2>3. Promised'[s] = Promise!DrawsFor(b, n)
    BY <2>1, <2>2, PromiseKinds DEF KindOf, Promise!DrawsFor
  <2>4. \A r \in Seeds \ {s} : pulls'[r] = pulls[r]
    BY <1>4 DEF Joins
  <2> QED
    BY <2>3, <2>4, PromiseChanges
<1>8. Promise!Owed = pending_draws
  BY <1>1, DrawsPromised
<1>9. Promise!Owed + n <= Promise!Cardinality(Shelf)
  BY <1>1, <1>3, <1>8, ShelfSize, SameSize DEF InStock
<1>10. DrawRefund * (Promise!Owed + n) <= vault + DrawPrice * n
  <2>1. DrawRefund' * (pending_draws + n) <= vault'
    BY <1>1, <1>3, CoveredAfter
  <2> QED
    BY <1>3, <1>5, <1>8, <2>1
<1>11. vault + DrawPrice * n <= Supply
  <2>1. vault' <= Supply
    BY <1>1, BoundAssumption DEF TypeOK
  <2> QED
    BY <1>3, <1>5, <2>1
<1> QED
  BY <1>3, <1>5, <1>6, <1>7, <1>9, <1>10, <1>11 DEF Promise!Sell


\* A refund pays a promise of draws back.
LEMMA RefundPaysBack ==
    ASSUME PromiseInv, [Next]_vars, NEW s \in Seeds, Refund(s)
    PROVE  Promise!PayBack(s)
<1>1. TypeOK /\ TypeOK' /\ StockInv
  BY PromiseFacts
<1>2. /\ IsPending(s) /\ pulls[s] # NoPull
      /\ vault' = vault - RefundAmount(pulls[s].count)
      /\ pulls'[s] = NoPull /\ \A r \in Seeds \ {s} : pulls'[r] = pulls[r]
      /\ UNCHANGED <<status, terms, items, owner>>
  BY <1>1 DEF Refund, CanRefund, IsHead, IsPending, TypeOK, stock
<1>3. DrawRefund = terms.price + terms.bond_per_draw
  BY <1>1, <1>2 DEF DrawRefund, StockInv, AbsentSoldNothing
<1>4. Promise!OwesDraws(s) /\ Promised[s].count = pulls[s].count
  <2>1. Promised[s] = Promise!DrawsFor(pulls[s].buyer, pulls[s].count)
    BY <1>2, PromiseKinds DEF KindOf
  <2> QED
    BY <2>1 DEF Promise!OwesDraws, Promise!DrawsFor
<1>5. vault' = vault - DrawRefund * Promised[s].count /\ vault' >= 0
  BY <1>1, <1>2, <1>3, <1>4, BoundAssumption DEF RefundAmount, TypeOK
<1>6. Promised' = [Promised EXCEPT ![s] = Promise!Kept]
  <2>1. Promised'[s] = Promise!Kept
    BY <1>2, PromiseKinds DEF KindOf, IsPending, IsSettled
  <2> QED
    BY <1>2, <2>1, PromiseChanges
<1> QED
  BY <1>2, <1>4, <1>5, <1>6, SamePromises DEF Promise!PayBack

\* A settlement names a prize of the shelf for every draw.
LEMMA SettleAwards ==
    ASSUME PromiseInv, [Next]_vars, NEW s \in Seeds, Settle(s)
    PROVE  \E prizes \in SUBSET Shelf : Promise!Award(s, prizes)
<1>1. TypeOK /\ TypeOK' /\ Custody
  BY PromiseFacts
<1>2. PICK d \in Draws(s) : Award(s, d)
  BY DEF Settle
<1>3. IsHead(s) /\ IsPending(s) /\ UNCHANGED <<status, terms, vault, owner>>
  BY DEF Settle, CanSettle, IsHead
<1>4. Wins(s, d)
  BY <1>1, <1>2, <1>3, SettleWins
<1> DEFINE prizes == {items[p].asset : p \in Drawn(s, d)}
           n == pulls[s].count
<1>5. /\ Cardinality(Drawn(s, d)) = n
      /\ prizes = {pulls'[s].outcomes[i].asset : i \in 1 .. n}
  BY <1>1, <1>2, <1>3, SettleCloses
<1>6. prizes \subseteq Shelf /\ Shelf' = Shelf \ prizes /\ Cardinality(prizes) = n
  <2>1. Drawn(s, d) \in SUBSET Position /\ \A p \in Drawn(s, d) : items[p] # NoItem
    BY <1>2 DEF Draws, Candidates, Available, Drawn, Award, CanAward
  <2>2. \A p \in Position : items'[p] = IF p \in Drawn(s, d) THEN NoItem ELSE items[p]
    BY <1>2 DEF Award, ItemsAfter
  <2>3. IsFiniteSet(Drawn(s, d))
    BY <1>1, <1>3, DrawnSize DEF PendingSeeds
  <2> QED
    BY <1>1, <1>5, <2>1, <2>2, <2>3, ShelfLoses
<1>7. Promise!OwesDraws(s) /\ Promised[s].count = n /\ Promised[s].buyer = pulls[s].buyer
  <2>1. Promised[s] = Promise!DrawsFor(pulls[s].buyer, n)
    BY <1>3, PromiseKinds DEF KindOf
  <2> QED
    BY <2>1 DEF Promise!OwesDraws, Promise!DrawsFor
<1>8. Promised' = [Promised EXCEPT ![s] = Promise!PrizesFor(pulls[s].buyer, prizes)]
  <2>1. StillOwed(s)' = {pulls'[s].outcomes[i].asset : i \in 1 .. n}
    <3>1. pulls'[s].count = n /\ \A i \in 1 .. n : pulls'[s].outcomes[i].tier # DELIVERED
      BY <1>4 DEF Wins
    <3> QED
      BY <3>1 DEF StillOwed
  <2>2. IsSettled(s)' /\ pulls'[s].buyer = pulls[s].buyer
    BY <1>4 DEF Wins
  <2>3. Promised'[s] = Promise!PrizesFor(pulls[s].buyer, prizes)
    <3>1. Promised'[s] = Promise!PrizesFor(pulls'[s].buyer, StillOwed(s)')
      BY <2>2, PromiseKinds DEF KindOf, Promise!PrizesFor
    <3> QED
      BY <1>5, <2>1, <2>2, <3>1
  <2>4. \A r \in Seeds \ {s} : pulls'[r] = pulls[r]
    BY <1>4 DEF Wins
  <2> QED
    BY <2>3, <2>4, PromiseChanges
<1>9. Promise!Cardinality(prizes) = Promised[s].count
  BY <1>6, <1>7, SameSize
<1> HIDE DEF prizes
<1>10. Promise!Award(s, prizes)
  BY <1>3, <1>6, <1>7, <1>8, <1>9, SamePromises DEF Promise!Award
<1> QED
  BY <1>6, <1>10

\* What a settled pull still owes are its awards, before and after a step.
LEMMA OwedAwards ==
    ASSUME TypeOK, TypeOK', NEW s \in Seeds
    PROVE  /\ IsSettled(s) => \A x : x \in StillOwed(s) <=>
                \E k \in 1 .. MaxCount :
                  <<s, k>> \in Awards /\ x = pulls[s].outcomes[k].asset
           /\ IsSettled(s)' => \A x : x \in StillOwed(s)' <=>
                \E k \in 1 .. MaxCount :
                  <<s, k>> \in Awards' /\ x = pulls'[s].outcomes[k].asset
<1>1. ASSUME IsSettled(s)
      PROVE  \A k : k \in 1 .. pulls[s].count <=>
                      k \in 1 .. MaxCount /\ k <= pulls[s].count
  <2>1. pulls[s].count \in 1 .. MaxCount
    BY <1>1 DEF TypeOK, Pull, IsSettled
  <2> QED
    BY <2>1, BoundAssumption
<1>2. ASSUME IsSettled(s)'
      PROVE  \A k : k \in 1 .. pulls'[s].count <=>
                      k \in 1 .. MaxCount /\ k <= pulls'[s].count
  <2>1. pulls'[s].count \in 1 .. MaxCount
    BY <1>2 DEF TypeOK, Pull, IsSettled
  <2> QED
    BY <2>1, BoundAssumption
<1> QED
  BY <1>1, <1>2 DEF StillOwed, Awards

\* A Pull with one more outcome marked is a Pull.
LEMMA MarkedPull ==
    ASSUME TypeOK, SettledComplete, NEW s \in Seeds, IsSettled(s),
           NEW i \in 1 .. MaxCount, i <= pulls[s].count
    PROVE  [pulls[s] EXCEPT !.outcomes[i].tier = DELIVERED] \in Pull
<1> DEFINE o == pulls[s].outcomes
           marks == [o EXCEPT ![i].tier = DELIVERED]
<1>1. pulls[s] \in Pull
  BY DEF TypeOK, IsSettled
<1>2. PICK n \in Nat : n = pulls[s].count /\ i \in 1 .. n
  BY <1>1, BoundAssumption DEF Pull
<1>3. o \in [1 .. n -> Outcome]
  BY <1>2 DEF SettledComplete
<1>4. [o[i] EXCEPT !.tier = DELIVERED] \in Outcome
  <2>1. o[i] \in Outcome
    BY <1>2, <1>3
  <2> QED
    BY <2>1 DEF Outcome
<1>5. marks \in [1 .. n -> Outcome]
  BY <1>3, <1>4
<1> HIDE DEF marks
<1>6. marks \in Seq(Outcome)
  BY <1>5
<1>7. [pulls[s] EXCEPT !.outcomes = marks] \in Pull
  BY <1>1, <1>6 DEF Pull
<1> QED
  BY <1>1, <1>7 DEF Pull, marks

\* A delivery hands one of the prizes named to the buyer, and the last one keeps
\* the promise.
LEMMA DeliverHands ==
    ASSUME PromiseInv, [Next]_vars, NEW s \in Seeds, NEW i \in 1 .. MaxCount,
           Deliver(s, i)
    PROVE  \E a \in Assets : Promise!Hand(s, a)
<1>1. TypeOK /\ TypeOK' /\ Custody /\ SettledComplete
  BY PromiseFacts
<1> DEFINE a == pulls[s].outcomes[i].asset
           buyer == pulls[s].buyer
           left == StillOwed(s) \ {a}
           marked == [pulls[s] EXCEPT !.outcomes[i].tier = DELIVERED]
<1>2. /\ IsSettled(s) /\ <<s, i>> \in Awards /\ a \in Assets
      /\ Awards' = Awards \ {<<s, i>>}
      /\ \A w \in Awards' : pulls'[w[1]].outcomes[w[2]].asset
                              = pulls[w[1]].outcomes[w[2]].asset
      /\ \A r \in Seeds \ {s} : pulls'[r] = pulls[r]
  BY <1>1, DeliverHandsOver, AwardFacts DEF HandsOver, Deliver, CanDeliver
<1>3. /\ owner[a] = Pool /\ owner' = [owner EXCEPT ![a] = buyer]
      /\ UNCHANGED <<status, terms, items, vault>>
      /\ pulls' = [pulls EXCEPT ![s] = IF AllDelivered(marked) THEN NoPull ELSE marked]
  BY DEF Deliver, CanDeliver, Move, Recipient, stock
<1>4. /\ Promised[s].prizes = StillOwed(s) /\ Promised[s].buyer = buyer
      /\ Promise!OwesPrizes(s)
  <2>1. Promised[s] = Promise!PrizesFor(buyer, StillOwed(s))
    BY <1>2, PromiseKinds DEF KindOf
  <2> QED
    BY <2>1 DEF Promise!OwesPrizes, Promise!PrizesFor
<1>5. a \in StillOwed(s)
  BY <1>1, <1>2, OwedAwards
<1>6. \A x : x \in left <=>
        \E k \in 1 .. MaxCount : <<s, k>> \in Awards' /\ x = pulls'[s].outcomes[k].asset
  <2>1. \A k \in 1 .. MaxCount : <<s, k>> \in Awards' =>
          /\ <<s, k>> \in Awards /\ k # i
          /\ pulls'[s].outcomes[k].asset = pulls[s].outcomes[k].asset
    BY <1>2
  <2>2. \A k \in 1 .. MaxCount : <<s, k>> \in Awards /\ k # i =>
          <<s, k>> \in Awards' /\ pulls[s].outcomes[k].asset # a
    BY <1>1, <1>2 DEF Custody
  <2>3. \A x : x \in StillOwed(s) <=>
          \E k \in 1 .. MaxCount : <<s, k>> \in Awards /\ x = pulls[s].outcomes[k].asset
    BY <1>1, <1>2, OwedAwards
  <2> HIDE DEF left, a
  <2>4. ASSUME NEW x \in left
        PROVE  \E k \in 1 .. MaxCount :
                 <<s, k>> \in Awards' /\ x = pulls'[s].outcomes[k].asset
    <3>1. x \in StillOwed(s) /\ x # a
      BY <2>4 DEF left
    <3>2. PICK k \in 1 .. MaxCount : <<s, k>> \in Awards /\ x = pulls[s].outcomes[k].asset
      BY <2>3, <3>1
    <3>3. k # i
      BY <3>1, <3>2 DEF a
    <3> QED
      BY <2>1, <2>2, <3>2, <3>3
  <2>5. ASSUME NEW k \in 1 .. MaxCount, <<s, k>> \in Awards'
        PROVE  pulls'[s].outcomes[k].asset \in left
    <3>1. /\ pulls'[s].outcomes[k].asset \in StillOwed(s)
          /\ pulls'[s].outcomes[k].asset # a
      BY <2>1, <2>2, <2>3, <2>5 DEF a
    <3> QED
      BY <3>1 DEF left
  <2> QED
    BY <2>4, <2>5
<1>7. Promised'[s] = IF left = {} THEN Promise!Kept ELSE Promise!PrizesFor(buyer, left)
  <2>1. CASE AllDelivered(marked)
    <3>1. pulls'[s] = NoPull
      BY <1>1, <1>3, <2>1 DEF TypeOK
    <3>2. \A k : <<s, k>> \notin Awards'
      BY <3>1 DEF Awards, IsSettled
    <3>3. left = {}
      BY <1>6, <3>2
    <3>4. Promised'[s] = Promise!Kept
      BY <3>1, PromiseKinds DEF KindOf, IsPending, IsSettled
    <3> QED
      BY <3>3, <3>4
  <2>2. CASE ~ AllDelivered(marked)
    <3>1. pulls'[s] = marked /\ pulls[s] \in Pull
      BY <1>1, <1>2, <1>3, <2>2 DEF TypeOK, IsSettled
    <3>2. /\ marked.status = "settled" /\ marked.buyer = buyer
          /\ marked.count = pulls[s].count /\ marked # NoPull
      <4>1. marked.status = "settled" /\ marked.buyer = buyer /\ marked.count = pulls[s].count
        BY <1>2, <3>1 DEF Pull, IsSettled
      <4>2. marked # NoPull
        BY <1>1, <1>2, MarkedPull, NullAssumption DEF Deliver, CanDeliver
      <4> QED
        BY <4>1, <4>2
    <3>3. IsSettled(s)'
      BY <3>1, <3>2 DEF IsSettled
    <3>4. StillOwed(s)' = left
      <4>1. \A x : x \in StillOwed(s)' <=>
              \E k \in 1 .. MaxCount :
                <<s, k>> \in Awards' /\ x = pulls'[s].outcomes[k].asset
        BY <1>1, <3>3, OwedAwards
      <4> HIDE DEF left
      <4>2. \A x : x \in StillOwed(s)' <=> x \in left
        BY <1>6, <4>1
      <4> QED
        BY <4>2
    <3>5. left # {}
      <4>1. PICK j \in 1 .. marked.count : marked.outcomes[j].tier # DELIVERED
        BY <2>2 DEF AllDelivered
      <4>2. marked.outcomes[j].asset \in StillOwed(s)'
        BY <3>1, <4>1 DEF StillOwed
      <4> QED
        BY <3>4, <4>2
    <3>6. Promised'[s] = Promise!PrizesFor(pulls'[s].buyer, StillOwed(s)')
      BY <3>3, PromiseKinds DEF KindOf, Promise!PrizesFor
    <3> QED
      BY <3>1, <3>2, <3>4, <3>5, <3>6
  <2> QED
    BY <2>1, <2>2
<1>8. Promised' = [Promised EXCEPT ![s] =
                     IF left = {} THEN Promise!Kept ELSE Promise!PrizesFor(buyer, left)]
  BY <1>2, <1>7, PromiseChanges
<1> HIDE DEF a, left, buyer
<1>9. Promise!Hand(s, a)
  BY <1>3, <1>4, <1>5, <1>8, SamePromises DEF Promise!Hand, left
<1> QED
  BY <1>2, <1>9


\* Deposits and buybacks restock, reclaims clear, transfers trade.
LEMMA AssetsMove ==
    ASSUME PromiseInv, [Next]_vars
    PROVE  /\ \A a \in Assets, t \in 0 .. MaxTiers :
                DepositItem(a, t) => Promise!Restock(a)
           /\ \A q \in Quotes, w \in Wallets : Buyback(q, w) => Promise!Restock(q.asset)
           /\ \A p \in Position :
                Reclaim(p) => \E a \in Assets : Promise!Clear(a)
           /\ \A a \in Assets, w \in Wallets, to \in Wallets \cup {Pool} :
                TransferAsset(a, w, to) => Promise!Trade(a)
<1>1. /\ TypeOK /\ TypeOK' /\ Custody /\ CountInv /\ StockInv
  BY PromiseFacts
<1>2. ASSUME NEW a \in Assets, NEW t \in 0 .. MaxTiers, DepositItem(a, t)
      PROVE  Promise!Restock(a)
  <2>1. /\ status \in {"paused", "active"} /\ CanRestock(t) /\ Restock(a, t)
        /\ owner[a] \in Wallets /\ owner' = [owner EXCEPT ![a] = Pool]
        /\ UNCHANGED <<status, terms, pending_draws, pulls, vault>>
    BY <1>2, AccountAssumption DEF DepositItem, CanDepositItem, Move, queue
  <2>2. vault' \in 0 .. vault
    BY <1>1, <2>1, BoundAssumption DEF TypeOK
  <2>3. Phase = "open" /\ Shelf' = Shelf \cup {a} /\ Promised' = Promised
    BY <1>1, <2>1, ShelfGains, SamePromises DEF Phase
  <2> QED
    BY <2>1, <2>2, <2>3, CashMoves DEF Promise!Restock
<1>3. ASSUME NEW q \in Quotes, NEW w \in Wallets, Buyback(q, w)
      PROVE  Promise!Restock(q.asset)
  <2>1. q.asset \in Assets /\ q.price \in Nat
    BY InputAssumption DEF Quote
  <2>2. /\ status = "active" /\ CanRestock(q.tier) /\ Restock(q.asset, q.tier)
        /\ owner[q.asset] \in Wallets /\ owner' = [owner EXCEPT ![q.asset] = Pool]
        /\ vault' = vault - q.price
        /\ UNCHANGED <<status, terms, pending_draws, pulls>>
    BY <1>3 DEF Buyback, CanBuyback, Move, queue
  <2>3. vault' \in 0 .. vault
    BY <1>1, <2>1, <2>2, BoundAssumption, SMTT(20) DEF TypeOK
  <2>4. Phase = "open" /\ Shelf' = Shelf \cup {q.asset} /\ Promised' = Promised
    BY <1>1, <2>1, <2>2, ShelfGains, SamePromises DEF Phase
  <2> QED
    BY <2>2, <2>3, <2>4, CashMoves DEF Promise!Restock
<1>4. ASSUME NEW p \in Position, Reclaim(p)
      PROVE  \E a \in Assets : Promise!Clear(a)
  <2> DEFINE a == items[p].asset
  <2>1. /\ status = "retired" /\ pending_draws = 0 /\ items[p] # NoItem
        /\ owner[a] = Pool /\ owner' = [owner EXCEPT ![a] = Authority]
        /\ items' = [items EXCEPT ![p] = NoItem]
        /\ UNCHANGED <<status, terms, pulls, vault>>
    BY <1>4 DEF Reclaim, CanReclaim, Move
  <2>2. a \in Assets
    BY <1>1, <2>1 DEF TypeOK, Item
  <2>3. Promise!DrawsOwed = {}
    <3>1. PendingSeeds = {}
      BY <1>1, <2>1, NoneDueNoneWaiting
    <3> QED
      BY <1>1, <3>1, DrawsPromised DEF Tickets
  <2>4. a \in Shelf /\ Shelf' = Shelf \ {a}
    <3>1. IsFiniteSet({p}) /\ {p} \in SUBSET Position /\ {items[x].asset : x \in {p}} = {a}
      BY FS_Singleton
    <3>2. \A x \in Position : items'[x] = IF x \in {p} THEN NoItem ELSE items[x]
      BY <1>1, <2>1 DEF TypeOK
    <3> QED
      BY <1>1, <2>1, <3>1, <3>2, ShelfLoses
  <2>5. Promise!Clear(a)
    BY <2>1, <2>3, <2>4, SamePromises DEF Promise!Clear, Phase
  <2> QED
    BY <2>2, <2>5
<1>5. ASSUME NEW a \in Assets, NEW w \in Wallets, NEW to \in Wallets \cup {Pool},
             TransferAsset(a, w, to)
      PROVE  Promise!Trade(a)
  BY <1>5, SamePromises DEF TransferAsset, Move, stock, Promise!Trade
<1> QED
  BY <1>2, <1>3, <1>4, <1>5

\* Every step of the program is a step of Promises, or none.
LEMMA StepsKeepPromises ==
    ASSUME PromiseInv, [Next]_vars
    PROVE  [Promise!Next]_(Promise!pvars)
<1>0. TypeOK /\ TypeOK' /\ StockInv /\ AbsentOwesNothing
  BY PromiseFacts
<1>1. ASSUME NEW t \in Terms, CreatePool(t) PROVE Promise!Open
  <2>1. t \in Term /\ t.price \in Nat \ {0} /\ t.bond_per_draw \in Nat \ {0}
    BY <1>1, InputAssumption DEF CreatePool, CanCreatePool, ValidTerms, Term
  <2>2. /\ status = "absent" /\ status' = "paused" /\ terms' = t
        /\ UNCHANGED <<pulls, items, vault, owner>>
    BY <1>1 DEF CreatePool, CanCreatePool, stock
  <2>3. /\ Phase = "absent" /\ Phase' = "open" /\ DrawPrice' = t.price
        /\ DrawRefund' = t.price + t.bond_per_draw
    BY <2>2 DEF Phase, DrawPrice, DrawRefund
  <2> QED
    BY <2>1, <2>2, <2>3, SamePromises DEF Promise!Open
<1>2. ASSUME NEW s \in {"paused", "active", "retired"}, SetStatus(s)
      PROVE  Promise!Retire \/ UNCHANGED Promise!pvars
  <2>1. /\ status # "absent" /\ status' = s /\ (status = "retired" => s = "retired")
        /\ UNCHANGED <<terms, pulls, items, vault, owner>>
    BY <1>2 DEF SetStatus, CanSetStatus, MayBecome, stock
  <2>2. DrawPrice' = DrawPrice /\ DrawRefund' = DrawRefund
    BY <2>1 DEF DrawPrice, DrawRefund
  <2>3. \/ Phase = "open" /\ Phase' = "retired"
        \/ Phase' = Phase
    BY <2>1 DEF Phase
  <2> QED
    BY <2>1, <2>2, <2>3, SamePromises DEF Promise!Retire, Promise!pvars, Promise!terms
<1>3. ASSUME NEW n \in Amounts, Withdraw(n) \/ Fund(n) PROVE Promise!MoveCash
  <2>1. UNCHANGED <<status, terms, pending_draws, pulls, items, owner>>
    BY <1>3 DEF Withdraw, Fund, queue, stock
  <2> QED
    BY <2>1, CashMoves, SamePromises DEF Promise!MoveCash
<1>4. ASSUME Tick \/ UNCHANGED vars PROVE UNCHANGED Promise!pvars
  <2>1. UNCHANGED <<status, terms, pulls, items, vault, owner>>
    BY <1>4 DEF Tick, vars, stock
  <2> QED
    BY <2>1, SamePromises DEF Promise!pvars
<1>5. ASSUME NEW q \in Quotes PROVE q.asset \in Assets
  BY <1>5, InputAssumption DEF Quote
<1> QED
  BY <1>1, <1>2, <1>3, <1>4, <1>5, BuySells, RefundPaysBack, SettleAwards, DeliverHands,
     AssetsMove
     DEF Next, Promise!Next

\* The program implements Promises: every draw sold stays covered by a prize and by
\* cash until it takes place or is paid back, and every prize won goes to its buyer
\* and to nobody else.
THEOREM PromisesKept == Spec => KeepsPromises
<1>1. Init => Promise!Init
  <2> SUFFICES ASSUME Init PROVE Promise!Init
    OBVIOUS
  <2>1. \A s \in Seeds : ~ IsPending(s) /\ ~ IsSettled(s)
    BY DEF Init, IsPending, IsSettled
  <2>2. Promised = [s \in Seeds |-> Promise!Kept]
    BY <2>1 DEF Promised, Promise!Kept
  <2>3. Shelf = {}
    BY DEF Init, Shelf
  <2>4. Phase = "absent" /\ DrawPrice = 0 /\ DrawRefund = 0 /\ vault = 0
        /\ owner = [a \in Assets |-> Authority]
    BY DEF Init, Phase, DrawPrice, DrawRefund
  <2> QED
    BY <2>2, <2>3, <2>4 DEF Promise!Init
<1>2. Init => PromiseInv
  BY PledgeInductive, LedgerInductive DEF PromiseInv
<1>3. PromiseInv /\ [Next]_vars => PromiseInv' /\ [Promise!Next]_(Promise!pvars)
  BY PromiseFacts, StepsKeepPromises
<1> QED
  BY <1>1, <1>2, <1>3, PTL DEF Spec, KeepsPromises, Promise!Spec
=============================================================================
