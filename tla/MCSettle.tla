------------------------------ MODULE MCSettle ------------------------------
(* Settlement alone: every small stock, pinned prefix and VRF output. *)
EXTENDS Kit

CONSTANTS s1, auth, Weights

\* A pool whose positions were deposited in any tiers and partly sold, with
\* one purchase waiting at the head, made before the last deposits.
AnyStock ==
    /\ status = "active"
    /\ \E w \in Weights :
         terms = [tier_count |-> MaxTiers, weights |-> w, price |-> 1,
                  bond_per_draw |-> 1, deadline_slots |-> 1]
    /\ inventory_version = MaxPositions
    /\ tags \in [Position -> 0 .. MaxTiers]
    /\ items = [p \in Position |->
                  IF tags[p] = 0 THEN NoItem ELSE [tier |-> tags[p] - 1, asset |-> p]]
    /\ remaining = [t \in Tier |-> Cardinality({p \in Position : tags[p] = t + 1})]
    /\ \E n \in 1 .. MaxCount, v \in 0 .. MaxPositions :
         /\ n <= Cardinality(Available(v))
         /\ pulls = [s \in Seeds |->
                       [status |-> "pending", count |-> n, inventory_version |-> v,
                        index |-> 0, deadline_slot |-> 1, buyer |-> auth,
                        outcomes |-> <<>>]]
         /\ pending_draws = n
    /\ next_index = 1
    /\ next_settle = 0
    /\ vault = 2 * MaxCount
    /\ owner = [a \in Assets |-> IF tags[a] = 0 THEN auth ELSE Pool]
    /\ slot = 0

\* The SDK plans from the present ledger and its transaction lands.
SettleNext ==
    \E s \in Seeds, output \in VRFOutput :
      /\ pending(Ledger, s)
      /\ SettleWith(s, output, PlanDraws(Ledger, s, output))

SettleSpec == AnyStock /\ [][SettleNext]_vars

NoTerms == {}
NoQuotes == {}
SlotTime == [s \in 0 .. MaxSlot |-> s]
TwoWeights == {[t \in Tier |-> 1], [t \in Tier |-> t + 1]}
=============================================================================
