------------------------------- MODULE MCGacha -------------------------------
(* Instances of Gacha, alone and with the SDK's plans, for TLC. *)
EXTENDS Client

CONSTANTS a1, a2, a3, auth, alice, bob

\* One banner of two tiers, price 1 and penalty 1, a deadline one slot away.
OneTerm == {[tier_count |-> 2, weights |-> [t \in Tier |-> 1],
             price |-> 1, bond_per_draw |-> 1, deadline_slots |-> 1]}

OneTierTerm == {[tier_count |-> 1, weights |-> [t \in Tier |-> 1],
                 price |-> 1, bond_per_draw |-> 1, deadline_slots |-> 1]}

\* Around the limits of a three-bit u64: the first is the only valid one.
BoundaryTerms ==
    LET good == [tier_count |-> 1, weights |-> [t \in Tier |-> 1 - t],
                 price |-> 2, bond_per_draw |-> 1, deadline_slots |-> 1]
    IN  {good,
         [good EXCEPT !.tier_count = 2],       \* a used tier of weight 0
         [good EXCEPT !.tier_count = 0],
         [good EXCEPT !.tier_count = MaxTiers + 1],
         [good EXCEPT !.price = 0],
         [good EXCEPT !.bond_per_draw = 0],
         [good EXCEPT !.deadline_slots = 0],
         [good EXCEPT !.price = 3]}            \* MaxCount refunds overflow

NoQuotes == {}
\* A quote that expires during the run, and one for a tier the pool lacks.
TwoQuotes == {[asset |-> a1, price |-> 1, expires_at |-> 3, tier |-> 1],
              [asset |-> a1, price |-> 0, expires_at |-> 3, tier |-> MaxTiers]}
SlotTime == [s \in 0 .. MaxSlot |-> s]
AssetSymmetry == Permutations(Assets)
=============================================================================
