------------------------------- MODULE MCRelay -------------------------------
(* Instances of Relay for TLC. *)
EXTENDS Relay

CONSTANTS a1, a2, a3, auth

OneTerm == {[tier_count |-> MaxTiers, weights |-> [t \in Tier |-> 1],
             price |-> 1, bond_per_draw |-> 1, deadline_slots |-> 1]}
TwoPrizes == <<[tier |-> 0, asset |-> a1], [tier |-> MaxTiers - 1, asset |-> a2]>>
ThreePrizes == Append(TwoPrizes, [tier |-> 0, asset |-> a3])
NoQuotes == {}
SlotTime == [s \in 0 .. MaxSlot |-> s]

\* The same output for every seed, low words first or high words first.
TwoOutputs ==
    LET low == [tier |-> 0, rank |-> 0]
        high == [tier |-> 1, rank |-> 1]
    IN  {[s \in Seeds |-> [i \in 1 .. MaxCount |-> IF i = 1 THEN low ELSE high]],
         [s \in Seeds |-> [i \in 1 .. MaxCount |-> IF i = 1 THEN high ELSE low]]}
=============================================================================
