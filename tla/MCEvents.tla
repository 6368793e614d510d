------------------------------- MODULE MCEvents -------------------------------
(* An instance of GachaEvents for TLC. *)
EXTENDS GachaEvents

CONSTANTS a1, a2, auth, alice

OneTerm == {[tier_count |-> 2, weights |-> [t \in Tier |-> 1],
             price |-> 1, bond_per_draw |-> 1, deadline_slots |-> 1]}
OneQuote == {[asset |-> a1, price |-> 1, expires_at |-> 3, tier |-> 1]}
SlotTime == [s \in 0 .. MaxSlot |-> s]
=============================================================================
