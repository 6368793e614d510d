-------------------------- MODULE AbstractInventory --------------------------
(***************************************************************************)
(* What the availability index promises: a list of tier tags by position,  *)
(* appended at its end, where the rank-th available prize of a tier can be *)
(* taken and a known prize removed.  It is the linear inventory the unit   *)
(* test of the index compares it with.                                     *)
(***************************************************************************)
EXTENDS Naturals, Sequences, FiniteSets

CONSTANTS MaxTiers, MaxLength

Tier == 0 .. MaxTiers - 1

VARIABLES
    tags,     \* tags[p + 1]: 0 removed, otherwise the tier of position p, plus 1
    response  \* the position the last operation concerned

avars == <<tags, response>>

InTier(cutoff, tier) == {p \in 0 .. cutoff - 1 : tags[p + 1] = tier + 1}

Init == tags = <<>> /\ response = [op |-> "none"]

AppendTag(tier) ==
    /\ Len(tags) < MaxLength
    /\ tags' = Append(tags, tier + 1)
    /\ response' = [op |-> "append", position |-> Len(tags)]

Take(cutoff, tier, rank) ==
    \E p \in InTier(cutoff, tier) :
      /\ Cardinality(InTier(p, tier)) = rank
      /\ tags' = [tags EXCEPT ![p + 1] = 0]
      /\ response' = [op |-> "take", tier |-> tier, rank |-> rank, position |-> p]

Remove(position, tier) ==
    /\ position \in InTier(Len(tags), tier)
    /\ tags' = [tags EXCEPT ![position + 1] = 0]
    /\ response' = [op |-> "remove", position |-> position]

Next ==
    \/ \E t \in Tier : AppendTag(t)
    \/ \E c \in 1 .. Len(tags), t \in Tier, r \in 0 .. Len(tags) - 1 :
         Take(c, t, r)
    \/ \E p \in 0 .. Len(tags) - 1, t \in Tier : Remove(p, t)

Spec == Init /\ [][Next]_avars
=============================================================================
