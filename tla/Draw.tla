-------------------------------- MODULE Draw --------------------------------
(***************************************************************************)
(* The tiers that the draws of one settlement select, one hash after the   *)
(* other, by the weighted roll of module Roll.  The loop keeps its own     *)
(* counts of the eligible stock.                                           *)
(***************************************************************************)
EXTENDS Roll, FiniteSets

CONSTANTS
    TierCount,  \* tiers of the pool
    WordSize,   \* values of a hash word (2^64 in the code)
    MaxWeight,  \* bound on the weights tried (u32 in the code)
    MaxStock    \* bound on the eligible prizes per tier tried

Tier == 0 .. TierCount - 1
Word == 0 .. WordSize - 1

ASSUME DrawAssumption ==
    /\ TierCount \in Nat \ {0}
    /\ MaxStock \in Nat /\ MaxWeight \in Nat
    /\ WordSize \in Nat /\ WordSize >= TierCount * MaxWeight

VARIABLES
    weights,    \* the pool's tier weights, none of them zero
    available   \* eligible prizes left per tier

vars == <<weights, available>>

\* The tier a word selects now, as the set of its results.
TierOf(word) == DrawTier(TierCount, weights, available, word)

Init ==
    /\ weights \in [Tier -> 1 .. MaxWeight]
    /\ available \in [Tier -> 0 .. MaxStock]

\* A draw over the loop's counts; SoldOut ends the transaction when the stocked
\* tiers weigh nothing.
DrawOne(word) ==
    /\ Total(TierCount, weights, available) # 0
    /\ \E t \in TierOf(word) : available' = [available EXCEPT ![t] = @ - 1]
    /\ UNCHANGED weights

Next == \E w \in Word : DrawOne(w)

Spec == Init /\ [][Next]_vars

-----------------------------------------------------------------------------
(* Properties.                                                             *)

\* While a prize is eligible, whatever the hash, a draw selects exactly one tier
\* and that tier is stocked: the walk neither runs off the end nor lands on an
\* empty tier, and the counts never go negative.
DrawsAlwaysLand ==
    /\ \A t \in Tier : available[t] >= 0
    /\ (\E t \in Tier : available[t] > 0) =>
         \A w \in Word : \E t \in Tier : available[t] > 0 /\ TierOf(w) = {t}

\* Relative odds: of Total consecutive words, every stocked tier is selected by
\* exactly its weight, so an emptied tier's odds go to the others in proportion.
ExactOdds ==
    (\E t \in Tier : available[t] > 0) =>
      LET total == SumBelow(TierCount,
                            [t \in Tier |-> IF available[t] > 0 THEN weights[t] ELSE 0],
                            TierCount)
      IN  \A t \in Tier :
            Cardinality({w \in 0 .. total - 1 : TierOf(w) = {t}})
              = IF available[t] > 0 THEN weights[t] ELSE 0
=============================================================================
