--------------------------------- MODULE Kit ---------------------------------
(***************************************************************************)
(* The TypeScript SDK's simulation of a settlement.  The Rust SDK shares   *)
(* Pool::draw with the program; this one rolls tiers by itself, so the     *)
(* draw exists three times: ChainDraws, PlanDraws and KitDraws.            *)
(***************************************************************************)
EXTENDS Client

\* The weights of the tiers, but for those without candidates, added up.
KitShares(weights, candidates) ==
    [t \in Tier |-> IF candidates[t] = <<>> THEN 0 ELSE weights[t]]
KitTotal(weights, candidates) ==
    SumBelow(MaxTiers, KitShares(weights, candidates), MaxTiers)

\* What is left of the roll on reaching each tier, empty ones passed over; the
\* first tier whose weight exceeds it is drawn.
KitTier(weights, candidates, word) ==
    LET roll[t \in 0 .. MaxTiers] ==
          IF t = 0 THEN word % KitTotal(weights, candidates)
          ELSE IF candidates[t - 1] = <<>> THEN roll[t - 1]
          ELSE roll[t - 1] - weights[t - 1]
        hit(t) == candidates[t] # <<>> /\ roll[t] < weights[t]
    IN  CHOOSE t \in Tier : hit(t) /\ \A u \in Tier : u < t => ~ hit(u)

\* Pool.settle: the same scan as PlanLists, then one splice per draw.
KitDraws(v, s, output) ==
    LET plan[i \in 0 .. v.pulls[s].count] ==
          IF i = 0
          THEN [selected |-> <<>>, candidates |-> PlanLists(v, s)]
          ELSE LET before == plan[i - 1]
                   tier == KitTier(v.terms.weights, before.candidates, output[i].tier)
                   rank == output[i].rank % Len(before.candidates[tier])
               IN  [selected |-> Append(before.selected, before.candidates[tier][rank + 1]),
                    candidates |-> [before.candidates EXCEPT ![tier] = RemoveAt(@, rank + 1)]]
    IN  plan[v.pulls[s].count].selected

-----------------------------------------------------------------------------
(* Properties.                                                             *)

\* The SDKs simulate a settlement over lists of candidates, the program searches
\* its index, and two of the three roll the tier in code of their own: the pool
\* decodes and, whatever the VRF output, all select the same prizes in the same
\* order, each of them in an Item that can be fetched.
PlannedDrawsExact ==
    \A s \in Seeds : pending(Ledger, s) =>
      /\ PoolDecodes(Ledger)
      /\ \A output \in VRFOutput :
           LET draws == ChainDraws(s, output) IN
           /\ PlanDraws(Ledger, s, output) = draws
           /\ KitDraws(Ledger, s, output) = draws
           /\ \A i \in DOMAIN draws : items[draws[i]] # NoItem
=============================================================================
