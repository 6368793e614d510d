-------------------------------- MODULE Roll --------------------------------
(***************************************************************************)
(* Pool::draw, a pure function: one hash word selects a tier by weight     *)
(* among the n tiers that still hold an eligible prize, another word a     *)
(* rank inside that tier.  weights and available are functions of the tier.*)
(* Operators named X_Y are mutants of X, used to test the properties.      *)
(***************************************************************************)
EXTENDS Lists

Stocked_All(available, t) == TRUE
Stocked(available, t) == available[t] > 0

\* The weight a tier contributes to the total: none when it is empty.
Share(weights, available, t) == IF Stocked(available, t) THEN weights[t] ELSE 0
Shares(n, weights, available) == [t \in 0 .. n - 1 |-> Share(weights, available, t)]
Total(n, weights, available) == SumBelow(n, Shares(n, weights, available), n)

\* The roll left when the walk reaches tier t.
RollAt(n, weights, available, word, t) ==
    (word % Total(n, weights, available)) - SumBelow(n, Shares(n, weights, available), t)

Hits_Inclusive(n, weights, available, word, t) ==
    RollAt(n, weights, available, word, t) <= weights[t]
Hits(n, weights, available, word, t) ==
    RollAt(n, weights, available, word, t) < weights[t]

\* The first stocked tier whose weight exceeds what is left of the roll; empty
\* when the walk runs off the end.
DrawTier(n, weights, available, word) ==
    LET drawn(t) == Stocked(available, t) /\ Hits(n, weights, available, word, t)
    IN  {t \in 0 .. n - 1 : drawn(t) /\ \A u \in 0 .. t - 1 : ~ drawn(u)}

\* The rank inside the tier drawn, which module SettleDraws turns into a position.
Rank(available, word, t) == word % available[t]
=============================================================================
