----------------------------- MODULE SettleDraws -----------------------------
(***************************************************************************)
(* Which prizes one settlement selects, as a function of the verified VRF  *)
(* output: the draw loop of the program over the weighted rolls of module  *)
(* Roll and the availability index.  Gacha leaves the selection open; this *)
(* module composes the two and compares.                                   *)
(* Operators named X_Y are mutants of X, used to test the properties.      *)
(***************************************************************************)
EXTENDS Gacha, Roll, SequencesExt

CONSTANT WordSize  \* values of a hash word (2^64 in the code)

\* More values than a tier has prizes, and than the weights of a pool add up to
\* (2^64 against eight u32).
ASSUME WordAssumption ==
    /\ WordSize \in Nat \ {0} /\ WordSize >= MaxPositions
    /\ \A t \in Terms : SumBelow(MaxTiers, t.weights, MaxTiers) <= WordSize

\* sha256(beta, i) for each draw i: two words of it are used.
Word == 0 .. WordSize - 1
VRFOutput == [1 .. MaxCount -> [tier : Word, rank : Word]]

\* Pool::draw over given counts of eligible prizes.
RollTier(weights, counts, hash) ==
    CHOOSE t \in DrawTier(MaxTiers, weights, counts, hash.tier) : TRUE
RollRank(weights, counts, hash, t) == Rank(counts, hash.rank, t)

\* The eligible stock the loop starts from, per tier.
EligibleCounts_Unpinned(s) ==
    [t \in Tier |-> Cardinality({p \in Available(inventory_version) : tags[p] = t + 1})]
EligibleCounts(s) ==
    [t \in Tier |->
       Cardinality({p \in Available(pulls[s].inventory_version) : tags[p] = t + 1})]

\* The loop: it rolls over its own counts, while take searches the live index,
\* which has no cutoff.
ChainDraws(s, output) ==
    LET loop[i \in 0 .. pulls[s].count] ==
          IF i = 0
          THEN [taken |-> <<>>, counts |-> EligibleCounts(s)]
          ELSE LET before == loop[i - 1]
                   tier == RollTier(terms.weights, before.counts, output[i])
                   rank == RollRank(terms.weights, before.counts, output[i], tier)
                   live == {p \in Position : tags[p] = tier + 1} \ ToSet(before.taken)
               IN  [taken |-> Append(before.taken, Nth(live, rank)),
                    counts |-> [before.counts EXCEPT ![tier] = @ - 1]]
    IN  loop[pulls[s].count].taken

\* Settle with the Item accounts its transaction passes, one per draw.
CanSettleWith(s, output, passed) ==
    /\ CanSettle(s)
    /\ passed = ChainDraws(s, output)
    /\ CanAward(s, passed)
SettleWith(s, output, passed) ==
    /\ CanSettleWith(s, output, passed)
    /\ Award(s, passed)
    /\ Settle(s)

-----------------------------------------------------------------------------
(* Properties.                                                             *)

\* What the draw loop selects over all VRF outputs is what Settle may award: the
\* loop stays inside the pinned prefix although take searches past it, never
\* repeats a prize, and no eligible sequence is out of its reach.
DrawsReachable ==
    \A s \in Seeds : IsHead(s) =>
      {ChainDraws(s, output) : output \in VRFOutput} = Draws(s)
=============================================================================
