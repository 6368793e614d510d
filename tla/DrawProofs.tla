----------------------------- MODULE DrawProofs -----------------------------
(***************************************************************************)
(* The weighted draw lands and has the odds it promises, for every number  *)
(* of tiers, every weight and every stock.                                 *)
(***************************************************************************)
EXTENDS Draw, RollProofs, FiniteSetTheorems

USE DEF Tier

-----------------------------------------------------------------------------
(* The draw loop.                                                          *)

\* The inductive invariant: no weight is zero and no count is negative.
DrawInv ==
    /\ weights \in [Tier -> 1 .. MaxWeight]
    /\ available \in [Tier -> 0 .. MaxStock]

\* The roll at which the walk reaches tier t.
From(t) == Bound(TierCount, weights, available, t)

\* The weight of the tiers in stock.
Weight == Total(TierCount, weights, available)

\* It gives every roll the stock that the lemmas of RollProofs ask for.
LEMMA LoopOdds == DrawInv => Odds(TierCount, weights, available)
  BY DrawAssumption DEF DrawInv, Odds

\* The counts stay counts: a draw takes from a stocked tier only.
LEMMA DrawNext == DrawInv /\ [Next]_vars => DrawInv'
<1> SUFFICES ASSUME DrawInv, [Next]_vars PROVE DrawInv'
  OBVIOUS
<1>1. ASSUME NEW w \in Word, DrawOne(w) PROVE DrawInv'
  <2>1. PICK t \in TierOf(w) : available' = [available EXCEPT ![t] = @ - 1]
    BY <1>1 DEF DrawOne
  <2>2. t \in Tier /\ available[t] > 0
    BY DEF TierOf, DrawTier, Stocked
  <2>3. available[t] \in 0 .. MaxStock /\ available[t] - 1 \in 0 .. MaxStock
    BY <2>2, DrawAssumption DEF DrawInv
  <2>4. available' \in [Tier -> 0 .. MaxStock]
    BY <2>1, <2>2, <2>3 DEF DrawInv
  <2>5. weights' = weights
    BY <1>1 DEF DrawOne
  <2> QED
    BY <2>4, <2>5 DEF DrawInv
<1>2. ASSUME UNCHANGED vars PROVE DrawInv'
  BY <1>2 DEF DrawInv, vars
<1> QED
  BY <1>1, <1>2 DEF Next

-----------------------------------------------------------------------------
(* The theorems.                                                           *)

\* In every reachable state of every draw loop, while a prize is eligible,
\* Pool::draw selects exactly one tier, a stocked one, for every hash word.
THEOREM EveryDrawLands == Spec => []DrawsAlwaysLand
<1>1. Init => DrawInv
  BY DEF Init, DrawInv
<1>2. DrawInv => DrawsAlwaysLand
  <2> SUFFICES ASSUME DrawInv PROVE DrawsAlwaysLand
    OBVIOUS
  <2>1. \A t \in Tier : available[t] >= 0
    BY DrawAssumption DEF DrawInv
  <2>2. ASSUME \E t \in Tier : available[t] > 0, NEW w \in Word
        PROVE  \E t \in Tier : available[t] > 0 /\ TierOf(w) = {t}
    <3>1. w \in Nat
      BY DrawAssumption DEF Word
    <3> QED
      BY <2>2, <3>1, LoopOdds, DrawLands DEF TierOf
  <2> QED
    BY <2>1, <2>2 DEF DrawsAlwaysLand
<1> QED
  BY <1>1, <1>2, DrawNext, PTL DEF Spec

\* In every reachable state the words 0 .. Total - 1 select each tier exactly as
\* often as its weight, an empty one never: the odds are the relative weights of
\* the tiers in stock, whatever the number of tiers and the weights.
THEOREM OddsAreExact == Spec => []ExactOdds
<1>1. Init => DrawInv
  BY DEF Init, DrawInv
<1>2. DrawInv => ExactOdds
  <2> SUFFICES ASSUME DrawInv, \E t \in Tier : available[t] > 0, NEW t \in Tier
               PROVE  Cardinality({w \in 0 .. Weight - 1 : TierOf(w) = {t}})
                        = Share(weights, available, t)
    BY DEF ExactOdds, Weight, Total, Shares, Share, Stocked
  <2>1. PICK total \in Nat : total = Weight /\ total > 0
    BY LoopOdds, TotalPositive DEF Weight
  <2>2. t \in 0 .. TierCount /\ t + 1 \in 0 .. TierCount /\ TierCount \in 0 .. TierCount
        /\ t + 1 <= TierCount
    BY DrawAssumption
  <2>3. PICK a \in Nat, x \in Nat : /\ a = From(t) /\ x = Share(weights, available, t)
                                    /\ From(t + 1) = a + x
    BY <2>2, LoopOdds, Bounds DEF From
  <2>4. a + x <= total
    BY <2>1, <2>2, <2>3, LoopOdds, Bounds DEF From, Weight
  <2>5. ASSUME NEW w \in 0 .. total - 1
        PROVE  TierOf(w) = {t} <=> a <= w /\ w < a + x
    <3>1. w \in Nat /\ w % Weight = w
      BY <2>1, SmallRemainder
    <3>2. PICK u \in Tier : /\ TierOf(w) = {u}
                            /\ From(u) <= w /\ w < From(u + 1)
      <4>1. PICK u \in Tier : /\ TierOf(w) = {u}
                              /\ From(u) <= w % Weight /\ w % Weight < From(u + 1)
        BY <3>1, LoopOdds, DrawLands DEF From, Weight, TierOf
      <4> QED
        BY <3>1, <4>1
    <3>3. a <= w /\ w < a + x => TierOf(w) = {t}
      BY <2>1, <2>3, <3>1, LoopOdds, TierOfRoll DEF From, Weight, TierOf
    <3>4. TierOf(w) = {t} => u = t
      BY <3>2
    <3> QED
      BY <2>3, <3>2, <3>3, <3>4
  <2>6. {w \in 0 .. total - 1 : TierOf(w) = {t}} = a .. a + x - 1
    BY <2>1, <2>4, <2>5
  <2>7. Cardinality(a .. a + x - 1) = x
    <3>1. a \in Int /\ a + x - 1 \in Int
          /\ (IF a > a + x - 1 THEN 0 ELSE (a + x - 1) - a + 1) = x
      OBVIOUS
    <3> QED
      BY <3>1, FS_Interval
  <2> QED
    BY <2>1, <2>3, <2>6, <2>7
<1> QED
  BY <1>1, <1>2, DrawNext, PTL DEF Spec
=============================================================================
