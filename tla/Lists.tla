-------------------------------- MODULE Lists --------------------------------
(***************************************************************************)
(* What the loops of the code compute, without their loop variables: a     *)
(* running sum, a scan in ascending order, the groups that are not empty.  *)
(***************************************************************************)
EXTENDS Integers, FiniteSets, Sequences

\* Sum of f[i] over the first m of n indexes, from 0.
SumBelow(n, f, m) ==
    LET sum[i \in 0 .. n] == IF i = 0 THEN 0 ELSE sum[i - 1] + f[i - 1]
    IN  sum[m]

\* The member of a set of numbers that has k smaller ones in it.
Nth(S, k) == CHOOSE p \in S : Cardinality({q \in S : q < p}) = k

\* A scan by number lists what it finds in ascending order.
Ascending(S) == [i \in 1 .. Cardinality(S) |-> Nth(S, i - 1)]

\* Vec::retain of the groups that hold something.
NonEmpty(groups) ==
    LET kept == Ascending({k \in DOMAIN groups : groups[k] # <<>>})
    IN  [i \in DOMAIN kept |-> groups[kept[i]]]
=============================================================================
