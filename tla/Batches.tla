------------------------------- MODULE Batches -------------------------------
(***************************************************************************)
(* How the SDK packs instructions into transactions: batches, which takes  *)
(* the settlement (or nothing) and one delivery per prize.  Instructions   *)
(* of one transaction share the keys they have in common, so what still    *)
(* fits depends on what is already there.                                  *)
(* Operators named X_Y are mutants of X, used to test the properties.      *)
(***************************************************************************)
EXTENDS Lists, SequencesExt

CONSTANTS
    Payer,    \* the fee payer's key
    Shapes,   \* instructions: the keys they name and the length of their data
    MaxLen,   \* instructions to pack, at most
    Base,     \* bytes of every message: signature, header, blockhash, lengths
    KeySize,  \* bytes of a key (32)
    Overhead, \* bytes of an instruction besides its key indices and data
    Limit     \* bytes of a packet (1232)

ASSUME BatchAssumption ==
    /\ \A ix \in Shapes : IsFiniteSet(ix.keys) /\ ix.data \in Nat
    /\ {MaxLen, Base, KeySize, Overhead, Limit} \subseteq Nat
    /\ Base + KeySize <= Limit   \* a message that names only its payer fits

VARIABLES
    initial,       \* the group that comes first
    instructions,  \* the instructions to place after it, in order
    placed,        \* how many of them the loop has placed
    transactions,  \* the groups so far; the last one is open
    result         \* "running", "ok" or "too_large"

batchVars == <<initial, instructions, placed, transactions, result>>

-----------------------------------------------------------------------------
Keys(group) == {Payer} \cup UNION {group[i].keys : i \in DOMAIN group}

\* The bytes of each instruction, from 0.
InstructionSizes(group) ==
    [i \in 0 .. Len(group) - 1 |->
       Overhead + Cardinality(group[i + 1].keys) + group[i + 1].data]
transaction_size(group) ==
    Base + KeySize * Cardinality(Keys(group))
         + SumBelow(Len(group), InstructionSizes(group), Len(group))

TooLarge_AtLimit(group) == transaction_size(group) >= Limit
TooLarge(group) == transaction_size(group) > Limit

BatchInit ==
    /\ initial \in {<<>>} \cup {<<ix>> : ix \in Shapes}
    /\ instructions \in BoundedSeq(Shapes, MaxLen)
    /\ placed = 0
    /\ transactions = <<initial>>
    /\ result = IF TooLarge(initial) THEN "too_large" ELSE "running"

\* The groups once the last one has overflowed with ix: it moves to a new group.
Overflowed_Lost(groups, ix) == groups
Overflowed(groups, ix) == Append(groups, <<ix>>)

\* One iteration of the loop.
Place ==
    LET ix == instructions[placed + 1]
        grown == Append(Last(transactions), ix)
    IN
    /\ result = "running" /\ placed < Len(instructions)
    /\ placed' = placed + 1
    /\ transactions' = IF TooLarge(grown)
                       THEN Overflowed(transactions, ix)
                       ELSE [transactions EXCEPT ![Len(transactions)] = grown]
    /\ result' = IF TooLarge(grown) /\ TooLarge(<<ix>>) THEN "too_large" ELSE result
    /\ UNCHANGED <<initial, instructions>>

Finish ==
    /\ result = "running" /\ placed = Len(instructions)
    /\ transactions' = NonEmpty(transactions)
    /\ result' = "ok"
    /\ UNCHANGED <<initial, instructions, placed>>

BatchNext == Place \/ Finish
BatchSpec == BatchInit /\ [][BatchNext]_batchVars

-----------------------------------------------------------------------------
(* Properties.                                                             *)

all == initial \o instructions
Fits(group) == transaction_size(group) <= Limit

\* A settlement and its deliveries come out complete, in order, in groups that
\* are not empty and each fit a packet; the call fails exactly when an
\* instruction does not even fit a transaction of its own.
NothingLost ==
    /\ result = "ok" =>
         /\ FlattenSeq(transactions) = all
         /\ \A k \in DOMAIN transactions : transactions[k] # <<>> /\ Fits(transactions[k])
         /\ \A i \in DOMAIN all : Fits(<<all[i]>>)
    /\ result = "too_large" => \E i \in DOMAIN all : ~ Fits(<<all[i]>>)

\* Cutting the instructions into consecutive transactions after each c in cuts.
Neighbours(cuts) ==
    {w \in ({0} \cup cuts) \X (cuts \cup {Len(all)}) :
       w[1] < w[2] /\ ~ \E c \in cuts : w[1] < c /\ c < w[2]}
Pieces(cuts) == {SubSeq(all, w[1] + 1, w[2]) : w \in Neighbours(cuts)}

\* No other way to cut the same sequence needs fewer transactions, although sizes
\* do not add up: each transaction more is a window in which others overtake the
\* plan and a fee.
FewestTransactions ==
    result = "ok" /\ all # <<>> =>
      \A cuts \in SUBSET (1 .. Len(all) - 1) :
        (\A piece \in Pieces(cuts) : Fits(piece))
          => Len(transactions) <= Cardinality(cuts) + 1
=============================================================================
