------------------------------ MODULE Inventory ------------------------------
(***************************************************************************)
(* The availability index of a pool: blocks of BlockSize tier tags, each   *)
(* with a Fenwick node that counts the available prizes per tier of the    *)
(* LowBit(node) blocks ending at it.  Nodes are 1-based, positions 0-based.*)
(* One action is one call on the index by a successful instruction.        *)
(* Operators named X_Y are mutants of X, used to test the properties.      *)
(***************************************************************************)
EXTENDS Integers, FiniteSets

CONSTANTS
    BlockSize,  \* positions per block (INVENTORY_TAGS_PER_BLOCK, 64 in the code)
    MaxTiers,   \* tiers (MAX_TIERS, 8 in the code)
    MaxBlocks   \* bound on the blocks appended

Tier == 0 .. MaxTiers - 1
Node == 1 .. MaxBlocks
Position == 0 .. MaxBlocks * BlockSize - 1

ASSUME IndexAssumption ==
    /\ BlockSize \in Nat \ {0}
    /\ MaxTiers \in Nat \ {0}
    /\ MaxBlocks \in Nat \ {0}

VARIABLES
    version,  \* positions appended so far, the pool's inventory_version
    tag,      \* tag[p]: 0 removed, otherwise the tier of position p, plus 1
    count,    \* count[n][t]: the Fenwick node n, per tier
    response  \* the position the last operation concerned

vars == <<version, tag, count, response>>

\* Blocks allocated for v positions: the length check of Pool::load.
Space(v) == (v + BlockSize - 1) \div BlockSize
Blocks == Space(version)

\* node & node.wrapping_neg(), the lowest bit set, and node & (node - 1).
LowBit(n) ==
    LET low[i \in 0 .. 2 * MaxBlocks] ==
          IF i = 0 THEN 0 ELSE IF i % 2 = 1 THEN 1 ELSE 2 * low[i \div 2]
    IN  low[n]
Parent(n) == n - LowBit(n)

-----------------------------------------------------------------------------
(* Reading. *)

\* Available prizes per tier in the first n blocks.
PrefixCount(t) ==
    LET sum[n \in 0 .. MaxBlocks] ==
          IF n = 0 THEN 0 ELSE count[n][t] + sum[Parent(n)]
    IN  sum

Tagged(first, last, t) == {p \in first .. last : tag[p] = t + 1}

\* Available prizes per tier below the cutoff: whole blocks, then the tail.
Counts_WholeBlocks(cutoff) == [t \in Tier |-> PrefixCount(t)[cutoff \div BlockSize]]
Counts(cutoff) ==
    LET blocks == cutoff \div BlockSize IN
    [t \in Tier |-> PrefixCount(t)[blocks]
                    + Cardinality(Tagged(blocks * BlockSize, cutoff - 1, t))]

next_power_of_two(blocks) ==
    LET power[i \in 0 .. MaxBlocks] ==
          IF i <= 1 THEN 1 ELSE 2 * power[(i + 1) \div 2]
    IN  power[blocks]

\* One step of the descent: skip the blocks of the next node when the rank lies
\* beyond them, otherwise the prize is inside and the node is on its path.
Skips_Strict(at, next, t) == count[next][t] < at.rank
Skips(at, next, t) == count[next][t] <= at.rank
RankAfter_Kept(at, next, t) == at.rank
RankAfter(at, next, t) == at.rank - count[next][t]

Descend(at, step, t) ==
    LET next == at.node + step IN
    IF next > Blocks THEN at
    ELSE IF Skips(at, next, t)
    THEN [at EXCEPT !.node = next, !.rank = RankAfter(at, next, t)]
    ELSE [at EXCEPT !.path = @ \cup {next}]

\* The block of the rank-th prize of tier t, its rank inside that block, and the
\* nodes to decrement.  after[step] is the state once that step has been tried.
Search(t, rank) ==
    LET top == next_power_of_two(Blocks)
        start == [node |-> 0, rank |-> rank, path |-> {}]
        after[step \in 1 .. top] ==
          Descend(IF 2 * step > top THEN start ELSE after[2 * step], step, t)
    IN  after[1]

\* The tag take would clear: the offset scan inside the block found.
Selected_First(found, t) ==
    LET here == Tagged(found.node * BlockSize, (found.node + 1) * BlockSize - 1, t)
    IN  {p \in here : \A q \in here : p <= q}
Selected(found, t) ==
    {p \in Tagged(found.node * BlockSize, (found.node + 1) * BlockSize - 1, t) :
       Cardinality(Tagged(found.node * BlockSize, p - 1, t)) = found.rank}

-----------------------------------------------------------------------------
(* Writing. *)

Init ==
    /\ version = 0
    /\ tag = [p \in Position |-> 0]
    /\ count = [n \in Node |-> [t \in Tier |-> 0]]
    /\ response = [op |-> "none"]

\* node, node + LowBit(node), ... up to the last of the blocks.
Ancestors(node, blocks) ==
    LET up[n \in 1 .. 2 * MaxBlocks] ==
          IF n > blocks THEN {} ELSE {n} \cup up[n + LowBit(n)]
    IN  up[node]

Adjust(counts, nodes, t, by) ==
    [n \in Node |-> IF n \in nodes THEN [counts[n] EXCEPT ![t] = @ + by]
                    ELSE counts[n]]

\* A new node starts with the older blocks it also covers.
WithNewNode_Empty(block) == count
WithNewNode(block) ==
    [count EXCEPT ![block + 1] =
       [t \in Tier |-> PrefixCount(t)[block] - PrefixCount(t)[Parent(block + 1)]]]

\* restock passes the pool's version: positions are 0-based, so it is the next.
NextPosition == version

\* restock zero-extends the index first.
AppendTag(tier) ==
    LET block == NextPosition \div BlockSize
        counts == IF NextPosition % BlockSize = 0 THEN WithNewNode(block) ELSE count
    IN  /\ version < MaxBlocks * BlockSize          \* bound
        /\ version' = version + 1
        /\ tag' = [tag EXCEPT ![NextPosition] = tier + 1]
        /\ count' = Adjust(counts, Ancestors(block + 1, Space(version + 1)), tier, 1)
        /\ response' = [op |-> "append", position |-> NextPosition]

\* The draw loop bounds the rank by the counts of the purchase's prefix.
Take(cutoff, tier, rank) ==
    /\ rank < Counts(cutoff)[tier]
    /\ LET found == Search(tier, rank) IN
       /\ found.node # Blocks
       /\ \E p \in Selected(found, tier) :
            /\ tag' = [tag EXCEPT ![p] = 0]
            /\ response' = [op |-> "take", tier |-> tier, rank |-> rank,
                            position |-> p]
       /\ count' = Adjust(count, found.path, tier, -1)
    /\ UNCHANGED version

Remove(position, tier) ==
    LET nodes == Ancestors(position \div BlockSize + 1, Blocks) IN
    /\ position < Blocks * BlockSize
    /\ tag[position] = tier + 1
    /\ \A n \in nodes : count[n][tier] >= 1
    /\ tag' = [tag EXCEPT ![position] = 0]
    /\ count' = Adjust(count, nodes, tier, -1)
    /\ response' = [op |-> "remove", position |-> position]
    /\ UNCHANGED version

Next ==
    \/ \E t \in Tier : AppendTag(t)
    \/ \E c \in 1 .. version, t \in Tier, r \in 0 .. version - 1 : Take(c, t, r)
    \/ \E p \in Position, t \in Tier : Remove(p, t)

Spec == Init /\ [][Next]_vars

-----------------------------------------------------------------------------
(* Properties.                                                             *)

Coverage(n) == (Parent(n) * BlockSize) .. (n * BlockSize - 1)

\* Every node counts exactly the prizes of the blocks it covers, through nodes
\* appended over older blocks, takes that stop early and removals in any order.
NodesExact ==
    \A n \in 1 .. Blocks, t \in Tier :
      count[n][t] = Cardinality({p \in Coverage(n) : tag[p] = t + 1})

\* The counts of any purchase's prefix are those of a linear scan, whether the
\* cutoff falls on a block boundary, inside a block or at the end.
CountsExact ==
    \A cutoff \in 0 .. version, t \in Tier :
      Counts(cutoff)[t] = Cardinality(Tagged(0, cutoff - 1, t))

\* A rank below a prefix's counts always selects one prize, inside the prefix,
\* and the nodes decremented on the way are exactly those that count it: the
\* InvalidItem errors of take cannot happen to the draw loop.
SearchExact ==
    \A cutoff \in 1 .. version, t \in Tier :
      \A rank \in 0 .. Counts(cutoff)[t] - 1 :
        LET found == Search(t, rank) IN
        /\ found.node < Blocks
        /\ \E p \in 0 .. cutoff - 1 :
             /\ Selected(found, t) = {p}
             /\ Cardinality(Tagged(0, p - 1, t)) = rank
             /\ found.path = Ancestors(p \div BlockSize + 1, Blocks)

\* The index implements the linear inventory, positions returned included.
Linear == INSTANCE AbstractInventory
            WITH tags <- [i \in 1 .. version |-> tag[i - 1]],
                 MaxLength <- MaxBlocks * BlockSize
LinearSpec == Linear!Spec
=============================================================================
