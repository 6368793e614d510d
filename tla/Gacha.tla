-------------------------------- MODULE Gacha --------------------------------
(***************************************************************************)
(* The gacha program of one pool: the Pool account, its Items and Pulls,   *)
(* the payment vault and the custody of the prizes.  One action is one     *)
(* instruction, executed as the runtime executes it: atomically, and with  *)
(* no effect at all when a check or a call to another program fails.       *)
(*                                                                         *)
(* The availability index is kept here as its linear meaning (one tag per  *)
(* position); module Inventory models the Fenwick index that stores it.    *)
(* Signatures, address derivation and account layouts are enabling         *)
(* conditions of the caller and appear as the choice of the action's       *)
(* arguments.                                                              *)
(***************************************************************************)
EXTENDS Integers, FiniteSets, Sequences

CONSTANTS
    Seeds,         \* client seeds; one Pull address each
    Assets,        \* Core assets
    Wallets,       \* owners other than the pool: buyers, sellers, the authority
    Authority,     \* the pool authority, one of Wallets
    Pool,          \* the pool PDA as an owner of assets
    NoItem,        \* an Item address with no account
    NoPull,        \* a Pull address with no account
    MaxCount,      \* draws per pull (MAX_COUNT, 10 in the code)
    MaxTiers,      \* tier slots of a pool (MAX_TIERS, 8 in the code)
    MaxU64,        \* the largest u64
    Supply,        \* payment tokens in circulation (an SPL supply is a u64)
    Terms,         \* parameters offered to CreatePool
    Amounts,       \* amounts tried by Fund and Withdraw
    Quotes,        \* buyback quotes the authority has ever signed
    UnixTime,      \* the Clock sysvar's timestamp at each slot
    MaxPositions,  \* bound on lifetime deposits
    MaxPurchases,  \* bound on purchases
    MaxSlot        \* bound on the slot

Tier == 0 .. MaxTiers - 1
Position == 0 .. MaxPositions - 1
Term == [tier_count : Nat, weights : [Tier -> Nat], price : Nat,
         bond_per_draw : Nat, deadline_slots : Nat]
Quote == [asset : Assets, price : Nat, expires_at : Int, tier : Nat]

ASSUME BoundAssumption ==
    /\ MaxCount \in Nat \ {0}
    /\ MaxTiers \in Nat \ {0}
    /\ MaxU64 \in Nat
    /\ Supply \in 0 .. MaxU64
    /\ MaxPositions \in Nat
    /\ MaxPurchases \in Nat
    /\ MaxSlot \in Nat

ASSUME AccountAssumption ==
    /\ IsFiniteSet(Seeds)
    /\ Authority \in Wallets
    /\ Pool \notin Wallets

ASSUME InputAssumption ==
    /\ \A t \in Terms : t \in Term
    /\ \A a \in Amounts : a \in Nat
    /\ \A q \in Quotes : q \in Quote
    /\ UnixTime \in [0 .. MaxSlot -> Int]

VARIABLES
    status,             \* absent, paused, active or retired
    terms,              \* the immutable parameters of the pool
    inventory_version,  \* lifetime deposits; the next position
    pending_draws,      \* draws of the pulls waiting for their settlement
    next_index,         \* FIFO index of the next purchase
    next_settle,        \* FIFO index of the purchase resolved next
    remaining,          \* unsold prizes per tier, as the pool header counts them
    tags,               \* availability index: 0 removed, otherwise tier + 1
    items,              \* the Item account of each position
    pulls,              \* the Pull account of each client seed
    vault,              \* payment tokens in the vault
    owner,              \* the Core owner of each asset
    slot                \* the Clock sysvar's slot

queue == <<pending_draws, next_index, next_settle>>
stock == <<inventory_version, remaining, tags, items>>
vars == <<status, terms, queue, stock, pulls, vault, owner, slot>>

Item == [tier : Tier, asset : Assets]
DELIVERED == MaxTiers
Outcome == [tier : Tier \cup {DELIVERED}, asset : Assets]
Pull == [status : {"pending", "settled"}, count : 1 .. MaxCount,
         inventory_version : Nat, index : Nat, deadline_slot : Nat,
         buyer : Wallets, outcomes : Seq(Outcome)]

ASSUME NullAssumption ==
    /\ NoItem \notin Item
    /\ NoPull \notin Pull

-----------------------------------------------------------------------------
(* Money: the checked arithmetic of the pool and what the vault can spare. *)

(* Operators named X_Y are mutants of X, used to test the properties.      *)

Fits(n) == n \in 0 .. MaxU64
Payment(count) == terms.price * count

RefundAmount_Wraps(count) ==
    ((terms.price + terms.bond_per_draw) * count) % (MaxU64 + 1)
RefundAmount(count) == (terms.price + terms.bond_per_draw) * count

\* The vault pays amount and still covers every pending refund and penalty.
Spendable_Unchecked(amount) == TRUE
Spendable_IgnoresPending(amount) == amount <= vault
Spendable(amount) ==
    /\ Fits(RefundAmount(pending_draws))
    /\ amount <= vault - RefundAmount(pending_draws)

\* Buy: once this payment lands, the vault covers every pending refund.
Collateralized_OldReserve(count) ==
    /\ Fits(Payment(count)) /\ Fits(vault + Payment(count))
    /\ vault + Payment(count) >= RefundAmount(pending_draws)
Collateralized(count) ==
    /\ Fits(Payment(count)) /\ Fits(vault + Payment(count))
    /\ Fits(RefundAmount(pending_draws + count))
    /\ vault + Payment(count) >= RefundAmount(pending_draws + count)

-----------------------------------------------------------------------------
(* Stock. *)

Tiers == {t \in Tier : t < terms.tier_count}
Available(version) == {p \in Position : p < version /\ tags[p] # 0}

\* The sum of the header's counts: the size of their disjoint union.
TotalRemaining ==
    Cardinality(UNION {{t} \X (1 .. remaining[t]) : t \in Tiers})

\* Buy: the unsold stock covers every pending draw and this purchase.
InStock_OwnCount(count) == count <= TotalRemaining
InStock(count) == pending_draws + count <= TotalRemaining

\* The next position is never reused, even when an earlier one is free.
NextPosition_Recycles ==
    LET free == {q \in Position : q <= inventory_version /\ tags[q] = 0}
    IN  CHOOSE q \in free : \A r \in free : q <= r
NextPosition == inventory_version

CanRestock(tier) ==
    /\ tier \in Tiers
    /\ inventory_version < MaxPositions          \* bound
    /\ items[NextPosition] = NoItem

Restock(asset, tier) ==
    /\ inventory_version' = inventory_version + 1
    /\ items' = [items EXCEPT ![NextPosition] = [tier |-> tier, asset |-> asset]]
    /\ tags' = [tags EXCEPT ![NextPosition] = tier + 1]
    /\ remaining' = [remaining EXCEPT ![tier] = @ + 1]

\* A transfer by the Core program: only the current owner's signature moves it.
Move(asset, from, to) ==
    /\ owner[asset] = from
    /\ owner' = [owner EXCEPT ![asset] = to]

-----------------------------------------------------------------------------
Init ==
    /\ status = "absent"
    /\ terms = [tier_count |-> 0, weights |-> [t \in Tier |-> 0], price |-> 0,
                bond_per_draw |-> 0, deadline_slots |-> 0]
    /\ inventory_version = 0
    /\ pending_draws = 0
    /\ next_index = 0
    /\ next_settle = 0
    /\ remaining = [t \in Tier |-> 0]
    /\ tags = [p \in Position |-> 0]
    /\ items = [p \in Position |-> NoItem]
    /\ pulls = [s \in Seeds |-> NoPull]
    /\ vault = 0
    /\ owner = [a \in Assets |-> Authority]
    /\ slot = 0

-----------------------------------------------------------------------------
(* Instructions of the authority.  CanX is what X demands of the ledger:   *)
(* the checks of the program and of the programs it calls.                 *)

ValidTerms_AnyWeight(t) ==
    /\ t.tier_count \in 1 .. MaxTiers
    /\ t.price # 0 /\ t.bond_per_draw # 0 /\ t.deadline_slots # 0
    /\ Fits((t.price + t.bond_per_draw) * MaxCount)
ValidTerms(t) ==
    /\ t.tier_count \in 1 .. MaxTiers
    /\ \A i \in Tier : i < t.tier_count => t.weights[i] # 0
    /\ t.price # 0 /\ t.bond_per_draw # 0 /\ t.deadline_slots # 0
    /\ Fits((t.price + t.bond_per_draw) * MaxCount)

CanCreatePool(t) == status = "absent" /\ ValidTerms(t)
CreatePool(t) ==
    /\ CanCreatePool(t)
    /\ terms' = t
    /\ status' = "paused"
    /\ UNCHANGED <<queue, stock, pulls, vault, owner, slot>>

MayBecome_Anything(s) == TRUE
MayBecome(s) == status = "retired" => s = "retired"

CanSetStatus(s) == status # "absent" /\ MayBecome(s)
SetStatus(s) ==
    /\ CanSetStatus(s)
    /\ status' = s
    /\ UNCHANGED <<terms, queue, stock, pulls, vault, owner, slot>>

CanDepositItem(asset, tier) ==
    /\ status \in {"paused", "active"}
    /\ CanRestock(tier)
    /\ owner[asset] = Authority
DepositItem(asset, tier) ==
    /\ CanDepositItem(asset, tier)
    /\ Restock(asset, tier)
    /\ Move(asset, Authority, Pool)
    /\ UNCHANGED <<status, terms, queue, pulls, vault, slot>>

CanWithdraw(amount) == status # "absent" /\ Spendable(amount)
Withdraw(amount) ==
    /\ CanWithdraw(amount)
    /\ vault' = vault - amount
    /\ UNCHANGED <<status, terms, queue, stock, pulls, owner, slot>>

TagMatches_OffByOne(p) == tags[p] = items[p].tier
TagMatches(p) == tags[p] = items[p].tier + 1

CanReclaim(p) ==
    /\ status = "retired"
    /\ pending_draws = 0
    /\ p < inventory_version
    /\ items[p] # NoItem
    /\ items[p].tier \in Tiers
    /\ remaining[items[p].tier] # 0
    /\ TagMatches(p)
    /\ owner[items[p].asset] = Pool
Reclaim(p) ==
    /\ CanReclaim(p)
    /\ tags' = [tags EXCEPT ![p] = 0]
    /\ remaining' = [remaining EXCEPT ![items[p].tier] = @ - 1]
    /\ Move(items[p].asset, Pool, Authority)
    /\ items' = [items EXCEPT ![p] = NoItem]
    /\ UNCHANGED <<status, terms, queue, inventory_version, pulls, vault, slot>>

-----------------------------------------------------------------------------
(* Instructions of the players. *)

\* version is the inventory version the buyer signed.
SignedCurrent_Unchecked(version) == TRUE
SignedCurrent(version) == version = inventory_version

CanBuy(seed, count, version) ==
    /\ pulls[seed] = NoPull
    /\ status = "active"
    /\ SignedCurrent(version)
    /\ next_index < MaxPurchases                 \* bound
    /\ slot + terms.deadline_slots < MaxSlot     \* bound
    /\ InStock(count)
    /\ Collateralized(count)
    /\ Payment(count) <= Supply - vault          \* the buyer holds the payment
    /\ Fits(slot + terms.deadline_slots)
Buy(seed, buyer, count, version) ==
    /\ CanBuy(seed, count, version)
    /\ pulls' = [pulls EXCEPT ![seed] =
                   [status |-> "pending", count |-> count,
                    inventory_version |-> inventory_version, index |-> next_index,
                    deadline_slot |-> slot + terms.deadline_slots,
                    buyer |-> buyer, outcomes |-> <<>>]]
    /\ pending_draws' = pending_draws + count
    /\ next_index' = next_index + 1
    /\ vault' = vault + Payment(count)
    /\ UNCHANGED <<status, terms, next_settle, stock, owner, slot>>

IsPending(s) == pulls[s] # NoPull /\ pulls[s].status = "pending"
IsSettled(s) == pulls[s] # NoPull /\ pulls[s].status = "settled"
IsHead_AnyPending(s) == IsPending(s)
IsHead(s) == IsPending(s) /\ pulls[s].index = next_settle

CanRelease(s) == pending_draws >= pulls[s].count

\* The head leaves the queue with its reservation.
Release_OneDraw(s) ==
    /\ pending_draws' = pending_draws - 1
    /\ next_settle' = pulls[s].index + 1
Release(s) ==
    /\ pending_draws' = pending_draws - pulls[s].count
    /\ next_settle' = pulls[s].index + 1

AfterDeadline_Early(s) == slot >= pulls[s].deadline_slot
AfterDeadline(s) == slot > pulls[s].deadline_slot

CanRefund(s) ==
    /\ IsHead(s)
    /\ AfterDeadline(s)
    /\ Fits(RefundAmount(pulls[s].count))
    /\ CanRelease(s)
    /\ vault >= RefundAmount(pulls[s].count)
Refund(s) ==
    /\ CanRefund(s)
    /\ Release(s)
    /\ vault' = vault - RefundAmount(pulls[s].count)
    /\ pulls' = [pulls EXCEPT ![s] = NoPull]
    /\ UNCHANGED <<status, terms, next_index, stock, owner, slot>>

CanBuyback(q, seller) ==
    /\ status = "active"
    /\ UnixTime[slot] < q.expires_at
    /\ Spendable(q.price)
    /\ CanRestock(q.tier)
    /\ owner[q.asset] = seller
Buyback(q, seller) ==
    /\ CanBuyback(q, seller)
    /\ Move(q.asset, seller, Pool)
    /\ Restock(q.asset, q.tier)
    /\ vault' = vault - q.price
    /\ UNCHANGED <<status, terms, queue, pulls, slot>>

-----------------------------------------------------------------------------
(* Settlement and delivery: anyone holding the proof, or paying the fee.   *)

\* What the draw loop can select: count different prizes of the pinned prefix,
\* each in a tier the weighted roll can land on.  The verified output is
\* arbitrary, so every such sequence is possible.
Candidates_Unpinned(s) == Available(inventory_version)
Candidates(s) ==
    {p \in Available(pulls[s].inventory_version) :
       tags[p] - 1 \in Tiers /\ terms.weights[tags[p] - 1] # 0}

Draws(s) ==
    {d \in [1 .. pulls[s].count -> Candidates(s)] :
       \A i, j \in 1 .. pulls[s].count : d[i] = d[j] => i = j}

Drawn(s, d) == {d[i] : i \in 1 .. pulls[s].count}
DrawnOf(s, d, t) == {p \in Drawn(s, d) : tags[p] = t + 1}

ItemsAfter_NotClosed(s, d) == items
ItemsAfter(s, d) ==
    [p \in Position |-> IF p \in Drawn(s, d) THEN NoItem ELSE items[p]]

\* What the Pull records of the prizes drawn.
Won(s, d) ==
    [i \in 1 .. pulls[s].count |->
       [tier |-> tags[d[i]] - 1, asset |-> items[d[i]].asset]]

CanAward(s, d) ==
    /\ \A p \in Drawn(s, d) :
         items[p] # NoItem /\ items[p].tier = tags[p] - 1
    /\ \A t \in Tier : Cardinality(DrawnOf(s, d, t)) <= remaining[t]
Award(s, d) ==
    /\ CanAward(s, d)
    /\ pulls' = [pulls EXCEPT ![s].status = "settled", ![s].outcomes = Won(s, d)]
    /\ items' = ItemsAfter(s, d)
    /\ tags' = [p \in Position |-> IF p \in Drawn(s, d) THEN 0 ELSE tags[p]]
    /\ remaining' = [t \in Tier |->
                       remaining[t] - Cardinality(DrawnOf(s, d, t))]

CanSettle(s) ==
    /\ IsHead(s)
    /\ slot <= pulls[s].deadline_slot
    /\ {d \in Draws(s) : CanAward(s, d)} # {}
    /\ CanRelease(s)
Settle(s) ==
    /\ CanSettle(s)
    /\ \E d \in Draws(s) : Award(s, d)
    /\ Release(s)
    /\ UNCHANGED <<status, terms, next_index, inventory_version, vault, owner,
                   slot>>

AllDelivered_SkipsLast(pull) ==
    \A j \in 1 .. pull.count - 1 : pull.outcomes[j].tier = DELIVERED
AllDelivered_WholeTable(pull) ==
    pull.count = MaxCount /\ \A j \in 1 .. MaxCount : pull.outcomes[j].tier = DELIVERED
AllDelivered(pull) ==
    \A j \in 1 .. pull.count : pull.outcomes[j].tier = DELIVERED

\* Whoever submits the transaction, the prize goes to the recorded buyer.
Recipient_Authority(s) == Authority
Recipient(s) == pulls[s].buyer

CanDeliver(s, i) ==
    /\ IsSettled(s)
    /\ i <= pulls[s].count
    /\ pulls[s].outcomes[i].tier # DELIVERED
    /\ owner[pulls[s].outcomes[i].asset] = Pool
\* The last delivery closes the Pull.
Deliver(s, i) ==
    /\ CanDeliver(s, i)
    /\ Move(pulls[s].outcomes[i].asset, Pool, Recipient(s))
    /\ LET marked == [pulls[s] EXCEPT !.outcomes[i].tier = DELIVERED]
       IN  pulls' = [pulls EXCEPT ![s] =
                       IF AllDelivered(marked) THEN NoPull ELSE marked]
    /\ UNCHANGED <<status, terms, queue, stock, vault, slot>>

-----------------------------------------------------------------------------
(* The rest of the ledger: token and asset transfers, and the clock.       *)

Fund(amount) ==
    /\ vault + amount <= Supply
    /\ vault' = vault + amount
    /\ UNCHANGED <<status, terms, queue, stock, pulls, owner, slot>>

\* A holder may transfer to anyone, even to the pool without a deposit.
TransferAsset(asset, from, to) ==
    /\ from # to
    /\ Move(asset, from, to)
    /\ UNCHANGED <<status, terms, queue, stock, pulls, vault, slot>>

Tick ==
    /\ slot < MaxSlot                            \* bound
    /\ slot' = slot + 1
    /\ UNCHANGED <<status, terms, queue, stock, pulls, vault, owner>>

-----------------------------------------------------------------------------
Next ==
    \/ \E t \in Terms : CreatePool(t)
    \/ \E s \in {"paused", "active", "retired"} : SetStatus(s)
    \/ \E a \in Assets, t \in 0 .. MaxTiers : DepositItem(a, t)
    \/ \E n \in Amounts : Withdraw(n)
    \/ \E p \in Position : Reclaim(p)
    \/ \E s \in Seeds, b \in Wallets, n \in 1 .. MaxCount,
          v \in 0 .. inventory_version : Buy(s, b, n, v)
    \/ \E s \in Seeds : Refund(s)
    \/ \E q \in Quotes, w \in Wallets : Buyback(q, w)
    \/ \E s \in Seeds : Settle(s)
    \/ \E s \in Seeds, i \in 1 .. MaxCount : Deliver(s, i)
    \/ \E n \in Amounts : Fund(n)
    \/ \E a \in Assets, w \in Wallets, to \in Wallets \cup {Pool} :
         TransferAsset(a, w, to)
    \/ Tick

Spec == Init /\ [][Next]_vars

\* Time passes; a refund and a delivery need no particular signer, so whoever
\* waits for one (the buyer, at the latest) can submit it.  Nothing obliges the
\* operator to settle or the authority to do anything.
Fairness ==
    /\ WF_vars(Tick)
    /\ \A s \in Seeds : WF_vars(Refund(s))
    /\ \A s \in Seeds, i \in 1 .. MaxCount : WF_vars(Deliver(s, i))

LiveSpec == Spec /\ Fairness

-----------------------------------------------------------------------------
(* Vocabulary of the properties.                                           *)

PendingSeeds == {s \in Seeds : IsPending(s)}

\* One ticket per draw of the pending pulls up to FIFO index i.
Tickets(i) ==
    {w \in PendingSeeds \X (1 .. MaxCount) :
       w[2] <= pulls[w[1]].count /\ pulls[w[1]].index <= i}

\* Outstanding awards: settled and not yet delivered.
Awards == {w \in Seeds \X (1 .. MaxCount) :
             /\ IsSettled(w[1])
             /\ w[2] <= pulls[w[1]].count
             /\ pulls[w[1]].outcomes[w[2]].tier # DELIVERED}

-----------------------------------------------------------------------------
(* State invariants.                                                       *)

\* Every field of every account holds a value of its type.
TypeOK ==
    /\ status \in {"absent", "paused", "active", "retired"}
    /\ terms \in Term
    /\ inventory_version \in 0 .. MaxPositions
    /\ pending_draws \in Nat
    /\ next_index \in 0 .. MaxPurchases
    /\ next_settle \in Nat
    /\ remaining \in [Tier -> Nat]
    /\ tags \in [Position -> 0 .. MaxTiers]
    /\ items \in [Position -> Item \cup {NoItem}]
    /\ pulls \in [Seeds -> Pull \cup {NoPull}]
    /\ vault \in 0 .. Supply
    /\ owner \in [Assets -> Wallets \cup {Pool}]
    /\ slot \in 0 .. MaxSlot

\* The vault covers the payment and the penalty of every pending draw at all
\* times, whatever is withdrawn, bought back or sold meanwhile.
Solvency == (terms.price + terms.bond_per_draw) * pending_draws <= vault

\* The pool's single reservation counter is the sum of the counts of the pulls
\* that are still pending, so no settlement or refund can underflow it.
PendingDrawsCounted == pending_draws = Cardinality(Tickets(next_index))

\* The pending pulls hold exactly the indexes next_settle .. next_index - 1,
\* one each: the head of the queue always exists and nobody is skipped.
\* Candidate prefixes and deadlines follow the same order.
FIFOQueue ==
    /\ {pulls[s].index : s \in PendingSeeds} = next_settle .. next_index - 1
    /\ \A s \in PendingSeeds : pulls[s].inventory_version <= inventory_version
    /\ \A r, s \in PendingSeeds :
         r # s /\ pulls[r].index <= pulls[s].index =>
           /\ pulls[r].index < pulls[s].index
           /\ pulls[r].inventory_version <= pulls[s].inventory_version
           /\ pulls[r].deadline_slot <= pulls[s].deadline_slot

\* The claim of Buy's comment: FIFO makes the prefixes nested, so the prefix of
\* every pending pull still holds a prize for each of its draws after all older
\* pulls have taken theirs, even if nothing is deposited again.
ReservedPrefix ==
    \A s \in PendingSeeds :
      Cardinality(Tickets(pulls[s].index))
        <= Cardinality(Available(pulls[s].inventory_version))

\* The header's counts, the availability index and the Item accounts tell the
\* same story: header updates, index updates and account closing never diverge.
StockAgrees ==
    /\ \A t \in Tier : remaining[t] = Cardinality({p \in Position : tags[p] = t + 1})
    /\ \A p \in Position :
         /\ items[p] = NoItem <=> tags[p] = 0
         /\ items[p] # NoItem => /\ tags[p] = items[p].tier + 1
                                 /\ items[p].tier \in Tiers
                                 /\ p < inventory_version

\* Every prize the program owes, unsold or awarded and undelivered, is in the
\* pool's custody, and no two claims name the same asset, although returned
\* prizes are deposited again under the same asset address.
Custody ==
    LET unsold == {p \in Position : items[p] # NoItem} IN
    /\ \A p \in unsold : owner[items[p].asset] = Pool
    /\ \A a \in Awards : owner[pulls[a[1]].outcomes[a[2]].asset] = Pool
    /\ \A p, q \in unsold : items[p].asset = items[q].asset => p = q
    /\ \A a, b \in Awards :
         pulls[a[1]].outcomes[a[2]].asset = pulls[b[1]].outcomes[b[2]].asset
           => a = b
    /\ \A p \in unsold, a \in Awards :
         items[p].asset # pulls[a[1]].outcomes[a[2]].asset

\* The purchase at the head can always be resolved, in every pool status, and
\* its deadline decides which way: some draw settles it or the refund pays it,
\* never both and never neither.
HeadResolvable == \A s \in Seeds : IsHead(s) => (CanSettle(s) <=> ~ CanRefund(s))

\* Once retired with an empty queue, every unsold prize can be reclaimed: no
\* guard of Reclaim and no index update rejects one.
UnsoldReclaimable ==
    status = "retired" /\ pending_draws = 0 =>
      \A p \in Available(inventory_version) : CanReclaim(p)

-----------------------------------------------------------------------------
(* Action properties, each with what it says of a step.                    *)

PinnedStep ==
    \A s \in Seeds, p \in Position :
      /\ IsPending(s) /\ IsPending(s)' /\ pulls'[s].index = pulls[s].index
      /\ p < pulls[s].inventory_version
      /\ <<tags[p], items[p]>>' # <<tags[p], items[p]>>
      => /\ tags'[p] = 0 /\ items'[p] = NoItem
         /\ \E h \in Seeds :
              /\ IsHead(h) /\ IsSettled(h)'
              /\ pulls[h].index < pulls[s].index
              /\ \E i \in 1 .. pulls[h].count :
                   pulls'[h].outcomes[i].asset = items[p].asset

\* While a pull is pending, its candidates change in one way only: an older
\* pull's settlement takes a prize for its own buyer.  A position keeps its
\* asset and tier, and no deposit or buyback enters the pinned prefix.
PinnedCandidates == [][PinnedStep]_vars

ClosedItems == {p \in Position : items'[p] # items[p]}
AwardStep ==
    \A s \in Seeds : IsHead(s) /\ IsSettled(s)' =>
      /\ \A p \in ClosedItems : p < pulls[s].inventory_version
      /\ Cardinality(ClosedItems) = pulls[s].count
      /\ {items[p].asset : p \in ClosedItems}
           = {pulls'[s].outcomes[i].asset : i \in 1 .. pulls[s].count}

\* A settlement closes exactly the Items it records, all inside the prefix the
\* buyer signed: it never reaches a prize deposited after the purchase.
AwardsPinned == [][AwardStep]_vars

KeptOrDelivered(w) ==
    LET before == pulls[w[1]]
        asset == before.outcomes[w[2]].asset
    IN  \/ /\ w \in Awards'
           /\ pulls'[w[1]].buyer = before.buyer
           /\ pulls'[w[1]].outcomes[w[2]].asset = asset
        \/ owner'[asset] = before.buyer

\* An outstanding award lasts, with its asset and its buyer, until the step that
\* delivers it: closing a Pull never drops a prize its buyer has not received.
AwardsKept == [][\A w \in Awards : KeptOrDelivered(w)]_vars

DeliversAward(a) ==
    \E w \in Awards : /\ pulls[w[1]].outcomes[w[2]].asset = a
                      /\ owner'[a] = pulls[w[1]].buyer
                      /\ w \notin Awards'
ReturnsUnsold(a) ==
    /\ status = "retired" /\ PendingSeeds = {}
    /\ owner'[a] = Authority
    /\ \E p \in Position : /\ items[p] # NoItem /\ items[p].asset = a
                           /\ items'[p] = NoItem
ReleaseStep ==
    \A a \in Assets :
      owner[a] = Pool /\ owner'[a] # Pool => DeliversAward(a) \/ ReturnsUnsold(a)

\* A prize leaves custody in two ways only: an outstanding award goes to the
\* buyer recorded at purchase and is used up by it, or an unsold item goes
\* back to the authority of a retired pool that owes nothing.
CustodyRelease == [][ReleaseStep]_vars

RetiredStep ==
    status = "retired" =>
      /\ status' = "retired"
      /\ next_index' = next_index
      /\ Available(MaxPositions)' \subseteq Available(MaxPositions)
      /\ PendingSeeds' \subseteq PendingSeeds

\* A retired pool only drains: it never sells, restocks or reopens, and what
\* it owes and holds never grows.
RetiredOnlyDrains == [][RetiredStep]_vars

-----------------------------------------------------------------------------
(* The promises to the buyers, as module Promises states them.             *)

DrawPrice == IF status = "absent" THEN 0 ELSE terms.price
DrawRefund == IF status = "absent" THEN 0 ELSE terms.price + terms.bond_per_draw
Phase == IF status \in {"absent", "retired"} THEN status ELSE "open"
StillOwed(s) ==
    {pulls[s].outcomes[i].asset :
       i \in {j \in 1 .. pulls[s].count : pulls[s].outcomes[j].tier # DELIVERED}}
Promised ==
    [s \in Seeds |->
       IF IsPending(s)
       THEN [kind |-> "draws", buyer |-> pulls[s].buyer, count |-> pulls[s].count]
       ELSE IF IsSettled(s)
       THEN [kind |-> "prizes", buyer |-> pulls[s].buyer, prizes |-> StillOwed(s)]
       ELSE [kind |-> "kept"]]
Shelf == {items[p].asset : p \in {q \in Position : items[q] # NoItem}}

Promise == INSTANCE Promises
           WITH phase <- Phase,
                price <- DrawPrice,
                refund <- DrawRefund,
                promises <- Promised,
                shelf <- Shelf,
                cash <- vault

\* The program keeps its promises: sales, deadlines, the queue, the pinned
\* prefixes, the reservation counter, partial deliveries and closed or reopened
\* accounts amount to draws that are covered by prizes and by cash until they take
\* place, and then to prizes that only their buyer gets.
KeepsPromises == Promise!Spec

-----------------------------------------------------------------------------
(* Liveness, under Fairness.                                               *)

\* Every purchase is settled or refunded, without the operator's help.
PurchasesResolve ==
    \A s \in Seeds, i \in 0 .. MaxPurchases :
      IsPending(s) /\ pulls[s].index = i
        ~> ~ (IsPending(s) /\ pulls[s].index = i)

\* Retirement ends: every pull is eventually closed and stays closed, which
\* opens the way to reclaiming the rest.
RetirementDrains ==
    status = "retired" ~> [](\A s \in Seeds : pulls[s] = NoPull)
=============================================================================
