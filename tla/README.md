# A verification of the gacha program

This directory holds TLA+ models of the repository's gacha program, the TLC
configurations that check them and proofs of their central theorems. A *pool*
sells draws from a stock of NFTs. A buyer pays first; an off-chain operator later
publishes a VRF proof that selects the prizes; if it does not do so in time, the
buyer is refunded with a penalty. The questions asked here are whether the vault
can always pay, whether a paid draw always finds a prize of the stock the buyer
saw, whether every purchase comes to an end, and whether every prize ends up
where it belongs.

## 1. Inventory of the system

| Component | Code | State | Operations |
|---|---|---|---|
| Pool program | `program/src` (`admin/`, `player/`, `operator/`, `lib.rs`), account types in `packages/gacha-core/src/state.rs` | `Pool` (status, immutable terms, `inventory_version`, `pending_draws`, `next_index`, `next_settle`, remaining per tier), one `Item` per unsold prize, one `Pull` per open purchase, the vault's balance, the owner of each asset | `CreatePool`, `DepositItem`, `Withdraw`, `SetStatus`, `Reclaim`, `Buy`, `Refund`, `Buyback`, `Settle`, `Deliver` |
| Availability index | `program/src/inventory.rs` | blocks of 64 tier tags, each with a Fenwick node of counts per tier, in the pool account's suffix | `counts`, `append`, `take`, `remove` |
| Weighted draw | `state.rs` `Pool::draw`, `draw_tier`; the loop of `inventory.rs` `draw` | the loop's own counts of the eligible stock | one draw per hash |
| Loading, derivation, rent | `helpers.rs`, `program/src/state.rs` | none of its own | `create_pda`, `close`, `spendable`, `pay`, `ata` |
| Events | `events.rs` | a fixed buffer per event | a self-call at the end of every instruction that logs one record |
| Rust client | `packages/gacha-rust/src/lib.rs`, `rpc.rs` | snapshots of the accounts, read in several calls | plans for each instruction, available draws, settlement simulation, delivery batches |
| TypeScript client | `packages/gacha-kit/src` | the same | the same |
| Outside the repository | SPL Token, Metaplex Core, the Clock sysvar, the VRF and ed25519 crates | token balances, asset owners, slot | transfers, time |

How they interact. A transaction, of one or a few instructions, is atomic: an error
anywhere, including in a call to another program, undoes all of it. So there is
no concurrency *inside* an instruction; what is hard is the order of
instructions, which nobody controls: buyers, the authority, the operator and
passers-by (`Refund` and `Deliver` need no particular signer) submit them
independently, and between two of them time passes, tokens arrive and assets
change hands. The instructions share one queue, one reservation counter, one vault
and one index.

Where it is hard, and what makes each part correct:

* **Promises.** What all of the following amounts to for a buyer: draws covered twice,
  by prizes and by cash, until they take place or are paid back, and then prizes that only the
  buyer gets (`KeepsPromises`).
* **Stock.** A buyer signs the inventory version, and a draw may only select from
  that prefix of positions. `Buy` checks one global inequality; that it reserves a prize
  in *each* pending prefix rests on the FIFO order (`ReservedPrefix`), on
  positions that are never reused (`PinnedCandidates`) and on settlement staying
  inside the prefix (`AwardsPinned`).
* **Money.** Refunds are not set aside per purchase: one counter times one rate is
  held back from withdrawals and buybacks (`Solvency`). The counter must be the sum
  of what the pending pulls hold (`PendingDrawsCounted`).
* **Time.** Settlement and refund compare one deadline from both sides
  (`HeadResolvable`), only at the head of the queue (`FIFOQueue`), and
  every purchase must end although the operator owes nobody a settlement
  (`PurchasesResolve`).
* **Custody.** Unsold items and undelivered awards claim assets; a claim must be
  backed, unique although an asset may come back to the pool under its old address
  (`Custody`), survive partial deliveries (`AwardsKept`) and be released only to
  the right owner (`CustodyRelease`). Three copies of the stock must agree
  (`StockAgrees`).
* **Retirement.** It is final, it drains, and then returns everything
  (`RetiredOnlyDrains`, `RetirementDrains`, `UnsoldReclaimable`).
* **Index.** Nodes created over thinned older blocks, decrements made while the
  search is still descending, cutoffs inside a block (`NodesExact`, `CountsExact`,
  `SearchExact`, `LinearSpec`).
* **Draw.** Never off the end, never in an empty tier, with exact odds
  (`DrawsAlwaysLand`, `ExactOdds`); the loop of a settlement reaches every
  eligible prize and no other (`DrawsReachable`).
* **Clients.** They repeat the program's decisions in other code: the limits
  (`LimitsExact`), the checks (`PlansMatchProgram`) and the draw, which exists
  three times (`PlannedDrawsExact`). They read in several requests, possibly from nodes that
  lag, and what they plan executes later, in several transactions, if at all
  (`RefusedOnlyWhenOvertaken`, `FailsOnlyWhenOvertaken`, `SignedStock`,
  `DeliveryRecovers`). They cut plans to packets (`NothingLost`,
  `FewestTransactions`).
* **Events.** A log from which the pool can be followed although assets and
  addresses are used again (`IndexerAgrees`), and that never stands in the way of
  the queue (`LoggedHeadResolvable`).

`PROJECT.json` lists the hazards one by one, at the line where each bites.

## 2. The modules

| Module | What it is |
|---|---|
| `Gacha` | the whole program for one pool, with the vault, the asset owners and the clock |
| `Promises` | what a pool promises its buyers; `Gacha` is shown to implement it |
| `MCGacha` | instances of `Gacha` for TLC; four configurations |
| `GachaProofs` | theorems about `Gacha` for all constants: types, solvency, the queue and its counter, the stock, the reservation of a prize for every pending draw, custody, the action properties, the refinement of `Promises` |
| `Inventory` | the Fenwick index; checked directly with two configurations |
| `AbstractInventory` | the linear list the index must behave as (the reference of the index's unit test) |
| `InventoryProofs` | the index is exact and implements the list, for all constants |
| `Lists` | ranks in a set of positions and ascending lists of one, for the draws and the batches |
| `Roll` | `Pool::draw` as operators: a weighted roll over the stocked tiers, a rank inside one |
| `Draw` | one settlement's draws, tier after tier, over the loop's own counts |
| `RollProofs`, `DrawProofs` | induction over the naturals and the existence of recursive functions, for the other proofs too; sums and rolls; every draw lands, with exact odds |
| `SettleDraws` | composes `Gacha`, `Roll` and the index: the prizes a VRF output selects |
| `Client` | the Rust SDK's plans, as operators on a snapshot of the ledger |
| `ClientProofs` | the SDK's limits and plans are exact, every pool decodes, the three draws agree |
| `Kit` | the TypeScript SDK's settlement simulation |
| `Relay` | one user of the SDK against the pool: staged reads, plans, transactions, everybody else |
| `RelayProofs` | what the user signs, and when its calls and transactions fail |
| `Batches` | the packing of instructions into transactions |
| `BatchesProofs` | the packing is complete and optimal |
| `GachaEvents` | the program with its event log and an indexer |
| `GachaEventsProofs` | the log observes and never blocks the program; the indexer is never wrong |
| `MCSettle`, `MCRelay`, `MCBatches`, `MCEvents` | their instances for TLC |

`Gacha` is extended by `SettleDraws`, that by `Client`, and that by `Kit` and
`Relay`; `GachaEvents` extends `Gacha` separately. `MCGacha` extends `Client`, so
that plans are compared with the program in its run over all statuses.

### Gacha and the code

One action is one instruction: its `TryFrom` checks, its `process` checks, the calls
it makes and the fields it writes. `Next` mirrors `process_instruction` of
`lib.rs`, plus `Fund` (anyone's token transfer to the vault), `TransferAsset` (an
owner's own transfer, even to the pool without a deposit) and `Tick`. `CanX` is what the
instruction `X` demands of the ledger: its checks and those of the programs it calls. The
action has it as its guard, and properties and the SDK's plans refer to it.

| In the model | In the code |
|---|---|
| `status`, `terms`, `inventory_version`, `pending_draws`, `next_index`, `next_settle`, `remaining` | fields of `Pool` and its `Tier`s |
| `tags` | the meaning of the availability index: tag `tier + 1`, 0 when removed |
| `items[p]`, `pulls[s]` | the `Item` PDA of position `p`, the `Pull` PDA of client seed `s`; `NoItem` and `NoPull` are accounts that do not exist |
| `vault` | the vault's token balance; all other tokens are `Supply - vault` |
| `owner` | the Core owner of each asset |
| `slot` | the Clock; `UnixTime` gives its timestamp at each slot |

Checks become guards; checked or overflow-checked arithmetic (`overflow-checks =
true` in the release profile) becomes `Fits` in the guard, because the transaction
fails. Three abstractions deserve a word:

* *Which prizes a settlement selects.* The VRF output is arbitrary, so `Settle`
  may award any sequence of different prizes that the draw loop can reach: available
  positions of the pinned prefix in tiers of non-zero weight. `Inventory`
  checks that a tier and a rank name exactly one position, and `SettleDraws` runs
  the loop for every output and checks that it reaches exactly those sequences
  (`DrawsReachable`).
* *Who signs.* The action's arguments range over whoever could produce the
  signature. `Quotes` are the buyback quotes the authority has ever signed; a quote has
  no nonce, so `Buyback` may use one as often as its guards allow.
* *Addresses.* A PDA is its seeds. An `Item` address includes the tier, but
  positions are never reused, so the position alone identifies it.

`DELIVERED` is one more than the largest tier (0xff in the code). `TotalRemaining` is
written as the size of a disjoint union rather than a fold, which keeps it within
reach of the prover.

Assumed of the programs outside: a Core transfer succeeds only for the current
owner's signature (assets with a delegate that can move them without the owner are
not modelled, and the pool's custody means nothing for those), the SPL supply is
a `u64`, and the clock does not run backwards.

### Promises

The abstract specification has a shelf of prizes, cash, and a promise per client seed: a
number of draws, or the prizes won and not yet handed over. Its `Sell` demands a prize on the
shelf for every draw owed and cash for every refund; all its other actions leave that
cover alone. It has no queue, tier, position, deadline, counter or account of any kind. In
the mapping (`Phase`, `DrawPrice`, `DrawRefund`, `Promised`, `Shelf`) the draws owed are
recounted from the pulls, not read from `pending_draws`, and the shelf is the set of assets
the `Item`s name, not `remaining`.

### Inventory and Draw

`Inventory` has the block size as a constant and keeps tags and nodes apart; its
operators follow `prefix_counts`, `counts`, the descent and the offset scan of
`take`, the node chain of `append` and `remove`. `Take` is guarded by the rank bound
the draw loop guarantees. `response` records the position an operation returned
so that the refinement of `AbstractInventory` compares answers, not only states.

`Roll` holds the pure part of the draw, for `Draw` and `SettleDraws` alike. A hash is
two words of `WordSize` values; in `Draw` `weights` and the initial
stock are arbitrary within the bounds. `WordSize` is assumed at least the total
weight, as 2^64 is for eight `u32` weights.

### SettleDraws, Client and Kit

`ChainDraws` is the loop of `inventory.rs` `draw`: it starts from the counts of the
pinned prefix, rolls each hash over its own counts with the operators of `Roll`,
and takes the prize of that rank from the *live* index, which knows no cutoff.
`SettleWith` is a `Settle` whose transaction passes the Items of a
particular draw.

`Client` keeps the decisions of `gacha-rust/src/lib.rs` and leaves out the bytes: a
plan is the condition under which the SDK returns an instruction, or the list of what
it contains (`PlanDraws`, `OwedPrizes`). Operators take the snapshot `v` as an argument;
`Ledger` is the snapshot of this moment. `PlansMatchProgram` compares each
plan's condition with the checks (`CanX`) of the instruction it builds, apart from what the SDK
leaves to the chain: the clock, the surplus of the vault, a buyer's funds and seed.
`Kit` adds the TypeScript client's loop, which does not share `Pool::draw` with the
program as the Rust client does.

### Relay

An SDK call is a sequence of reads; `call` holds what it has read so far and the slot
the next answer must reach. Each stage is one action: `ReadHeader` (buy),
`Discover`, `Snapshot` (settle, refund), `ReadItems`, `ReadAssets` (settle, deliver),
`ReadPull` (deliver). Each may be answered from the present ledger or by a node
that still shows an earlier slot (`lagging`). An error that the user can do nothing
about (nothing to settle, an old answer) abandons the call; one that names a missing
or foreign account after the purchase has been seen is the state `refused`, so
that it can be judged. A plan is a sequence of groups; a group
executes instruction by instruction and is rolled back as a whole when one fails
its checks. `BuyIx` also remembers, for the properties, what the header it was built from
showed, had sold and offered (`Offers`); only the inventory version is signed, so a restock
makes a prepared purchase stale, and another purchase may take the stock, the collateral
or the seed. `FailsOnlyWhenOvertaken` says that nothing else does. The application sends
groups in order, drops the rest when one fails or gets lost, and may call the SDK again:
the SDK itself neither sends nor retries.

Others deposit, buy, settle, deliver and refund at any moment. `RelayInit` is a pool in
service; withdrawals, buybacks and retirement by others are left out of this
composition (they never touch a pending or awarded prize, which `core` and
`buyback` check, but what they take out of the vault can make a prepared purchase fail). The sizes of transactions are two numbers here, `FirstBatch` and
`Batch`; `Batches` has the real rule.

### Batches

The loop of `batches` over abstract instructions: a set of keys and a data length.
`transaction_size` counts shared keys once, as a compiled message does. An account that an
instruction lists twice counts as one more byte of data, and lengths stay below 128,
so that compact lengths have one byte.

### GachaEvents

Each instruction is conjoined with `Emit` of its event: the event must fit its
buffer, else the push panics and the instruction has no effect. `WireSize` and
`Buffer` are the two columns of the `event!` table. The indexer (`mirror`) is not in the
repository; it stands for any consumer that has the log only, and uses
nothing but the fields of the events.

Operators whose names carry a suffix (`Spendable_IgnoresPending`) are mutants: what
a plausible bug would make of the operator that follows. They are not
used by the specifications; `PROJECT.json` pairs each property with one that
breaks it.

## 3. What is checked

| Run | Distinct states | Asks |
|---|---|---|
| `core` | 785,664 | all invariants and action properties of `Gacha` with every instruction but buyback |
| `buyback` | 291,678 | the same pool with buybacks: custody, and every instruction as a step of `Promises`; the SDK's limits and plans in every reachable state |
| `limits` | 42,048 | parameters around every check of `CreatePool`, arithmetic at the limit of a 3-bit `u64` |
| `live` | 26,904 | liveness of the program |
| `index` | 6,744 | the index against linear scans, and as an implementation of `AbstractInventory` |
| `index_deep` | 19,458 | the search with one tier and five blocks |
| `draw` | 729 | every small weighting and stock, every pair of words |
| `settle` | 3,424 | every stock of four positions, prefix, weighting and VRF output: the program's draws, both SDKs' draws and what `Gacha` allows |
| `relay` | 1,568,412 | the Rust SDK's calls interleaved with everybody else |
| `relay_live` | 28,178 | a retried delivery of three prizes in two groups comes to its end |
| `batches` | 17,391 | every sequence of up to four instructions of five shapes |
| `events` | 291,678 | the log against the ledger, with buybacks |

All properties hold. No disagreement between the code and its comments or docs was
found in the parts modelled.

**Bounds.** `core` has two client seeds (two purchases open at once, the
fewest with an order), pulls of up to two draws (partial delivery and a reservation
larger than one), three assets and three positions (a pinned prefix, a prize taken from it
and one deposited behind it), two tiers and two wallets, one of them the
authority. Three slots and a deadline one slot away let a pull be before, at and
past its deadline while a second one is open. A prize can be won, brought back and
deposited again. The supply of six tokens and amounts of two leave the vault
just short of, equal to and above what is reserved. `buyback` has two assets
that may return, a quote that expires on the way and one for a tier the pool does
not have. `limits` has the only valid terms surrounded by one rejected variant per
check. `index` has a node over two blocks and a last node of its own, with blocks of
two positions so that cutoffs fall on and inside boundaries; `index_deep` reaches node
4, created over three older blocks, and five blocks make the descent start beyond the
end. `settle` starts from every reachable shape of a pool with four positions: any of them sold,
any prefix pinned, one or two draws, equal and unequal weights, words of four values.
`relay` has two prizes to begin with and room for one more, two seeds, two
outputs, one delivery next to a settlement and two in a transaction of their
own, so that a settlement of two prizes spans two transactions and a delivery of
both is one group; a purchase by the user and one by others can be open at once, and the
slots let it expire while a plan is in flight. The vault opens with the penalties of two
draws for three prizes, so that stock and collateral can each be what a purchase lacks. `relay_live` has three prizes and
two deliveries per transaction, so that a group can fail for one prize and strand
another. `batches` has groups of exactly the limit, instructions that share keys and ones that do
not, and one that fits nowhere. `MaxPositions`, `MaxPurchases` and `MaxSlot` bound counters and appear only
in guards marked as bounds.

**Symmetry.** Only in `core` and only over the assets, which no definition
orders; that run has no liveness property.

**Deadlock.** Checked in the `Gacha` runs (someone can always move an asset or set
the status). Not in `Inventory` and `Draw`, whose bounded index fills up and
whose stock runs out, nor in `settle` and `batches`, which compute one result and stop.

**Fairness.** Time passes (`Tick`). `Refund` and `Deliver` are permissionless and
somebody wants each of them, so one that stays possible is eventually
submitted. Nothing else is fair: the operator need not settle, the authority need not
do anything, nobody must buy. Weak fairness is enough because nothing disables a refund
of the head once its deadline has passed, and only its own execution disables a
delivery; that is itself part of what the run checks.

**Transfers.** `CanDeliver` and `CanRefund` treat the transfers of Core and of the token
program as succeeding once their preconditions hold. src/README.md:130-135 names what may
break that: freeze rules and permanent delegates of a collection or an asset, and a freeze
authority kept by the payment mint. `PurchasesResolve` (the refund), `RetirementDrains`
and `DeliveryRecovers` (deliveries and refunds) assume that none of them is used.

In `relay_live` the fairness is the relayer's: requests are answered, a transaction that
was sent lands or expires, an executing one ends, and whoever wants a delivery
keeps asking. Strong fairness says that an adverse event does not happen every time:
again and again both requests of a call are answered by a node that is up
to date, and a transaction planned from such answers lands. That is all; nobody
else has to do anything, and others may deliver any prize at any time.

## 4. What is proved

The theorems hold for every value of the constants that satisfies the four
assumptions of `Gacha` (`BoundAssumption`, `AccountAssumption`,
`InputAssumption`, and `NullAssumption`: an absent account is not an account): any
number of seeds, assets, wallets and tiers, any bounds, any
set of terms and quotes.

* `TypeCorrect`: `Spec => []TypeOK`. Beyond types this says that `pending_draws`,
  the tier counts and the vault never go below zero.
* `AlwaysSolvent`: `Spec => []Solvency`. The argument: `Solvency` alone is not
  inductive, because `CreatePool` changes the rate; before it nothing can be owed
  (`AbsentOwesNothing`). With that and the types (`SolvencyInv`), a sale lands its
  payment after checking the new reservation, a refund pays what its draws
  reserved (`ProductMinus`), a settlement releases them and pays nothing
  (`ProductMonotone`), and every other payment passes `Spendable`
  (`SpendableSolvent`).
* `QueueInOrder`: `Spec => []FIFOQueue`. Every step does one of three things to
  the queue (`StepKinds`): nothing, the head leaves, or a purchase joins at the end;
  and no step turns the version, the slot or the terms back (`StepAdvances`).
  `QueueInv` adds to `FIFOQueue` that `next_settle <= next_index` and that no deadline
  lies further ahead than a purchase made now would set it: without that a new
  purchase could be given an earlier deadline than an older one.
* `DrawsCounted`: `Spec => []PendingDrawsCounted`. The counter is compared with the
  set of tickets, one per draw of a pending pull, because a sum over pulls
  would need induction. A pull's tickets are a block of `count` elements that joins
  and leaves whole (`JoinsTickets`, `HeadLeavesTickets`).
* `StockInAgreement`: `Spec => []StockAgrees`. One lemma for each operation on the
  stock (`RestockAgrees`, `AwardAgrees`, `ReclaimAgrees`); `StockInv` adds that there
  is no stock before `CreatePool` fixes the number of tiers.
* `PrizesReserved`: `Spec => []ReservedPrefix`, the claim in `Buy`'s comment and
  the centre of this development. Its invariant `ReserveInv` joins the three
  before: the queue (which claims are older), the counter (what `Buy` compares is
  the claims of the whole queue) and the stock (the header's total is no more than
  the prizes of the present prefix, `TotalIsAvailable`). A purchase then has
  its claim in stock (`JoinsReserve`); when the head leaves, each later claim
  shrinks by its draws and each prefix by at most as many prizes
  (`HeadLeavesReserve`); deposits and buybacks only add behind every pinned prefix
  (`RestockKeepsPrefix`); and `Reclaim` waits for an empty queue, which the
  counter proves empty.

* `LimitsCorrect`: `Spec => []LimitsExact`, over the same constants. `PledgeInv` joins
  `SolvencyInv` and `ReserveInv` with the validity of the terms (`TermsValid`, which
  makes the divisor positive). The collateral test of `Buy`, `vault + n * price >=
  (pending + n) * (price + bond)`, is `n * bond <= surplus`, and that is
  `n <= surplus \div bond` (`QuotientExact`, `CollateralExact`); the subtraction
  in the stock never fails because the queue's claims are in stock
  (`StockCoversQueue`, from `PrizesReserved`'s invariant), and the reserved amount fits
  because the vault holds it (`SurplusExact`).
* `PoolsDecode`: in every state with a pool, its account passes
  `Pool::from_account`. The comparison of the header with the whole index is
  `StockAgrees`, the rest are the terms.

* `PlansExecute`: `Spec => []PlansMatchProgram`. Every condition of a plan is one of
  the program's checks, or one that holds of every ledger: decoding (`PoolsDecode`), the
  fit of arithmetic that `Solvency` bounds, the stock and custody of what an `Item` or an
  award names. So the SDK neither refuses what the program would accept nor builds
  what it would reject.
* `HeadPassesGuards`: `Spec => []HeadResolvable`. From `PledgeInv`, as for
  `LimitsCorrect`: the refund of the head is covered, its prefix has an eligible
  prize for each of its draws, and every eligible prize has an Item and a tier with
  stock (`DrawsAward`). `UnsoldPassesGuards`: `Spec => []UnsoldReclaimable`, from the
  agreement of the stock and `Custody`.
* `PrizesInCustody`: `Spec => []Custody`. `CustodyInv` adds to `StockInv` that a
  settled pull is complete: its outcomes carry assets and tiers up to its count
  (`SettledComplete`), without which a delivery might free an asset nobody
  recorded. Each operation then moves claims: a restock adds one for an asset that
  no claim names because another account owned it (`OutsideUnclaimed`), a settlement turns items
  into awards one to one (`SettleCustody`), a delivery and a reclaim end one.
* The action properties follow from `LedgerInv`, which joins `ReserveInv` and
  `CustodyInv`: `AwardsLast` (`AwardsKept`), `AwardsFromPrefix` (`AwardsPinned`),
  `PrefixPinned` (`PinnedCandidates`), `CustodyReleasedRightly`
  (`CustodyRelease`) and `RetirementIsFinal` (`RetiredOnlyDrains`). `AwardSteps`,
  `StockSteps` and `OwnerSteps` first sort the actions by what they do to awards, stock
  and owners.
* `PromisesKept`: `Spec => KeepsPromises`, the refinement of `Promises`. `PromiseInv`
  joins `PledgeInv` and `LedgerInv`. The draws promised are the tickets of the whole
  queue and therefore `pending_draws` (`DrawsPromised`); the shelf is as large as the
  header's total because no two Items name one asset (`ShelfSize`); what is left of a
  settled promise are its awards (`OwedAwards`). Then each instruction is a step:
  `BuySells`, `RefundPaysBack`, `SettleAwards`, `DeliverHands`, `AssetsMove`; of the others
  `Solvency` after the step says that they leave the cover alone (`CashMoves`).
* `IndexerNeverWrong`: `EventSpec => []IndexerAgrees`. Logging adds a conjunct to each
  instruction, so all of the above holds with the log (`LogObserves`, a lemma). `EventInv` says that the
  indexer's state is a function of the ledger (`mirror = Seen`); each event must carry
  the change that its instruction makes to `Seen`, and where an event names an asset only,
  `Custody` makes the item or award it belongs to unique (`SettleSeen`,
  `DeliverSeen`). `LogNeverBlocks`: no step has an event too long for its buffer;
  the Settle event fills it exactly at `MaxCount` draws. `LoggedHeadPasses`: `EventSpec =>
  []LoggedHeadResolvable`, so that the head can be resolved with its event, too.

**The index**, for every block size, tier count and number of blocks.
`NodesAlwaysExact`, `CountsAlwaysExact` and `SearchesAlwaysExact` rest on one
inductive invariant, `IndexInv`: types, cleared tags behind the version, and
`NodesExact`. The arithmetic comes first: the lowest set bit is a power of two
(`LowBitType`), aligned blocks of different sizes are disjoint or nested
(`AlignedApart`), so that the chain of `append` and `remove` visits exactly the
nodes that cover a block (`AncestorsCover`) and the chain of `prefix_counts`
partitions a prefix (`PrefixExact`). Once the descent has tried a step of `s` blocks
(`Walked`), its node is a multiple of `s`, the sought prize lies in the `s` blocks that
follow, the rank left is its rank there, and the nodes decremented so far are the
ones of `s` blocks or more that count the prize (`DescendWalks`). `ImplementsLinear` is the refinement: the tags are the
list, and each operation with its answer is the list's.

**The draw.** `EveryDrawLands` and `OddsAreExact`, for any number of tiers, weights
and stock. The bounds between tiers are partial sums (`Bounds`); a roll lies between
two of them (`RollFalls`) and selects the tier between them and no other
(`TierOfRoll`), so that the words of a tier are an interval as long as its weight.

**The settlement**, over the constants of `Gacha` and the word size. `Follows(s,
output, d)` says that `d` holds, draw after draw, the prize of the rank that the
hash selects among what is left of the pinned prefix.

* `SettlementReachesAll`: `Spec => []DrawsReachable`. The program's loop follows the
  output although it searches the live index: a rank below the eligible count of a
  tier means the same prize in the prefix and in the whole index (`NthInPrefix`,
  `OneDraw`). What follows is eligible (`FollowsEligible`) and unique. Conversely every
  eligible sequence is followed by some output (`HashFor`): a word has
  more values than the weights of a pool add up to and than a tier has prizes
  (`WordAssumption`: 2^64 against eight `u32` weights and a `u32` of positions), and the weights
  of a pool are ones `CreatePool` accepted (`TermsOffered`).
* `PlansDrawAlike`: `Spec => []PlannedDrawsExact`. The SDKs' lists are the ascending
  lists of what is left in each tier; an ascending list is unique, its entry `k + 1`
  is the prize of rank `k`, and removing an entry leaves the ascending list of the
  rest (`SortedNth`, `SortedIsAscending`, `SortedRemove`). So both loops
  hold, after `i` draws, the first `i` prizes of the sequence that follows the
  output (`PlanFollows`, `KitFollows`); the TypeScript walk, which subtracts from a roll,
  ends at the tier of `Pool::draw` (`KitRolls`).

**The packing**, for any instructions, sizes and limit. `BatchesComplete` (`NothingLost`)
rests on an invariant of the loop (`Packed`): the groups so far tile what has been read,
each fits a packet, and each but the last is closed because the instruction after it would
not have fitted. `BatchesFewest` (`FewestTransactions`) reads the optimum off that: any
other cutting whose pieces fit must cut inside every group the loop closed (`CutInside`,
since a packet's size only grows with its content, whatever keys the neighbours share),
and the groups are disjoint, so it has at least as many pieces (`GreedyIsBest`).

**The user among others**, over the constants of `Gacha`, the word size, any opening
stock and outputs and any two sizes of transaction. `RelayInvariant` proves
`RelaySpec => []RelayInv`; `RefusalsExplained`, `FailuresExplained` and
`BuyersSawTheStock` are its consequences. Its parts:

* `LedgerOK`: the pool in service is `Sound`, which gathers the invariants of `Gacha`; a
  `RollBack` needs them of the ledger it returns to, so they are also stated of a
  recorded ledger (`SoundAt`, through an instance of `Gacha`). What a lagging node shows is
  `Consistent`, which is all that the SDK's checks and plans need.
* `Behind(v, w)`: what an older ledger `v` and a newer one `w` have in common. Positions below
  the older version keep their tag until they are sold; a purchase that still waits is
  the same in both, with the prefix of the head untouched; a settled one only loses
  awards; what was on sale is still on sale while neither a restock nor a purchase has
  landed (`StillOffers`): `available_draws` is exactly what the program sells
  (`OffersExact`, from `LimitsHold` in `ClientProofs`), a settlement takes prizes and
  reservations in equal number, and a refund takes from the vault what it had reserved
  (`ReleaseSells`). Each step of the program that `Relay` lets others take (`ServiceStep`)
  keeps the lagging ledger behind, and so does a rollback, because the ledger returned to
  was itself ahead of it.
* `CallOK`, `KnowledgeOK`: what a call has read remains true of its purchase until that
  is resolved: the buyer, the draws planned (`Prepared`: they are the draws of the
  *present* ledger, since nothing but the purchase's own resolution touches its prefix while it
  is the head) and, after the settlement, the outcomes it expects to deliver (`Due`).
* `PlanOK`: every instruction of the plan is one the call may plan, deliveries of
  different outcomes after at most one other instruction; while a transaction
  executes, its own earlier instructions are all that separates the ledger from the one
  saved, so what fails in it was already lost before it landed.

Induction over data is done on sets: `RollProofs` proves, from the least element
of a set of naturals, that a set closed under successor holds every natural, and the
proofs above define the set of the lengths, steps or nodes for which the claim
holds. Where a recursive function is involved, its equation is first shown to have a
solution.

**Model-checked only.** Liveness (`PurchasesResolve`, `RetirementDrains`,
`DeliveryRecovers`), which needs fairness. Every other property of the runs has a theorem.

## 5. Not modelled

* Lamports and rent: paid by whoever creates an account, returned on close; no guard
  depends on them.
* Account layouts and address derivation: their effect is that each address is one account
  of one type. The SDKs' checks of discriminators, lengths and bumps belong here,
  and so does the signer check of `EmitEvent`.
* Proof verification: an external crate. `Settle` takes any output, `Relay` one
  fixed output per purchase, because key and input determine it.
* The Rust client's `buyback` and `fetch_*` calls: one read each, nothing to interleave;
  the plan of a buyback is in `Client`.
* The TypeScript client except its draw: it repeats the Rust client's decisions line
  by line (limits, pending and delivery checks, batches, slot-carrying reads), and
  a model would be the same module again.
* Test harness and benchmarks.

## 6. Plan

1. *Done:* the program, the index and the draw, with their composition; both clients' draws;
   the Rust client's plans, reads, transactions and packing; events; the promises to the
   buyers. Proved: every safety and action property that the runs check, and two
   refinements (`Gacha` of `Promises`, `Inventory` of `AbstractInventory`).
2. Withdrawals, buybacks and retirement by others in `Relay`: `Sound` would have to give up
   the active status, `StillOffers` to allow for collateral that the authority takes out.
3. The TypeScript client's reads, if they come to differ from the Rust client's.
