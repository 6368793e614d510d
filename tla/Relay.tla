-------------------------------- MODULE Relay --------------------------------
(***************************************************************************)
(* One user of the Rust SDK against a pool in service.  An SDK call reads  *)
(* accounts in several requests, plans from what it has read, and returns  *)
(* groups of instructions, one transaction each, which the application     *)
(* signs and sends in order.  Between any two of these steps everybody     *)
(* else goes on: restocks, buys, settles, delivers, refunds.  A request    *)
(* may be answered by a node that lags behind; a transaction may land      *)
(* late, fail, or get lost, and then the application drops the rest of the *)
(* plan and calls the SDK again.                                           *)
(***************************************************************************)
EXTENDS Client

CONSTANTS
    Outputs,       \* VRF outputs tried, as functions of the client seed
    OpeningStock,  \* the prizes the pool opens with: a sequence of Items
    OpeningVault,  \* the collateral it opens with
    FirstBatch,    \* deliveries that fit next to a settlement
    Batch          \* deliveries that fit in a transaction of their own

ASSUME RelayAssumption ==
    /\ Outputs \subseteq [Seeds -> VRFOutput]
    /\ OpeningStock \in Seq(Item) /\ Len(OpeningStock) <= MaxPositions
    /\ \A i, j \in DOMAIN OpeningStock :
         OpeningStock[i].asset = OpeningStock[j].asset => i = j
    /\ MaxSlot \in 1 .. MaxU64
    /\ OpeningVault \in 0 .. Supply
    /\ FirstBatch \in Nat /\ Batch \in Nat \ {0}

VARIABLES
    output,   \* the VRF output of each seed: alpha and the key determine it
    lagging,  \* what the lagging node answers with
    call,     \* the SDK call under way, with what it has read so far
    outbox,   \* transactions of the plan not yet sent, in order
    tx        \* the transaction being executed, and the ledger to roll back to

relayVars == <<vars, output, lagging, call, outbox, tx>>
offChain == <<output, lagging, call, outbox, tx>>
ledger == <<status, terms, queue, stock, pulls, vault, owner>>

-----------------------------------------------------------------------------
(* Instructions, and their execution with the accounts they name.          *)

SettleIx(s, draws) == [op |-> "settle", seed |-> s, draws |-> draws]
DeliverIx(s, buyer, i, asset) ==
    [op |-> "deliver", seed |-> s, buyer |-> buyer, outcome |-> i, asset |-> asset]
RefundIx(s, buyer) == [op |-> "refund", seed |-> s, buyer |-> buyer]

\* The counts the pool as read would sell under seed s, to a buyer with the money.
Offers(v, s) ==
    {n \in 1 .. MaxCount : /\ v.pulls[s] = NoPull
                           /\ n <= available_draws(v)
                           /\ v.terms.price * n <= Supply - v.vault}

\* What the header showed, had sold and would sell is remembered for the
\* properties; only the version is signed.
BuyIx(s, buyer, n, v) ==
    [op |-> "buy", seed |-> s, buyer |-> buyer, count |-> n,
     version |-> v.inventory_version,
     shown |-> {<<p, v.tags[p]>> : p \in {q \in Position : v.tags[q] # 0}},
     sold |-> v.next_index, offered |-> Offers(v, s)]

CanExecute(ix) ==
    \/ /\ ix.op = "settle"
       /\ CanSettleWith(ix.seed, output[ix.seed], ix.draws)
    \/ /\ ix.op = "deliver"
       /\ IsSettled(ix.seed) /\ pulls[ix.seed].buyer = ix.buyer
       /\ ix.outcome <= pulls[ix.seed].count
       /\ pulls[ix.seed].outcomes[ix.outcome].asset = ix.asset
       /\ CanDeliver(ix.seed, ix.outcome)
    \/ /\ ix.op = "refund"
       /\ IsPending(ix.seed) /\ pulls[ix.seed].buyer = ix.buyer
       /\ CanRefund(ix.seed)
    \/ /\ ix.op = "buy"
       /\ CanBuy(ix.seed, ix.count, ix.version)

Execute(ix) ==
    /\ CanExecute(ix)
    /\ \/ ix.op = "settle" /\ SettleWith(ix.seed, output[ix.seed], ix.draws)
       \/ ix.op = "deliver" /\ Deliver(ix.seed, ix.outcome)
       \/ ix.op = "refund" /\ Refund(ix.seed)
       \/ ix.op = "buy" /\ Buy(ix.seed, ix.buyer, ix.count, ix.version)

-----------------------------------------------------------------------------
(* The pool in service, after CreatePool, deposits, Fund and SetStatus.    *)

NoCall == [stage |-> "none"]

\* No transaction is executing.
NoTx == [left |-> <<>>]

RelayInit ==
    /\ status = "active"
    /\ terms \in {t \in Terms : ValidTerms(t)}
    /\ \A i \in DOMAIN OpeningStock : OpeningStock[i].tier \in Tiers
    /\ inventory_version = Len(OpeningStock)
    /\ pending_draws = 0 /\ next_index = 0 /\ next_settle = 0
    /\ items = [p \in Position |-> IF p < Len(OpeningStock) THEN OpeningStock[p + 1]
                                                            ELSE NoItem]
    /\ tags = [p \in Position |-> IF items[p] = NoItem THEN 0 ELSE items[p].tier + 1]
    /\ remaining = [t \in Tier |-> Cardinality({p \in Position : tags[p] = t + 1})]
    /\ pulls = [s \in Seeds |-> NoPull]
    /\ vault = OpeningVault
    /\ owner = [a \in Assets |->
                  IF \E p \in Position : items[p] # NoItem /\ items[p].asset = a
                  THEN Pool ELSE Authority]
    /\ slot = 1
    /\ output \in Outputs
    /\ lagging = [Ledger EXCEPT !.slot = 0]
    /\ call = NoCall
    /\ outbox = <<>>
    /\ tx = NoTx

-----------------------------------------------------------------------------
(* Reads.  A node answers from the ledger of its slot.  A request names    *)
(* the slot of the previous answer; an older answer is an error.           *)

Views == {Ledger, lagging}
Recent_Any(v) == TRUE
Recent(v) == v.slot >= call.minimum

Idle == call.stage \in {"none", "failed", "refused"} /\ outbox = <<>>
Becomes(c) == call' = c /\ UNCHANGED <<vars, output, lagging, outbox, tx>>
Ends(stage) == Becomes([call EXCEPT !.stage = stage])
Abandons == Becomes(NoCall)
Returns(groups) ==
    /\ call' = [call EXCEPT !.stage = "sent"]
    /\ outbox' = groups
    /\ UNCHANGED <<vars, output, lagging, tx>>

\* The first read of a call asks for no particular slot.
Start(op, s) ==
    /\ tx = NoTx /\ Idle
    /\ Becomes([stage |-> "first", op |-> op, seed |-> s, minimum |-> 0, index |-> 0,
                buyer |-> Authority, draws |-> <<>>, owed |-> <<>>, ix |-> NoTx, at |-> 0])

\* batches: deliveries follow the settlement while they fit, in order.
Groups(initial, deliveries) ==
    LET room == IF initial = <<>> THEN Batch ELSE FirstBatch
        n == Len(deliveries)
        first == initial \o SubSeq(deliveries, 1, Least(room, n))
        rest == SubSeq(deliveries, room + 1, n)
        others == [k \in 1 .. (Len(rest) + Batch - 1) \div Batch |->
                     SubSeq(rest, (k - 1) * Batch + 1, Least(k * Batch, Len(rest)))]
    IN  IF first = <<>> THEN <<>> ELSE <<first>> \o others

-----------------------------------------------------------------------------
(* Client::buy *)

ReadHeader(v, n) ==
    /\ call.stage = "first" /\ call.op = "buy"
    /\ IF PlansBuy(v, n)
       THEN Returns(<<<<BuyIx(call.seed, Authority, n, v)>>>>)
       ELSE Abandons

(* Client::snapshot, for settle and refund: find the pull, then read it and *)
(* its pool together.                                                       *)

Discover(v) ==
    /\ call.stage = "first" /\ call.op \in {"settle", "refund"}
    /\ IF v.pulls[call.seed] = NoPull
       THEN Abandons                                     \* MissingAccount
       ELSE Becomes([call EXCEPT !.stage = "snapshot", !.minimum = v.slot,
                                 !.index = v.pulls[call.seed].index])

Snapshot(v) ==
    LET s == call.seed
        pull == v.pulls[s]
        decodes == /\ pull # NoPull
                   /\ IF call.op = "settle" THEN PoolDecodes(v) ELSE HeaderDecodes(v)
    IN
    /\ call.stage = "snapshot" /\ Recent(v)
    /\ \/ ~ decodes /\ Ends("refused")          \* MissingAccount, InvalidAccount
       \/ decodes /\ ~ pending(v, s) /\ Abandons    \* NotPending, NotNextInQueue
       \/ /\ decodes /\ pending(v, s) /\ call.op = "refund"
          /\ Returns(<<<<RefundIx(s, pull.buyer)>>>>)
       \/ /\ decodes /\ pending(v, s) /\ call.op = "settle"
          /\ Becomes([call EXCEPT !.stage = "items", !.minimum = v.slot,
                                  !.index = pull.index, !.buyer = pull.buyer,
                                  !.draws = PlanDraws(v, s, output[s])])

(* Client::settle, after the snapshot. *)

ReadItems(v) ==
    /\ call.stage = "items" /\ Recent(v)
    /\ IF \E i \in DOMAIN call.draws : v.items[call.draws[i]] = NoItem
       THEN Ends("refused")                              \* MissingAccount
       ELSE Becomes([call EXCEPT !.stage = "assets", !.minimum = v.slot,
                       !.owed = [i \in DOMAIN call.draws |->
                                   [outcome |-> i,
                                    asset |-> v.items[call.draws[i]].asset]]])

(* Client::deliver *)

ReadPull(v) ==
    LET s == call.seed
        pull == v.pulls[s]
    IN
    /\ call.stage = "first" /\ call.op = "deliver"
    /\ IF pull = NoPull \/ Waiting(v, s)
       THEN Abandons                                     \* MissingAccount, NotSettled
       ELSE Becomes([call EXCEPT !.stage = "assets", !.minimum = v.slot,
                                 !.index = pull.index, !.buyer = pull.buyer,
                                 !.owed = OwedPrizes(v, s)])

\* The last read of settle and deliver: the pool must own every asset.
ReadAssets(v) ==
    LET deliveries == [k \in DOMAIN call.owed |->
                         DeliverIx(call.seed, call.buyer, call.owed[k].outcome,
                                   call.owed[k].asset)]
        initial == IF call.op = "settle" THEN <<SettleIx(call.seed, call.draws)>> ELSE <<>>
    IN
    /\ call.stage = "assets" /\ Recent(v)
    /\ IF \E k \in DOMAIN call.owed : v.owner[call.owed[k].asset] # Pool
       THEN Ends("refused")                              \* InvalidAsset
       ELSE Returns(Groups(initial, deliveries))

\* read rejects an answer older than the one before it.
TooOld(v) ==
    /\ call.stage \in {"snapshot", "items", "assets"} /\ ~ Recent(v)
    /\ Abandons

Read(v) ==
    /\ tx = NoTx
    /\ \/ \E n \in 1 .. MaxCount : ReadHeader(v, n)
       \/ Discover(v)
       \/ Snapshot(v)
       \/ ReadItems(v)
       \/ ReadPull(v)
       \/ ReadAssets(v)
       \/ TooOld(v)

-----------------------------------------------------------------------------
(* Transactions: all instructions of a group, or none.                     *)

RoomToBuy == next_index < MaxPurchases /\ slot + terms.deadline_slots < MaxSlot

Land ==
    /\ tx = NoTx /\ outbox # <<>>
    /\ Head(Head(outbox)).op = "buy" => RoomToBuy   \* bound: it fails for no other reason
    /\ tx' = [left |-> Head(outbox), saved |-> Ledger]
    /\ outbox' = Tail(outbox)
    /\ UNCHANGED <<vars, output, lagging, call>>

ExecuteNext ==
    /\ tx # NoTx
    /\ Execute(Head(tx.left))
    /\ tx' = IF Len(tx.left) = 1 THEN NoTx ELSE [tx EXCEPT !.left = Tail(@)]
    /\ call' = IF Len(tx.left) = 1 /\ outbox = <<>> THEN NoCall ELSE call
    /\ UNCHANGED <<output, lagging, outbox>>

\* An instruction fails: the ledger is as before, the rest is not sent.
RollBack ==
    /\ tx # NoTx
    /\ ~ CanExecute(Head(tx.left))
    /\ LET old == tx.saved IN
       /\ status' = old.status /\ terms' = old.terms
       /\ inventory_version' = old.inventory_version
       /\ pending_draws' = old.pending_draws
       /\ next_index' = old.next_index /\ next_settle' = old.next_settle
       /\ remaining' = old.remaining /\ tags' = old.tags /\ items' = old.items
       /\ pulls' = old.pulls /\ vault' = old.vault /\ owner' = old.owner
    /\ call' = [call EXCEPT !.stage = "failed", !.ix = Head(tx.left), !.at = slot]
    /\ tx' = NoTx /\ outbox' = <<>>
    /\ UNCHANGED <<slot, output, lagging>>

\* Expired or never sent: the application gives up on the plan.
Lose ==
    /\ tx = NoTx /\ outbox # <<>>
    /\ outbox' = <<>>
    /\ call' = NoCall
    /\ UNCHANGED <<vars, output, lagging, tx>>

-----------------------------------------------------------------------------
(* Everybody else, and time.                                               *)

Others ==
    /\ tx = NoTx
    /\ \/ \E a \in Assets, t \in Tiers : DepositItem(a, t)
       \/ \E s \in Seeds, n \in 1 .. MaxCount : Buy(s, Authority, n, inventory_version)
       \/ \E s \in Seeds : SettleWith(s, output[s], ChainDraws(s, output[s]))
       \/ \E s \in Seeds, i \in 1 .. MaxCount : Deliver(s, i)
       \/ \E s \in Seeds : Refund(s)
    /\ UNCHANGED offChain

\* The lagging node has replayed the slot that ends, or falls further behind.
NextSlot ==
    /\ tx = NoTx
    /\ Tick
    /\ lagging' \in Views
    /\ UNCHANGED <<output, call, outbox, tx>>

RelayNext ==
    \/ \E op \in {"buy", "settle", "refund", "deliver"}, s \in Seeds : Start(op, s)
    \/ \E v \in Views : Read(v)
    \/ Land
    \/ ExecuteNext
    \/ RollBack
    \/ Lose
    \/ Others
    \/ NextSlot

RelaySpec == RelayInit /\ [][RelayNext]_relayVars

-----------------------------------------------------------------------------
(* Properties.                                                             *)

\* A purchase is its seed and its FIFO index: seeds can be used again.
Open(s, index) == IsPending(s) /\ pulls[s].index = index
Owed(s, index, asset) ==
    /\ IsSettled(s) /\ pulls[s].index = index
    /\ \E i \in 1 .. pulls[s].count :
         pulls[s].outcomes[i].tier # DELIVERED /\ pulls[s].outcomes[i].asset = asset

\* Once a call has seen its purchase, no later read of it is refused unless
\* somebody else has resolved that purchase, or delivered one of the prizes,
\* meanwhile: the slot carried from read to read keeps a lagging node from
\* showing a pool, an Item or an asset older than the pull.
RefusedOnlyWhenOvertaken ==
    call.stage = "refused" =>
      \/ call.op \in {"settle", "refund"} /\ ~ Open(call.seed, call.index)
      \/ /\ call.op = "deliver"
         /\ \E k \in DOMAIN call.owed :
              ~ Owed(call.seed, call.index, call.owed[k].asset)

\* In a pool that stays active and whose authority takes nothing out, a planned
\* transaction fails only if the plan was overtaken, never because the SDK and the
\* program compute, select or address different things.
\* A settlement, a refund or a delivery fails only if its deadline decides otherwise
\* or another transaction resolved that purchase, or delivered that prize, first:
\* restocks and purchases landing in between do not hurt it.
\* A purchase fails only if the pool as read did not offer that count, or a restock or
\* another purchase landed since (the signed version, the stock, the collateral or
\* the seed): settlements, refunds and deliveries landing in between do not hurt it.
FailsOnlyWhenOvertaken ==
    call.stage = "failed" =>
      \/ /\ call.op = "buy"
         /\ \/ call.ix.count \notin call.ix.offered
            \/ inventory_version > call.ix.version
            \/ next_index > call.ix.sold
      \/ /\ call.op = "settle" /\ call.ix.op = "settle"
         /\ \/ ~ Open(call.seed, call.index)
            \/ call.at > pulls[call.seed].deadline_slot
      \/ /\ call.op = "refund"
         /\ \/ ~ Open(call.seed, call.index)
            \/ call.at <= pulls[call.seed].deadline_slot
      \/ /\ call.ix.op = "deliver"
         /\ ~ Open(call.seed, call.index)
         /\ ~ Owed(call.seed, call.index, call.ix.asset)

\* Every prize a purchase can win when it lands was in stock, in the same tier, in
\* the header Client::buy read to build it, however old that answer was: the
\* signed version rejects any restock in between, and a sold prize never comes
\* back to its position.  What a user interface showed before that read is not
\* pinned by anything.
OnlyShownIsSold ==
    \A s \in Seeds :
      /\ tx # NoTx /\ pulls[s] = NoPull /\ pulls'[s] # NoPull
      /\ Head(tx.left).op = "buy"
      => \A p \in Position :
           p < pulls'[s].inventory_version /\ tags'[p] # 0
             => <<p, tags'[p]>> \in Head(tx.left).shown
SignedStock == [][OnlyShownIsSold]_relayVars

-----------------------------------------------------------------------------
(* Liveness.  Every request is answered and every transaction lands or     *)
(* expires.  A relayer that cares for a purchase keeps calling deliver;    *)
(* now and then both requests of a call are answered by a node that is up  *)
(* to date, and a transaction planned from such answers lands.             *)

\* The call under way is a delivery whose first answer was up to date.
CurrentDelivery ==
    call.stage \in {"assets", "sent"} /\ call.op = "deliver" /\ call.minimum > lagging.slot

RelayFairness ==
    /\ WF_relayVars(\E v \in Views : Read(v))
    /\ WF_relayVars(Land \/ Lose)
    /\ \A s \in Seeds : SF_relayVars(Start("deliver", s))
    /\ SF_relayVars(tx = NoTx /\ ReadPull(Ledger))
    /\ SF_relayVars(tx = NoTx /\ CurrentDelivery /\ ReadAssets(Ledger))
    /\ SF_relayVars(CurrentDelivery /\ Land)
    /\ WF_relayVars(ExecuteNext)
    /\ WF_relayVars(RollBack)

RelayLiveSpec == RelaySpec /\ RelayFairness

\* Every settled purchase is delivered in full and closed, although transactions
\* are lost, groups fail as a whole when somebody else has delivered one of their
\* prizes, and nobody but this relayer has to do anything.
DeliveryRecovers ==
    \A s \in Seeds, i \in 0 .. MaxPurchases :
      IsSettled(s) /\ pulls[s].index = i
        ~> ~ (IsSettled(s) /\ pulls[s].index = i)
=============================================================================
