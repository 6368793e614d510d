----------------------------- MODULE GachaEvents -----------------------------
(***************************************************************************)
(* The event log.  Every instruction ends by emitting one event through a  *)
(* call to the program itself, and fails with it.  An indexer that reads   *)
(* nothing but the log keeps its own picture of the pool.                  *)
(* Keys and integers count for their bytes only; one pool, so its key is   *)
(* left out of the records (DeliverEvent does not have it either).         *)
(* Operators named X_Y are mutants of X, used to test the properties.      *)
(***************************************************************************)
EXTENDS Gacha

VARIABLE mirror  \* what the indexer has put together so far

eventVars == <<vars, mirror>>

-----------------------------------------------------------------------------
(* The events, from the state in which their instruction starts.           *)

CreatePoolEvent == [kind |-> "create_pool"]
DepositItemEvent_NewVersion(asset, tier) ==
    [kind |-> "deposit_item", asset |-> asset, tier |-> tier,
     position |-> inventory_version + 1]
DepositItemEvent(asset, tier) ==
    [kind |-> "deposit_item", asset |-> asset, tier |-> tier, position |-> NextPosition]
WithdrawEvent(amount) == [kind |-> "withdraw", amount |-> amount]
SetStatusEvent(s) == [kind |-> "set_status", status |-> s]
ReclaimEvent(p) == [kind |-> "reclaim", asset |-> items[p].asset, position |-> p]
BuyEvent(s, buyer, count) ==
    [kind |-> "buy", pull |-> s, buyer |-> buyer, index |-> next_index, count |-> count]
RefundEvent(s) ==
    [kind |-> "refund", pull |-> s, amount |-> RefundAmount(pulls[s].count)]
BuybackEvent(q, seller) ==
    [kind |-> "buyback", asset |-> q.asset, seller |-> seller, price |-> q.price,
     position |-> NextPosition]
\* The outcomes as the settled Pull stores them; alpha, proof and beta are sizes.
SettleEvent(s, outcomes) == [kind |-> "settle", pull |-> s, outcomes |-> outcomes]
DeliverEvent(s, i) ==
    [kind |-> "deliver", pull |-> s, asset |-> pulls[s].outcomes[i].asset, outcome |-> i]

\* Bytes of an event: two discriminators, the keys, the other fields in order.
Key == 32
WireSize(e) ==
    2 + CASE e.kind = "create_pool" -> Key
          [] e.kind = "deposit_item" -> 2 * Key + 1 + 4
          [] e.kind = "withdraw" -> Key + 8
          [] e.kind = "set_status" -> Key + 1
          [] e.kind = "reclaim" -> 2 * Key + 4
          [] e.kind = "buy" -> 3 * Key + 8 + 1
          [] e.kind = "refund" -> 2 * Key + 8
          [] e.kind = "buyback" -> 3 * Key + 8 + 4
          [] e.kind = "settle" -> 2 * Key + 32 + 80 + 64 + Len(e.outcomes) * (1 + Key)
          [] e.kind = "deliver" -> 2 * Key + 1

\* The fixed buffer of each event; Settle's is 572 for ten outcomes.
Buffer_OneShort(kind) ==
    CASE kind = "settle" -> 242 + (MaxCount - 1) * 33
      [] OTHER -> 110
Buffer(kind) ==
    CASE kind = "create_pool" -> 34
      [] kind = "deposit_item" -> 71
      [] kind = "withdraw" -> 42
      [] kind = "set_status" -> 35
      [] kind = "reclaim" -> 70
      [] kind = "buy" -> 107
      [] kind = "refund" -> 74
      [] kind = "buyback" -> 110
      [] kind = "settle" -> 242 + MaxCount * 33
      [] kind = "deliver" -> 67

-----------------------------------------------------------------------------
(* The indexer: it knows a prize by its asset, a purchase by its Pull.     *)

NothingSeen == [status |-> "absent", unsold |-> {}, waiting |-> {}, owed |-> {}]

Restocked(m, e) ==
    [m EXCEPT !.unsold = @ \cup {[position |-> e.position, asset |-> e.asset]}]
Resolved(m, e) == {w \in m.waiting : w.pull # e.pull}
Awarded(m, e) ==
    LET purchase == CHOOSE w \in m.waiting : w.pull = e.pull
        n == Len(e.outcomes)
        won == {e.outcomes[i].asset : i \in 1 .. n}
    IN  [m EXCEPT !.waiting = Resolved(m, e),
                  !.unsold = {u \in @ : u.asset \notin won},
                  !.owed = @ \cup {[pull |-> e.pull, buyer |-> purchase.buyer,
                                    outcome |-> i, asset |-> e.outcomes[i].asset] :
                                     i \in 1 .. n}]

Apply(m, e) ==
    CASE e.kind = "create_pool" -> [m EXCEPT !.status = "paused"]
      [] e.kind = "set_status" -> [m EXCEPT !.status = e.status]
      [] e.kind \in {"deposit_item", "buyback"} -> Restocked(m, e)
      [] e.kind = "reclaim" ->
           [m EXCEPT !.unsold = {u \in @ : u.position # e.position}]
      [] e.kind = "buy" ->
           [m EXCEPT !.waiting = @ \cup {[pull |-> e.pull, buyer |-> e.buyer,
                                          index |-> e.index, count |-> e.count]}]
      [] e.kind = "refund" -> [m EXCEPT !.waiting = Resolved(m, e)]
      [] e.kind = "settle" -> Awarded(m, e)
      [] e.kind = "deliver" ->
           [m EXCEPT !.owed = {o \in @ : o.pull # e.pull \/ o.outcome # e.outcome}]
      [] e.kind = "withdraw" -> m

\* Pushing past the buffer panics, and the instruction has no effect.
CanEmit(e) == WireSize(e) <= Buffer(e.kind)
Emit(e) ==
    /\ CanEmit(e)
    /\ mirror' = Apply(mirror, e)

-----------------------------------------------------------------------------
LoggedSettle(s) == Settle(s) /\ Emit(SettleEvent(s, pulls'[s].outcomes))
LoggedRefund(s) == Refund(s) /\ Emit(RefundEvent(s))

EventInit == Init /\ mirror = NothingSeen

EventNext ==
    \/ \E t \in Terms : CreatePool(t) /\ Emit(CreatePoolEvent)
    \/ \E s \in {"paused", "active", "retired"} : SetStatus(s) /\ Emit(SetStatusEvent(s))
    \/ \E a \in Assets, t \in 0 .. MaxTiers :
         DepositItem(a, t) /\ Emit(DepositItemEvent(a, t))
    \/ \E n \in Amounts : Withdraw(n) /\ Emit(WithdrawEvent(n))
    \/ \E p \in Position : Reclaim(p) /\ Emit(ReclaimEvent(p))
    \/ \E s \in Seeds, b \in Wallets, n \in 1 .. MaxCount :
         Buy(s, b, n, inventory_version) /\ Emit(BuyEvent(s, b, n))
    \/ \E s \in Seeds : LoggedRefund(s)
    \/ \E q \in Quotes, w \in Wallets : Buyback(q, w) /\ Emit(BuybackEvent(q, w))
    \/ \E s \in Seeds : LoggedSettle(s)
    \/ \E s \in Seeds, i \in 1 .. MaxCount : Deliver(s, i) /\ Emit(DeliverEvent(s, i))
    \/ \E n \in Amounts : Fund(n) /\ UNCHANGED mirror
    \/ \E a \in Assets, w \in Wallets, to \in Wallets \cup {Pool} :
         TransferAsset(a, w, to) /\ UNCHANGED mirror
    \/ Tick /\ UNCHANGED mirror

EventSpec == EventInit /\ [][EventNext]_eventVars

-----------------------------------------------------------------------------
(* Properties.                                                             *)

\* The log tells the whole story: from events alone an indexer knows the status,
\* every unsold prize and its position, every waiting purchase and its place in
\* the queue, and every prize won but not delivered with its winner.  Settlements
\* do not log positions, so this rests on an asset being in stock only once, and
\* Pull addresses are used again.
IndexerAgrees ==
    /\ mirror.status = status
    /\ mirror.unsold = {[position |-> p, asset |-> items[p].asset] :
                          p \in {q \in Position : items[q] # NoItem}}
    /\ mirror.waiting = {[pull |-> s, buyer |-> pulls[s].buyer, index |-> pulls[s].index,
                          count |-> pulls[s].count] : s \in {r \in Seeds : IsPending(r)}}
    /\ mirror.owed =
         UNION {{[pull |-> s, buyer |-> pulls[s].buyer, outcome |-> i,
                  asset |-> pulls[s].outcomes[i].asset] :
                   i \in {j \in 1 .. pulls[s].count :
                            pulls[s].outcomes[j].tier # DELIVERED}} :
                s \in {r \in Seeds : IsSettled(r)}}

\* Emitting never blocks the queue: up to its deadline every draw that can settle
\* the first purchase comes with an event that fits, also when it is of as many
\* prizes as the buffer has room for, and after it so does the refund.
LoggedHeadResolvable ==
    \A s \in Seeds : IsHead(s) =>
      \/ /\ CanSettle(s)
         /\ \A d \in Draws(s) : CanAward(s, d) => CanEmit(SettleEvent(s, Won(s, d)))
      \/ CanRefund(s) /\ CanEmit(RefundEvent(s))
=============================================================================
