-------------------------------- MODULE Client --------------------------------
(***************************************************************************)
(* The planning half of the Rust SDK: from a snapshot of the accounts it   *)
(* decides whether an instruction can be built, and what it will contain.  *)
(* Every operator takes the snapshot v, so that plans can be made from the *)
(* present ledger (below) or from an older one (module Relay).             *)
(* Keys, rent and wire formats are left out: an address is what it names.  *)
(* Operators named X_Y are mutants of X, used to test the properties.      *)
(***************************************************************************)
EXTENDS SettleDraws

\* Everything an RPC node can answer with, as of one moment.
Ledger ==
    [status |-> status, terms |-> terms, inventory_version |-> inventory_version,
     pending_draws |-> pending_draws, next_index |-> next_index,
     next_settle |-> next_settle, remaining |-> remaining, tags |-> tags,
     items |-> items, pulls |-> pulls, vault |-> vault, owner |-> owner,
     slot |-> slot]

TiersOf(v) == {t \in Tier : t < v.terms.tier_count}

\* Pool::from_account on the header alone, and on the header with its index.
HeaderDecodes(v) == v.status # "absent" /\ ValidTerms(v.terms)
PoolDecodes(v) ==
    /\ HeaderDecodes(v)
    /\ LET used == {p \in Position : p < v.inventory_version} IN
       /\ \A p \in used : v.tags[p] <= v.terms.tier_count
       /\ \A t \in TiersOf(v) :
            v.remaining[t] = Cardinality({p \in used : v.tags[p] = t + 1})

-----------------------------------------------------------------------------
(* Limits shown to the user. *)

ReservedIn(v) == (v.terms.price + v.terms.bond_per_draw) * v.pending_draws

\* The surplus of a vault holding balance (saturating).
Surplus(v, balance) ==
    IF balance >= ReservedIn(v) THEN balance - ReservedIn(v) ELSE 0
spendable_balance(v) == Surplus(v, v.vault)

StockIn(v) == Cardinality(UNION {{t} \X (1 .. v.remaining[t]) : t \in TiersOf(v)})

Least(a, b) == IF a <= b THEN a ELSE b
Affordable_FullPrice(v) ==
    spendable_balance(v) \div (v.terms.price + v.terms.bond_per_draw)
Affordable_IgnoresPending(v) == v.vault \div v.terms.bond_per_draw
\* The buyer brings the price, so the surplus only pays the penalties.
Affordable(v) == spendable_balance(v) \div v.terms.bond_per_draw

available_draws(v) ==
    IF v.status # "active" THEN 0
    ELSE Least(Least(StockIn(v) - v.pending_draws, Affordable(v)), MaxCount)

-----------------------------------------------------------------------------
(* Plans: the conditions under which the SDK returns an instruction.       *)

\* CreatePool::instructions, before any account exists.
PlansCreate(t) ==
    /\ t.tier_count \in 1 .. MaxTiers
    /\ {t.weights[i] : i \in {j \in Tier : j < t.tier_count}} \cap {0} = {}
    /\ {t.price, t.deadline_slots, t.bond_per_draw} \cap {0} = {}
    /\ Fits(t.price + t.bond_per_draw)
    /\ Fits((t.price + t.bond_per_draw) * MaxCount)

PlansStatus(v, s) ==
    HeaderDecodes(v) /\ ~ (v.status = "retired" /\ s # "retired")

PlansDeposit(v, asset, tier) ==
    /\ HeaderDecodes(v)
    /\ v.status # "retired"
    /\ tier < v.terms.tier_count
    /\ v.owner[asset] = Authority

PlansBuy(v, count) ==
    /\ HeaderDecodes(v)
    /\ v.status = "active"
    /\ count \in 1 .. MaxCount

PlansBuyback(v, q) ==
    /\ HeaderDecodes(v)
    /\ v.status = "active"
    /\ q.tier < v.terms.tier_count /\ q.price # 0 /\ q.expires_at > 0
    /\ v.owner[q.asset] # Pool

PlansReclaim_AnyTime(v, p) ==
    v.items[p] # NoItem /\ v.owner[v.items[p].asset] = Pool
PlansReclaim(v, p) ==
    /\ HeaderDecodes(v)
    /\ v.status = "retired"
    /\ v.pending_draws = 0
    /\ v.items[p] # NoItem
    /\ v.items[p].tier < v.terms.tier_count
    /\ p < v.inventory_version
    /\ v.owner[v.items[p].asset] = Pool

\* Pool::pending: what settle and refund ask of the pull.
Waiting(v, s) == v.pulls[s] # NoPull /\ v.pulls[s].status = "pending"
NextInQueue(v, s) == v.pulls[s].index = v.next_settle
pending(v, s) ==
    /\ Waiting(v, s)
    /\ NextInQueue(v, s)
    /\ v.pulls[s].inventory_version <= v.inventory_version

\* Pull::deliver: what is still owed, in order.
Undelivered_All(v, s) == [i \in 1 .. v.pulls[s].count |-> i]
Undelivered(v, s) ==
    Ascending({i \in 1 .. v.pulls[s].count : v.pulls[s].outcomes[i].tier # DELIVERED})

\* An owed prize keeps its number among all the outcomes of the pull.
OwedPrizes_Renumbered(v, s) ==
    [k \in DOMAIN Undelivered(v, s) |->
       [outcome |-> k, asset |-> v.pulls[s].outcomes[Undelivered(v, s)[k]].asset]]
OwedPrizes(v, s) ==
    [k \in DOMAIN Undelivered(v, s) |->
       LET i == Undelivered(v, s)[k]
       IN  [outcome |-> i, asset |-> v.pulls[s].outcomes[i].asset]]

\* Pool::settle: a linear scan of the pinned prefix into one list per tier, from
\* which every draw removes its prize.
PlanLists_WholeIndex(v, s) ==
    [t \in Tier |-> Ascending({p \in Position : v.tags[p] = t + 1})]
PlanLists(v, s) ==
    [t \in Tier |->
       Ascending({p \in Position : /\ p < v.pulls[s].inventory_version
                                   /\ v.tags[p] = t + 1})]
ListDraws(lists, weights, count, output) ==
    LET plan[i \in 0 .. count] ==
          IF i = 0
          THEN [draws |-> <<>>, lists |-> lists]
          ELSE LET before == plan[i - 1]
                   counts == [t \in Tier |-> Len(before.lists[t])]
                   tier == RollTier(weights, counts, output[i])
                   rank == RollRank(weights, counts, output[i], tier)
               IN  [draws |-> Append(before.draws, before.lists[tier][rank + 1]),
                    lists |-> [before.lists EXCEPT ![tier] = RemoveAt(@, rank + 1)]]
    IN  plan[count].draws
PlanDraws(v, s, output) ==
    ListDraws(PlanLists(v, s), v.terms.weights, v.pulls[s].count, output)

-----------------------------------------------------------------------------
(* Properties: a plan from the present ledger against the program.         *)

\* The SDK's limits are exact: neither computation fails, spendable_balance is
\* the largest amount Withdraw and Buyback accept, and available_draws the
\* largest purchase that passes Buy's stock and collateral checks, for a buyer
\* who has the money.
LimitsExact ==
    /\ Fits(ReservedIn(Ledger))
    /\ pending_draws <= StockIn(Ledger)
    /\ \A a \in 0 .. Supply : Spendable(a) <=> a <= spendable_balance(Ledger)
    /\ \A n \in 1 .. MaxCount : Payment(n) <= Supply - vault =>
         (n <= available_draws(Ledger)
            <=> status = "active" /\ InStock(n) /\ Collateralized(n))

\* The SDK and the program repeat each other's checks in two code bases.  From
\* the present ledger they agree: the SDK plans exactly what would execute, but
\* for what it leaves to the chain (the clock, the vault's surplus, a buyer's
\* funds and seed) and its own refusal of worthless quotes.
PlansMatchProgram ==
    /\ \A t \in Terms : status = "absent" =>
         (PlansCreate(t) <=> CanCreatePool(t))
    /\ \A s \in {"paused", "active", "retired"} :
         PlansStatus(Ledger, s) <=> CanSetStatus(s)
    /\ inventory_version < MaxPositions =>
         /\ \A a \in Assets, t \in 0 .. MaxTiers :
              PlansDeposit(Ledger, a, t) <=> CanDepositItem(a, t)
         /\ \A q \in Quotes :
              Spendable(q.price) /\ UnixTime[slot] < q.expires_at =>
                (PlansBuyback(Ledger, q)
                   <=> /\ \E w \in Wallets : CanBuyback(q, w)
                       /\ q.price # 0 /\ q.expires_at > 0)
    /\ \A p \in Position : PlansReclaim(Ledger, p) <=> CanReclaim(p)
    /\ \A s \in Seeds :
         /\ pending(Ledger, s) /\ AfterDeadline(s) <=> CanRefund(s)
         /\ IsSettled(s) => \A i \in 1 .. MaxCount :
              i \in ToSet(Undelivered(Ledger, s)) <=> CanDeliver(s, i)
=============================================================================
