-------------------------- MODULE GachaEventsProofs --------------------------
(***************************************************************************)
(* The event log of GachaEvents: logging changes nothing about the pool,   *)
(* and an indexer that reads the log alone is never wrong about it, for    *)
(* every value of the constants.                                           *)
(***************************************************************************)
EXTENDS GachaEvents, GachaProofs

USE DEF Tier, Position

-----------------------------------------------------------------------------
(* The program with its log is the program.                                *)

\* A logged step is a step of the program.
LEMMA LoggedStep == ASSUME TypeOK, [EventNext]_eventVars PROVE [Next]_vars
<1>1. inventory_version \in 0 .. inventory_version
  BY BoundAssumption DEF TypeOK
<1>2. ASSUME EventNext PROVE Next
  BY <1>1, <1>2 DEF EventNext, Next, LoggedSettle, LoggedRefund
<1> QED
  BY <1>2 DEF eventVars

\* Every behaviour with the log is a behaviour without it: what is proved of the
\* program holds of the program that emits events.
LEMMA LogObserves == EventSpec => Spec
<1>1. EventInit => Init
  BY DEF EventInit
<1>2. TypeOK /\ [EventNext]_eventVars => [Next]_vars
  BY LoggedStep
<1> QED
  BY <1>1, <1>2, TypeInit, TypeNext, PTL DEF EventSpec, Spec

-----------------------------------------------------------------------------
(* What an indexer that knows everything would have seen.                  *)

UnsoldSeen ==
    {[position |-> p, asset |-> items[p].asset] :
       p \in {q \in Position : items[q] # NoItem}}
WaitingSeen ==
    {[pull |-> s, buyer |-> pulls[s].buyer, index |-> pulls[s].index,
      count |-> pulls[s].count] : s \in {r \in Seeds : IsPending(r)}}
OwedSeen ==
    {[pull |-> w[1], buyer |-> pulls[w[1]].buyer, outcome |-> w[2],
      asset |-> pulls[w[1]].outcomes[w[2]].asset] : w \in Awards}
Seen == [status |-> status, unsold |-> UnsoldSeen, waiting |-> WaitingSeen,
         owed |-> OwedSeen]

\* The inductive invariant behind IndexerNeverWrong.
EventInv == LedgerInv /\ mirror = Seen

\* Grouping the awards by their pull gives the same set.
LEMMA SeenAgrees == ASSUME TypeOK, mirror = Seen PROVE IndexerAgrees
<1> DEFINE owed(s) == {[pull |-> s, buyer |-> pulls[s].buyer, outcome |-> i,
                        asset |-> pulls[s].outcomes[i].asset] :
                         i \in {j \in 1 .. pulls[s].count :
                                  pulls[s].outcomes[j].tier # DELIVERED}}
           byPull == UNION {owed(s) : s \in {r \in Seeds : IsSettled(r)}}
<1>1. ASSUME NEW o \in OwedSeen PROVE o \in byPull
  <2>1. PICK w \in Awards :
          o = [pull |-> w[1], buyer |-> pulls[w[1]].buyer, outcome |-> w[2],
               asset |-> pulls[w[1]].outcomes[w[2]].asset]
    BY DEF OwedSeen
  <2>2. /\ w[1] \in Seeds /\ IsSettled(w[1]) /\ w[2] \in 1 .. MaxCount
        /\ w[2] <= pulls[w[1]].count /\ pulls[w[1]].outcomes[w[2]].tier # DELIVERED
    BY DEF Awards
  <2>3. pulls[w[1]] \in Pull
    BY <2>2 DEF TypeOK, IsSettled
  <2>4. w[2] \in 1 .. pulls[w[1]].count
    BY <2>2, <2>3, BoundAssumption DEF Pull
  <2>5. o \in owed(w[1])
    BY <2>1, <2>2, <2>4
  <2> QED
    BY <2>2, <2>5
<1>2. ASSUME NEW o \in byPull PROVE o \in OwedSeen
  <2>1. PICK s \in Seeds : IsSettled(s) /\ o \in owed(s)
    OBVIOUS
  <2>2. PICK i \in 1 .. pulls[s].count :
          /\ pulls[s].outcomes[i].tier # DELIVERED
          /\ o = [pull |-> s, buyer |-> pulls[s].buyer, outcome |-> i,
                  asset |-> pulls[s].outcomes[i].asset]
    BY <2>1
  <2>3. PICK w \in Awards : w = <<s, i>>
    BY <2>1, <2>2, IsAward
  <2>4. w[1] = s /\ w[2] = i
    BY <2>3
  <2> QED
    BY <2>2, <2>4 DEF OwedSeen
<1>3. OwedSeen = byPull
  BY <1>1, <1>2
<1>4. /\ mirror.status = status /\ mirror.unsold = UnsoldSeen
      /\ mirror.waiting = WaitingSeen /\ mirror.owed = OwedSeen
  BY DEF Seen
<1> QED
  BY <1>3, <1>4 DEF IndexerAgrees, UnsoldSeen, WaitingSeen

-----------------------------------------------------------------------------
(* What each event tells.                                                  *)

\* Where the Items and the Pulls do not change, there is nothing new to see.
LEMMA NothingNew ==
    /\ items' = items => UnsoldSeen' = UnsoldSeen
    /\ pulls' = pulls => WaitingSeen' = WaitingSeen /\ OwedSeen' = OwedSeen
BY DEF UnsoldSeen, WaitingSeen, OwedSeen, Awards, IsPending, IsSettled

\* A deposit or a buyback adds its position and asset.
LEMMA RestockSeen ==
    ASSUME TypeOK, NEW a \in Assets, NEW t, CanRestock(t), Restock(a, t)
    PROVE  UnsoldSeen' = UnsoldSeen \cup {[position |-> NextPosition, asset |-> a]}
<1> DEFINE v == NextPosition
<1>1. v \in Position /\ items[v] = NoItem
  BY BoundAssumption DEF CanRestock, TypeOK, NextPosition
<1>2. t \in Tier
  BY DEF CanRestock, Tiers
<1>3. [tier |-> t, asset |-> a] \in Item /\ [tier |-> t, asset |-> a] # NoItem
  BY <1>2, NullAssumption DEF Item
<1>4. /\ items'[v] = [tier |-> t, asset |-> a]
      /\ \A p \in Position : p # v => items'[p] = items[p]
  BY <1>1 DEF Restock, TypeOK
<1>5. {q \in Position : items'[q] # NoItem} = {q \in Position : items[q] # NoItem} \cup {v}
  BY <1>1, <1>3, <1>4
<1>6. items'[v].asset = a /\ \A p \in Position : items[p] # NoItem => items'[p] = items[p]
  BY <1>1, <1>4
<1> HIDE DEF v
<1> QED
  BY <1>1, <1>5, <1>6 DEF UnsoldSeen, v

\* A reclaim removes its position.
LEMMA ReclaimSeen ==
    ASSUME TypeOK, NEW p \in Position, Reclaim(p)
    PROVE  UnsoldSeen' = {u \in UnsoldSeen : u.position # p}
<1>1. \A q \in Position : items'[q] = IF q = p THEN NoItem ELSE items[q]
  BY DEF Reclaim, CanReclaim, TypeOK
<1>2. {q \in Position : items'[q] # NoItem} = {q \in Position : items[q] # NoItem} \ {p}
  BY <1>1
<1>3. ASSUME NEW u \in UnsoldSeen' PROVE u \in UnsoldSeen /\ u.position # p
  BY <1>1, <1>2 DEF UnsoldSeen
<1>4. ASSUME NEW u \in UnsoldSeen, u.position # p PROVE u \in UnsoldSeen'
  BY <1>1, <1>2, <1>4 DEF UnsoldSeen
<1> QED
  BY <1>3, <1>4

\* A purchase adds itself.
LEMMA BuySeen ==
    ASSUME TypeOK, NEW s \in Seeds, NEW b \in Wallets, NEW n \in 1 .. MaxCount,
           NEW v \in 0 .. inventory_version, Buy(s, b, n, v)
    PROVE  /\ WaitingSeen' = WaitingSeen \cup {[pull |-> s, buyer |-> b,
                                                index |-> next_index, count |-> n]}
           /\ OwedSeen' = OwedSeen
<1>1. Joins(s, n)
  BY BuyJoins
<1>2. /\ ~ IsPending(s) /\ IsPending(s)' /\ pulls'[s].count = n
      /\ pulls'[s].index = next_index
      /\ \A r \in Seeds \ {s} : pulls'[r] = pulls[r]
  BY <1>1 DEF Joins, IsPending
<1>3. pulls'[s].buyer = b
  BY DEF Buy, CanBuy, TypeOK
<1>4. {r \in Seeds : IsPending(r)'} = {r \in Seeds : IsPending(r)} \cup {s}
  BY <1>2 DEF IsPending
<1>5. \A r \in Seeds : IsPending(r) => pulls'[r] = pulls[r]
  BY <1>2
<1>6. WaitingSeen' = WaitingSeen \cup {[pull |-> s, buyer |-> b, index |-> next_index,
                                        count |-> n]}
  BY <1>2, <1>3, <1>4, <1>5 DEF WaitingSeen
<1>7. SettledKept
  BY QueueStepsKeepSettled
<1>8. Awards' = Awards /\ \A w \in Awards : pulls'[w[1]] = pulls[w[1]]
  BY <1>7, KeptAwards
<1>9. OwedSeen' = OwedSeen
  BY <1>8 DEF OwedSeen
<1> QED
  BY <1>6, <1>9

\* The purchase that leaves the queue is known by its Pull.
LEMMA ResolvedSeen ==
    ASSUME NEW s \in Seeds, HeadLeaves(s)
    PROVE  WaitingSeen' = {w \in WaitingSeen : w.pull # s}
<1>1. /\ ~ IsPending(s)' /\ \A r \in Seeds \ {s} : pulls'[r] = pulls[r]
  BY DEF HeadLeaves
<1>2. {r \in Seeds : IsPending(r)'} = {r \in Seeds : IsPending(r)} \ {s}
  BY <1>1 DEF IsPending
<1>3. ASSUME NEW w \in WaitingSeen' PROVE w \in WaitingSeen /\ w.pull # s
  BY <1>1, <1>2 DEF WaitingSeen
<1>4. ASSUME NEW w \in WaitingSeen, w.pull # s PROVE w \in WaitingSeen'
  BY <1>1, <1>2, <1>4 DEF WaitingSeen
<1> QED
  BY <1>3, <1>4

\* A settlement names no position: what it won is found by its asset, which only
\* one unsold prize has.
LEMMA SettleSeen ==
    ASSUME LedgerInv, TypeOK', NEW s \in Seeds, Settle(s)
    PROVE  LET o == pulls'[s].outcomes IN
           /\ Len(o) = pulls[s].count
           /\ UnsoldSeen' =
                {u \in UnsoldSeen : u.asset \notin {o[i].asset : i \in 1 .. pulls[s].count}}
           /\ OwedSeen' = OwedSeen \cup
                {[pull |-> s, buyer |-> pulls[s].buyer, outcome |-> i,
                  asset |-> o[i].asset] : i \in 1 .. pulls[s].count}
<1> DEFINE n == pulls[s].count
           o == pulls'[s].outcomes
           won == {o[i].asset : i \in 1 .. n}
<1>1. TypeOK /\ Custody /\ SettledComplete /\ IsHead(s)
  BY DEF LedgerInv, CustodyInv, StockInv, Settle, CanSettle
<1>2. PICK d \in Draws(s) : Award(s, d)
  BY DEF Settle, CanSettle
<1>3. Wins(s, d)
  BY <1>1, <1>2, SettleWins
<1>4. n \in Nat /\ o \in [1 .. n -> Outcome] /\ Len(o) = n
  <2>1. n \in Nat
    BY <1>1, PendingNumbers DEF IsHead, PendingSeeds
  <2> QED
    BY <1>3, <2>1 DEF Wins
<1>5. ASSUME NEW i \in 1 .. n
      PROVE  /\ d[i] \in Position /\ d[i] \in Drawn(s, d) /\ items[d[i]] # NoItem
             /\ o[i].asset = items[d[i]].asset
  BY <1>2, <1>3 DEF Draws, Candidates, Available, Drawn, Award, CanAward, Won, Wins
<1>6. ASSUME NEW p \in Position
      PROVE  items'[p] = IF p \in Drawn(s, d) THEN NoItem ELSE items[p]
  BY <1>2 DEF Award, CanAward, Won, ItemsAfter
<1>7. ASSUME NEW p \in Position, items[p] # NoItem
      PROVE  p \in Drawn(s, d) <=> items[p].asset \in won
  <2>1. ASSUME p \in Drawn(s, d) PROVE items[p].asset \in won
    BY <1>5, <2>1 DEF Drawn
  <2>2. ASSUME items[p].asset \in won PROVE p \in Drawn(s, d)
    <3>1. PICK i \in 1 .. n : o[i].asset = items[p].asset
      BY <2>2
    <3>2. p = d[i]
      BY <1>1, <1>5, <1>7, <3>1 DEF Custody
    <3> QED
      BY <1>5, <3>2
  <2> QED
    BY <2>1, <2>2
<1>8. UnsoldSeen' = {u \in UnsoldSeen : u.asset \notin won}
  <2>1. ASSUME NEW u \in UnsoldSeen' PROVE u \in UnsoldSeen /\ u.asset \notin won
    <3>1. PICK p \in Position :
            items'[p] # NoItem /\ u = [position |-> p, asset |-> items'[p].asset]
      BY DEF UnsoldSeen
    <3>2. items'[p] = items[p] /\ p \notin Drawn(s, d)
      BY <1>6, <3>1
    <3>3. items[p].asset \notin won
      BY <1>7, <3>1, <3>2
    <3> QED
      BY <3>1, <3>2, <3>3 DEF UnsoldSeen
  <2>2. ASSUME NEW u \in UnsoldSeen, u.asset \notin won PROVE u \in UnsoldSeen'
    <3>1. PICK p \in Position :
            items[p] # NoItem /\ u = [position |-> p, asset |-> items[p].asset]
      BY DEF UnsoldSeen
    <3>2. p \notin Drawn(s, d)
      BY <1>7, <2>2, <3>1
    <3> QED
      BY <1>6, <3>1, <3>2 DEF UnsoldSeen
  <2> QED
    BY <2>1, <2>2
<1> DEFINE prizes == {[pull |-> s, buyer |-> pulls[s].buyer, outcome |-> i,
                       asset |-> o[i].asset] : i \in 1 .. n}
<1>9. OwedSeen' = OwedSeen \cup prizes
  <2>1. ASSUME NEW x \in OwedSeen' PROVE x \in OwedSeen \cup prizes
    <3>1. PICK w \in Awards' :
            x = [pull |-> w[1], buyer |-> pulls'[w[1]].buyer, outcome |-> w[2],
                 asset |-> pulls'[w[1]].outcomes[w[2]].asset]
      BY DEF OwedSeen
    <3>2. CASE w \in Awards
      <4>1. pulls'[w[1]] = pulls[w[1]]
        BY <1>1, <1>3, <3>2, WonAwards
      <4> QED
        BY <3>1, <3>2, <4>1 DEF OwedSeen
    <3>3. CASE w \notin Awards
      <4>1. w[1] = s /\ w[2] \in 1 .. n
        BY <1>1, <1>3, <3>3, WonAwards
      <4>2. pulls'[s].buyer = pulls[s].buyer
        BY <1>3 DEF Wins
      <4> QED
        BY <3>1, <4>1, <4>2
    <3> QED
      BY <3>2, <3>3
  <2>2. ASSUME NEW x \in OwedSeen PROVE x \in OwedSeen'
    <3>1. PICK w \in Awards :
            x = [pull |-> w[1], buyer |-> pulls[w[1]].buyer, outcome |-> w[2],
                 asset |-> pulls[w[1]].outcomes[w[2]].asset]
      BY DEF OwedSeen
    <3>2. w \in Awards' /\ pulls'[w[1]] = pulls[w[1]]
      BY <1>1, <1>3, WonAwards
    <3> QED
      BY <3>1, <3>2 DEF OwedSeen
  <2>3. ASSUME NEW x \in prizes PROVE x \in OwedSeen'
    <3>1. PICK i \in 1 .. n :
            x = [pull |-> s, buyer |-> pulls[s].buyer, outcome |-> i,
                 asset |-> o[i].asset]
      OBVIOUS
    <3>2. /\ IsSettled(s)' /\ i \in 1 .. pulls'[s].count
          /\ pulls'[s].outcomes[i].tier # DELIVERED /\ pulls'[s].buyer = pulls[s].buyer
      BY <1>3 DEF Wins
    <3>3. PICK w \in Awards' : w = <<s, i>>
      <4>1. pulls'[s] \in Pull
        BY <3>2 DEF TypeOK, IsSettled
      <4>2. pulls'[s].count \in 1 .. MaxCount
        BY <4>1 DEF Pull
      <4>3. i \in 1 .. MaxCount /\ i <= pulls'[s].count
        BY <3>2, <4>2, BoundAssumption
      <4>4. <<s, i>> \in Seeds \X (1 .. MaxCount)
        BY <4>3
      <4> QED
        BY <3>2, <4>3, <4>4 DEF Awards
    <3>4. w[1] = s /\ w[2] = i
      BY <3>3
    <3> QED
      BY <3>1, <3>2, <3>4 DEF OwedSeen
  <2> QED
    BY <2>1, <2>2, <2>3
<1> QED
  BY <1>4, <1>8, <1>9

\* A delivery is known by its Pull and outcome.
LEMMA DeliverSeen ==
    ASSUME LedgerInv, TypeOK', NEW s \in Seeds, NEW i \in 1 .. MaxCount, Deliver(s, i)
    PROVE  /\ WaitingSeen' = WaitingSeen
           /\ OwedSeen' = {o \in OwedSeen : o.pull # s \/ o.outcome # i}
<1>1. TypeOK /\ SettledComplete
  BY DEF LedgerInv, CustodyInv, StockInv
<1>2. /\ HandsOver(s, i) /\ \A r \in Seeds \ {s} : pulls'[r] = pulls[r]
      /\ ~ IsPending(s) /\ ~ IsPending(s)'
  BY <1>1, DeliverHandsOver
<1>3. WaitingSeen' = WaitingSeen
  <2>1. \A r \in Seeds : IsPending(r)' <=> IsPending(r)
    BY <1>2 DEF IsPending
  <2>2. \A r \in Seeds : IsPending(r) => pulls'[r] = pulls[r]
    BY <1>2
  <2> QED
    BY <2>1, <2>2 DEF WaitingSeen
<1>4. ASSUME NEW x \in OwedSeen'
      PROVE  x \in OwedSeen /\ (x.pull # s \/ x.outcome # i)
  <2>1. PICK w \in Awards' :
          x = [pull |-> w[1], buyer |-> pulls'[w[1]].buyer, outcome |-> w[2],
               asset |-> pulls'[w[1]].outcomes[w[2]].asset]
    BY DEF OwedSeen
  <2>2. /\ w \in Awards /\ w # <<s, i>> /\ pulls'[w[1]].buyer = pulls[w[1]].buyer
        /\ pulls'[w[1]].outcomes[w[2]].asset = pulls[w[1]].outcomes[w[2]].asset
    BY <1>2 DEF HandsOver
  <2>3. w = <<w[1], w[2]>>
    BY DEF Awards
  <2>4. x.pull = w[1] /\ x.outcome = w[2]
    BY <2>1
  <2>5. x \in OwedSeen
    BY <2>1, <2>2 DEF OwedSeen
  <2> QED
    BY <2>2, <2>3, <2>4, <2>5
<1>5. ASSUME NEW x \in OwedSeen, x.pull # s \/ x.outcome # i PROVE x \in OwedSeen'
  <2>1. PICK w \in Awards :
          x = [pull |-> w[1], buyer |-> pulls[w[1]].buyer, outcome |-> w[2],
               asset |-> pulls[w[1]].outcomes[w[2]].asset]
    BY DEF OwedSeen
  <2>2. x.pull = w[1] /\ x.outcome = w[2]
    BY <2>1
  <2>3. w # <<s, i>>
    BY <1>5, <2>2
  <2>4. w \in Awards'
    BY <1>2, <2>3 DEF HandsOver
  <2>5. /\ pulls'[w[1]].buyer = pulls[w[1]].buyer
        /\ pulls'[w[1]].outcomes[w[2]].asset = pulls[w[1]].outcomes[w[2]].asset
    BY <1>2, <2>4 DEF HandsOver
  <2> QED
    BY <2>1, <2>4, <2>5 DEF OwedSeen
<1> QED
  BY <1>3, <1>4, <1>5

-----------------------------------------------------------------------------
(* The indexer.                                                            *)

\* The indexer starts right.
LEMMA EventStart == EventInit => EventInv
<1> SUFFICES ASSUME EventInit PROVE EventInv
  OBVIOUS
<1>1. Init /\ mirror = NothingSeen
  BY DEF EventInit
<1>2. /\ \A p \in Position : items[p] = NoItem
      /\ \A s \in Seeds : ~ IsPending(s) /\ ~ IsSettled(s)
      /\ status = "absent"
  BY <1>1 DEF Init, IsPending, IsSettled
<1>3. UnsoldSeen = {} /\ WaitingSeen = {} /\ OwedSeen = {}
  BY <1>2 DEF UnsoldSeen, WaitingSeen, OwedSeen, Awards
<1> QED
  BY <1>1, <1>2, <1>3, LedgerInductive DEF EventInv, Seen, NothingSeen

\* Applying the event of a step to a right picture gives a right picture.
LEMMA EventStep == EventInv /\ [EventNext]_eventVars => EventInv'
<1> SUFFICES ASSUME EventInv, [EventNext]_eventVars PROVE EventInv'
  OBVIOUS
<1>0. /\ LedgerInv /\ TypeOK /\ mirror = Seen
  BY DEF EventInv, LedgerInv, CustodyInv, StockInv
<1>00. [Next]_vars /\ LedgerInv' /\ TypeOK'
  BY <1>0, LoggedStep, LedgerInductive, TypeNext
<1> DEFINE Goal == mirror' = Seen'
<1>a. ASSUME UNCHANGED <<status, items, pulls, mirror>> PROVE Goal
  BY <1>0, <1>a, NothingNew DEF Seen
<1>1. ASSUME NEW t \in Terms, CreatePool(t), Emit(CreatePoolEvent) PROVE Goal
  <2>1. mirror' = [Seen EXCEPT !.status = "paused"]
    BY <1>0, <1>1 DEF Emit, CreatePoolEvent, Apply
  <2>2. UNCHANGED <<items, pulls>> /\ status' = "paused"
    BY <1>1 DEF CreatePool, CanCreatePool, stock
  <2> QED
    BY <2>1, <2>2, NothingNew DEF Seen
<1>2. ASSUME NEW x \in {"paused", "active", "retired"}, SetStatus(x),
             Emit(SetStatusEvent(x))
      PROVE  Goal
  <2>1. mirror' = [Seen EXCEPT !.status = x]
    BY <1>0, <1>2 DEF Emit, SetStatusEvent, Apply
  <2>2. UNCHANGED <<items, pulls>> /\ status' = x
    BY <1>2 DEF SetStatus, CanSetStatus, stock
  <2> QED
    BY <2>1, <2>2, NothingNew DEF Seen
<1>3. ASSUME NEW a \in Assets, NEW t \in 0 .. MaxTiers, DepositItem(a, t),
             Emit(DepositItemEvent(a, t))
      PROVE  Goal
  <2>1. mirror' = Restocked(Seen, DepositItemEvent(a, t))
    BY <1>0, <1>3 DEF Emit, DepositItemEvent, Apply
  <2>2. mirror' = [Seen EXCEPT !.unsold =
                     UnsoldSeen \cup {[position |-> NextPosition, asset |-> a]}]
    BY <2>1 DEF Restocked, DepositItemEvent, Seen
  <2>3. UNCHANGED <<status, pulls>> /\ CanRestock(t) /\ Restock(a, t)
    BY <1>3 DEF DepositItem, CanDepositItem
  <2>4. UnsoldSeen' = UnsoldSeen \cup {[position |-> NextPosition, asset |-> a]}
    BY <1>0, <2>3, RestockSeen
  <2> QED
    BY <2>2, <2>3, <2>4, NothingNew DEF Seen
<1>4. ASSUME NEW n \in Amounts, Withdraw(n), Emit(WithdrawEvent(n)) PROVE Goal
  <2>1. mirror' = mirror
    BY <1>4 DEF Emit, WithdrawEvent, Apply
  <2> QED
    BY <1>4, <1>a, <2>1 DEF Withdraw, CanWithdraw, stock
<1>5. ASSUME NEW p \in Position, Reclaim(p), Emit(ReclaimEvent(p)) PROVE Goal
  <2>1. mirror' = [Seen EXCEPT !.unsold = {u \in UnsoldSeen : u.position # p}]
    BY <1>0, <1>5 DEF Emit, ReclaimEvent, Apply, Seen
  <2>2. UNCHANGED <<status, pulls>>
    BY <1>5 DEF Reclaim, CanReclaim
  <2> QED
    BY <1>0, <1>5, <2>1, <2>2, ReclaimSeen, NothingNew DEF Seen
<1>6. ASSUME NEW s \in Seeds, NEW b \in Wallets, NEW n \in 1 .. MaxCount,
             Buy(s, b, n, inventory_version), Emit(BuyEvent(s, b, n))
      PROVE  Goal
  <2>1. mirror' = [Seen EXCEPT !.waiting =
                     WaitingSeen \cup {[pull |-> s, buyer |-> b, index |-> next_index,
                                        count |-> n]}]
    BY <1>0, <1>6 DEF Emit, BuyEvent, Apply, Seen
  <2>2. UNCHANGED <<status, items>>
    BY <1>6 DEF Buy, CanBuy, stock
  <2>3. inventory_version \in 0 .. inventory_version
    BY <1>0, BoundAssumption DEF TypeOK
  <2>4. /\ WaitingSeen' = WaitingSeen \cup {[pull |-> s, buyer |-> b,
                                             index |-> next_index, count |-> n]}
        /\ OwedSeen' = OwedSeen
    BY <1>0, <1>6, <2>3, BuySeen
  <2> QED
    BY <2>1, <2>2, <2>4, NothingNew DEF Seen
<1>7. ASSUME NEW s \in Seeds, LoggedRefund(s) PROVE Goal
  <2>1. Refund(s) /\ Emit(RefundEvent(s))
    BY <1>7 DEF LoggedRefund
  <2>2. mirror' = [Seen EXCEPT !.waiting = {w \in WaitingSeen : w.pull # s}]
    BY <1>0, <2>1 DEF Emit, RefundEvent, Apply, Resolved, Seen
  <2>3. UNCHANGED <<status, items>>
    BY <2>1 DEF Refund, CanRefund, stock
  <2>4. WaitingSeen' = {w \in WaitingSeen : w.pull # s}
    BY <1>0, <2>1, RefundLeaves, ResolvedSeen
  <2>5. SettledKept
    BY <1>0, <2>1, QueueStepsKeepSettled
  <2>6. OwedSeen' = OwedSeen
    BY <2>5, KeptAwards DEF OwedSeen
  <2> QED
    BY <2>2, <2>3, <2>4, <2>6, NothingNew DEF Seen
<1>8. ASSUME NEW q \in Quotes, NEW w \in Wallets, Buyback(q, w), Emit(BuybackEvent(q, w))
      PROVE  Goal
  <2>1. mirror' = Restocked(Seen, BuybackEvent(q, w))
    BY <1>0, <1>8 DEF Emit, BuybackEvent, Apply
  <2>2. mirror' = [Seen EXCEPT !.unsold =
                     UnsoldSeen \cup {[position |-> NextPosition, asset |-> q.asset]}]
    BY <2>1 DEF Restocked, BuybackEvent, Seen
  <2>3. UNCHANGED <<status, pulls>> /\ CanRestock(q.tier) /\ Restock(q.asset, q.tier)
    BY <1>8 DEF Buyback, CanBuyback
  <2>4. q.asset \in Assets
    BY InputAssumption DEF Quote
  <2>5. UnsoldSeen' = UnsoldSeen \cup {[position |-> NextPosition, asset |-> q.asset]}
    BY <1>0, <2>3, <2>4, RestockSeen
  <2> QED
    BY <2>2, <2>3, <2>5, NothingNew DEF Seen
<1>9. ASSUME NEW s \in Seeds, LoggedSettle(s) PROVE Goal
  <2> DEFINE o == pulls'[s].outcomes
             n == pulls[s].count
             e == SettleEvent(s, o)
             purchase == CHOOSE w \in WaitingSeen : w.pull = s
  <2>1. Settle(s) /\ Emit(e)
    BY <1>9 DEF LoggedSettle
  <2>2. e.kind = "settle" /\ e.pull = s /\ e.outcomes = o
    BY DEF SettleEvent
  <2>3. mirror' = Awarded(Seen, e)
    BY <1>0, <2>1, <2>2 DEF Emit, Apply
  <2>4. /\ Len(o) = n
        /\ UnsoldSeen' = {u \in UnsoldSeen : u.asset \notin {o[i].asset : i \in 1 .. n}}
        /\ OwedSeen' = OwedSeen \cup {[pull |-> s, buyer |-> pulls[s].buyer,
                                       outcome |-> i, asset |-> o[i].asset] :
                                        i \in 1 .. n}
    BY <1>0, <1>00, <2>1, SettleSeen
  <2>5. HeadLeaves(s) /\ IsPending(s) /\ status' = status
    BY <1>0, <2>1, SettleLeaves DEF Settle, CanSettle, IsHead
  <2>6. WaitingSeen' = {w \in WaitingSeen : w.pull # s}
    BY <2>5, ResolvedSeen
  <2>7. purchase.buyer = pulls[s].buyer
    <3>1. ASSUME NEW w \in WaitingSeen, w.pull = s PROVE w.buyer = pulls[s].buyer
      BY <3>1 DEF WaitingSeen
    <3>2. \E w \in WaitingSeen : w.pull = s
      <4> DEFINE own == [pull |-> s, buyer |-> pulls[s].buyer,
                         index |-> pulls[s].index, count |-> pulls[s].count]
      <4>1. own \in WaitingSeen
        BY <2>5 DEF WaitingSeen
      <4>2. own.pull = s
        OBVIOUS
      <4> QED
        BY <4>1, <4>2
    <3> QED
      BY <3>1, <3>2
  <2> HIDE DEF e, o, purchase
  <2>8. mirror' = [Seen EXCEPT
                     !.waiting = {w \in WaitingSeen : w.pull # s},
                     !.unsold = {u \in UnsoldSeen :
                                   u.asset \notin {o[i].asset : i \in 1 .. n}},
                     !.owed = OwedSeen \cup {[pull |-> s, buyer |-> purchase.buyer,
                                              outcome |-> i, asset |-> o[i].asset] :
                                               i \in 1 .. n}]
    BY <2>2, <2>3, <2>4 DEF Awarded, Resolved, Seen, purchase
  <2> QED
    BY <2>4, <2>5, <2>6, <2>7, <2>8 DEF Seen
<1>10. ASSUME NEW s \in Seeds, NEW i \in 1 .. MaxCount, Deliver(s, i),
              Emit(DeliverEvent(s, i))
       PROVE  Goal
  <2>1. mirror' = [Seen EXCEPT !.owed = {o \in OwedSeen : o.pull # s \/ o.outcome # i}]
    BY <1>0, <1>10 DEF Emit, DeliverEvent, Apply, Seen
  <2>2. UNCHANGED <<status, items>>
    BY <1>10 DEF Deliver, CanDeliver, stock
  <2> QED
    BY <1>0, <1>00, <1>10, <2>1, <2>2, DeliverSeen, NothingNew DEF Seen
<1>11. ASSUME NEW n \in Amounts, Fund(n), UNCHANGED mirror PROVE Goal
  BY <1>11, <1>a DEF Fund, stock
<1>12. ASSUME NEW a \in Assets, NEW w \in Wallets, NEW o \in Wallets \cup {Pool},
              TransferAsset(a, w, o), UNCHANGED mirror
       PROVE  Goal
  BY <1>12, <1>a DEF TransferAsset, stock
<1>13. ASSUME Tick, UNCHANGED mirror PROVE Goal
  BY <1>13, <1>a DEF Tick, stock
<1>14. ASSUME UNCHANGED eventVars PROVE Goal
  BY <1>14, <1>a DEF eventVars, vars, stock
<1>15. Goal
  BY <1>1, <1>2, <1>3, <1>4, <1>5, <1>6, <1>7, <1>8, <1>9, <1>10, <1>11, <1>12,
     <1>13, <1>14 DEF EventNext
<1> QED
  BY <1>00, <1>15 DEF EventInv

\* In every reachable state the indexer's picture, built from the events alone,
\* is the pool's: status, unsold prizes, waiting purchases and prizes owed.
THEOREM IndexerNeverWrong == EventSpec => []IndexerAgrees
<1>1. EventInv => IndexerAgrees
  BY SeenAgrees DEF EventInv, LedgerInv, CustodyInv, StockInv
<1> QED
  BY <1>1, EventStart, EventStep, PTL DEF EventSpec

-----------------------------------------------------------------------------
(* The buffers.                                                            *)

\* Every event of a step of the ledger fits the buffer of its kind.
EventsFit ==
    /\ CanEmit(CreatePoolEvent)
    /\ \A x : CanEmit(SetStatusEvent(x)) /\ CanEmit(WithdrawEvent(x)) /\ CanEmit(ReclaimEvent(x))
              /\ CanEmit(RefundEvent(x))
    /\ \A x, y : CanEmit(DepositItemEvent(x, y)) /\ CanEmit(BuybackEvent(x, y))
                 /\ CanEmit(DeliverEvent(x, y))
    /\ \A x, y, z : CanEmit(BuyEvent(x, y, z))
    /\ \A s \in Seeds : Settle(s) => CanEmit(SettleEvent(s, pulls'[s].outcomes))

\* Events without a sequence have a fixed size.
LEMMA FixedSizes ==
    /\ CanEmit(CreatePoolEvent)
    /\ \A x : CanEmit(SetStatusEvent(x)) /\ CanEmit(WithdrawEvent(x)) /\ CanEmit(ReclaimEvent(x))
              /\ CanEmit(RefundEvent(x))
    /\ \A x, y : CanEmit(DepositItemEvent(x, y)) /\ CanEmit(BuybackEvent(x, y))
                 /\ CanEmit(DeliverEvent(x, y))
    /\ \A x, y, z : CanEmit(BuyEvent(x, y, z))
<1>1. CanEmit(CreatePoolEvent)
  BY DEF CanEmit, WireSize, Buffer, Key, CreatePoolEvent
<1>2. \A x : CanEmit(SetStatusEvent(x)) /\ CanEmit(WithdrawEvent(x))
  BY DEF CanEmit, WireSize, Buffer, Key, SetStatusEvent, WithdrawEvent
<1>3. \A x : CanEmit(ReclaimEvent(x)) /\ CanEmit(RefundEvent(x))
  BY DEF CanEmit, WireSize, Buffer, Key, ReclaimEvent, RefundEvent
<1>4. \A x, y : CanEmit(DepositItemEvent(x, y))
  BY DEF CanEmit, WireSize, Buffer, Key, DepositItemEvent
<1>5. \A x, y : CanEmit(BuybackEvent(x, y))
  BY DEF CanEmit, WireSize, Buffer, Key, BuybackEvent
<1>6. \A x, y : CanEmit(DeliverEvent(x, y))
  BY DEF CanEmit, WireSize, Buffer, Key, DeliverEvent
<1>7. \A x, y, z : CanEmit(BuyEvent(x, y, z))
  BY DEF CanEmit, WireSize, Buffer, Key, BuyEvent
<1> QED
  BY <1>1, <1>2, <1>3, <1>4, <1>5, <1>6, <1>7

\* A settlement logs one outcome per draw, and the buffer has room for MaxCount.
LEMMA WonFits ==
    ASSUME TypeOK, NEW s \in PendingSeeds, NEW d
    PROVE  CanEmit(SettleEvent(s, Won(s, d)))
<1> DEFINE e == SettleEvent(s, Won(s, d))
<1>1. PICK n \in 1 .. MaxCount : n = pulls[s].count
  BY PendingNumbers
<1>2. Len(e.outcomes) = n
  <2>1. n \in Nat
    BY BoundAssumption
  <2> QED
    BY <1>1, <2>1 DEF SettleEvent, Won
<1>3. n * 33 <= MaxCount * 33
  BY BoundAssumption
<1>4. WireSize(e) = 2 + (2 * 32 + 32 + 80 + 64 + n * 33)
  <2>1. e.kind = "settle"
    BY DEF SettleEvent
  <2> HIDE DEF e
  <2>2. WireSize(e) = 2 + (2 * 32 + 32 + 80 + 64 + Len(e.outcomes) * (1 + 32))
    BY <2>1 DEF WireSize, Key
  <2> QED
    BY <1>2, <2>2
<1>5. Buffer(e.kind) = 242 + MaxCount * 33
  BY DEF Buffer, SettleEvent
<1> QED
  BY <1>3, <1>4, <1>5, BoundAssumption DEF CanEmit

\* So does the event of a settlement that takes place.
LEMMA SettleFits ==
    ASSUME TypeOK, NEW s \in Seeds, Settle(s)
    PROVE  CanEmit(SettleEvent(s, pulls'[s].outcomes))
<1>1. s \in PendingSeeds /\ pulls[s] \in Pull
  BY DEF Settle, CanSettle, IsHead, IsPending, PendingSeeds, TypeOK
<1>2. PICK d \in Draws(s) : Award(s, d)
  BY DEF Settle
<1>3. pulls' = [pulls EXCEPT ![s] = [pulls[s] EXCEPT !.status = "settled",
                                                     !.outcomes = Won(s, d)]]
  BY <1>2 DEF Award
<1>4. pulls'[s].outcomes = Won(s, d)
  BY <1>1, <1>3 DEF TypeOK, Pull
<1> QED
  BY <1>1, <1>4, WonFits

\* No instruction of any reachable state fails because its event is too long:
\* Emit never blocks a step of the ledger.
THEOREM LogNeverBlocks == Spec => [][EventsFit]_vars
<1>1. TypeOK /\ [Next]_vars => [EventsFit]_vars
  BY FixedSizes, SettleFits DEF EventsFit
<1> QED
  BY <1>1, TypeInit, TypeNext, PTL DEF Spec

\* In every reachable state of the program with its log the head can be resolved
\* and the resolution logged, whichever prizes are drawn.
THEOREM LoggedHeadPasses == EventSpec => []LoggedHeadResolvable
<1>1. PledgeInv => LoggedHeadResolvable
  <2> SUFFICES ASSUME PledgeInv, NEW s \in Seeds, IsHead(s)
               PROVE  \/ /\ CanSettle(s)
                         /\ \A d \in Draws(s) :
                              CanAward(s, d) => CanEmit(SettleEvent(s, Won(s, d)))
                      \/ CanRefund(s) /\ CanEmit(RefundEvent(s))
    BY DEF LoggedHeadResolvable
  <2>1. CanSettle(s) \/ CanRefund(s)
    BY HeadPasses DEF HeadResolvable
  <2>2. s \in PendingSeeds /\ TypeOK
    BY DEF IsHead, PendingSeeds, PledgeInv, SolvencyInv
  <2> QED
    BY <2>1, <2>2, WonFits, FixedSizes
<1>2. Spec => []PledgeInv
  BY PledgeInductive, PTL DEF Spec
<1> QED
  BY <1>1, <1>2, LogObserves, PTL
=============================================================================
