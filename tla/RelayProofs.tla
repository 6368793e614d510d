------------------------------ MODULE RelayProofs ------------------------------
(***************************************************************************)
(* Theorems about Relay: what a user of the Rust SDK signs, and when its   *)
(* calls and transactions fail, whatever others do in between.             *)
(***************************************************************************)
EXTENDS Relay, ClientProofs

-----------------------------------------------------------------------------
(* The ledger.                                                             *)

\* Gacha's definitions, of a recorded ledger.
At(v) == INSTANCE Gacha
         WITH status <- v.status, terms <- v.terms,
              inventory_version <- v.inventory_version, pending_draws <- v.pending_draws,
              next_index <- v.next_index, next_settle <- v.next_settle,
              remaining <- v.remaining, tags <- v.tags, items <- v.items,
              pulls <- v.pulls, vault <- v.vault, owner <- v.owner, slot <- v.slot

\* A deadline lies no further ahead than one set now would.
DeadlinesBounded ==
    /\ next_settle <= next_index
    /\ \A s \in PendingSeeds : pulls[s].deadline_slot <= slot + terms.deadline_slots

\* A settled pull was the head once, and names each of its prizes once.
SettledPast ==
    \A s \in Seeds : IsSettled(s) =>
      /\ pulls[s].index < next_settle
      /\ \A i, j \in 1 .. pulls[s].count :
           pulls[s].outcomes[i].asset = pulls[s].outcomes[j].asset => i = j

\* The invariant of a pool in service.
Sound ==
    /\ status = "active" /\ terms \in Terms /\ ValidTerms(terms)
    /\ TypeOK /\ Solvency /\ PendingDrawsCounted /\ FIFOQueue /\ ReservedPrefix
    /\ StockAgrees /\ Custody
    /\ DeadlinesBounded /\ SettledComplete /\ SettledPast

\* The same of a recorded ledger.
IsLedger(v) ==
    v = [status |-> v.status, terms |-> v.terms,
         inventory_version |-> v.inventory_version, pending_draws |-> v.pending_draws,
         next_index |-> v.next_index, next_settle |-> v.next_settle,
         remaining |-> v.remaining, tags |-> v.tags, items |-> v.items,
         pulls |-> v.pulls, vault |-> v.vault, owner |-> v.owner, slot |-> v.slot]
SoundAt(v) ==
    /\ IsLedger(v)
    /\ v.status = "active" /\ v.terms \in Terms /\ At(v)!ValidTerms(v.terms)
    /\ At(v)!TypeOK /\ At(v)!Solvency /\ At(v)!PendingDrawsCounted /\ At(v)!FIFOQueue
    /\ At(v)!ReservedPrefix /\ At(v)!StockAgrees /\ At(v)!Custody
    /\ v.next_settle <= v.next_index
    /\ \A s \in At(v)!PendingSeeds :
         v.pulls[s].deadline_slot <= v.slot + v.terms.deadline_slots
    /\ \A s \in Seeds : At(v)!IsSettled(s) =>
         /\ v.pulls[s].outcomes \in [1 .. v.pulls[s].count -> Outcome]
         /\ v.pulls[s].index < v.next_settle
         /\ \A i, j \in 1 .. v.pulls[s].count :
              v.pulls[s].outcomes[i].asset = v.pulls[s].outcomes[j].asset => i = j

-----------------------------------------------------------------------------
(* Two recorded ledgers, one older than the other.                         *)

OpenIn(v, s, index) == Waiting(v, s) /\ v.pulls[s].index = index
Settled(v, s) == v.pulls[s] # NoPull /\ v.pulls[s].status = "settled"
SettledIn(v, s, index) == Settled(v, s) /\ v.pulls[s].index = index
OwedIn(v, s, index, asset) ==
    /\ SettledIn(v, s, index)
    /\ \E i \in 1 .. v.pulls[s].count :
         v.pulls[s].outcomes[i].tier # DELIVERED /\ v.pulls[s].outcomes[i].asset = asset

\* An award stays as it is until it is delivered.
AwardsBehind(before, after) ==
    /\ before # NoPull /\ before.status = "settled"
    /\ before.index = after.index /\ before.buyer = after.buyer
    /\ before.count = after.count
    /\ \A i \in 1 .. after.count :
         /\ before.outcomes[i].asset = after.outcomes[i].asset
         /\ after.outcomes[i].tier # DELIVERED => before.outcomes[i].tier # DELIVERED

\* Until the next restock or purchase w sells all that v offered.
StillOffers(v, w) ==
    v.inventory_version = w.inventory_version /\ v.next_index = w.next_index =>
      \A s \in Seeds : Offers(v, s) \subseteq Offers(w, s)

\* What w still shows was there in v: v is w, or older.
Behind(v, w) ==
    /\ v.inventory_version <= w.inventory_version /\ v.next_index <= w.next_index
    /\ v.next_settle <= w.next_settle /\ v.slot <= w.slot /\ v.terms = w.terms
    /\ \A p \in Position :
         p < v.inventory_version /\ w.tags[p] # 0 => v.tags[p] = w.tags[p]
    /\ \A s \in Seeds :
         /\ Waiting(w, s) /\ w.pulls[s].index < v.next_index =>
              /\ v.pulls[s] = w.pulls[s]
              /\ w.pulls[s].index <= v.next_settle =>
                   \A p \in Position : p < w.pulls[s].inventory_version =>
                     v.tags[p] = w.tags[p] /\ v.items[p] = w.items[p]
         /\ Settled(w, s) /\ w.pulls[s].index < v.next_settle =>
              AwardsBehind(v.pulls[s], w.pulls[s])
         /\ Waiting(v, s) /\ w.next_settle <= v.pulls[s].index => w.pulls[s] = v.pulls[s]
    /\ StillOffers(v, w)

\* What the SDK's checks of a view, and its plans from it, rest on.
Consistent(v) ==
    /\ PoolDecodes(v)
    /\ v.terms \in Terms /\ v.slot \in Nat /\ v.inventory_version \in Nat
    /\ v.next_index \in Nat /\ v.next_settle \in Nat /\ v.next_settle <= v.next_index
    /\ v.tags \in [Position -> Nat]
    /\ v.pulls \in [Seeds -> Pull \cup {NoPull}]
    /\ \A p \in Position : v.items[p] # NoItem => v.owner[v.items[p].asset] = Pool
    /\ \A s \in Seeds :
         /\ Waiting(v, s) =>
              /\ v.pulls[s].index < v.next_index
              /\ \A hashes \in VRFOutput :
                   PlanDraws(v, s, hashes)
                     \in [1 .. v.pulls[s].count ->
                            {p \in Position : p < v.pulls[s].inventory_version}]
         /\ Settled(v, s) =>
              /\ v.pulls[s].index < v.next_settle
              /\ \A i \in 1 .. v.pulls[s].count :
                   v.pulls[s].outcomes[i].tier # DELIVERED =>
                     v.owner[v.pulls[s].outcomes[i].asset] = Pool

-----------------------------------------------------------------------------
(* What a call knows of a ledger.                                          *)

\* The record of a call, with prizes to deliver that are numbered apart.
IsSeq(q) == q \in Seq({q[i] : i \in DOMAIN q})
Stages == {"first", "snapshot", "items", "assets", "sent", "refused", "failed"}
IsCall(c) ==
    /\ c = [stage |-> c.stage, op |-> c.op, seed |-> c.seed, minimum |-> c.minimum,
            index |-> c.index, buyer |-> c.buyer, draws |-> c.draws, owed |-> c.owed,
            ix |-> c.ix, at |-> c.at]
    /\ c.stage \in Stages /\ c.op \in {"buy", "settle", "refund", "deliver"}
    /\ c.seed \in Seeds /\ c.buyer \in Wallets
    /\ c.minimum \in Nat /\ c.index \in Nat /\ c.at \in Nat
    /\ c.draws \in Seq(Position) /\ Len(c.draws) <= MaxCount
    /\ IsSeq(c.owed)
    /\ \A k \in DOMAIN c.owed : c.owed[k].outcome \in 1 .. MaxCount
    /\ \A j, k \in DOMAIN c.owed : c.owed[j].outcome = c.owed[k].outcome => j = k

\* The purchase a call has seen is in the ledger, or was; one that was at the
\* head of the queue is there until it is resolved.
Seen(c, v) ==
    /\ c.op # "buy" => c.index < v.next_index
    /\ c.op \in {"settle", "refund"} =>
         /\ c.index < v.next_settle \/ OpenIn(v, c.seed, c.index)
         /\ c.stage \in {"items", "assets", "sent"} => c.index <= v.next_settle
    /\ c.op = "deliver" => c.index < v.next_settle

\* Up to its settlement the draws planned are the program's, and the prizes
\* expected those at the positions drawn.
Prepared(c, v, outputs) ==
    OpenIn(v, c.seed, c.index) =>
      /\ c.buyer = v.pulls[c.seed].buyer
      /\ c.draws = PlanDraws(v, c.seed, outputs[c.seed])
      /\ c.stage \in {"assets", "sent"} =>
           c.owed = [i \in DOMAIN c.draws |->
                       [outcome |-> i, asset |-> v.items[c.draws[i]].asset]]

\* Afterwards the pull records what the call expects to deliver.
Due(c, v) ==
    /\ c.index < v.next_settle
    /\ SettledIn(v, c.seed, c.index) =>
         /\ c.buyer = v.pulls[c.seed].buyer
         /\ \A k \in DOMAIN c.owed :
              /\ c.owed[k].outcome \in 1 .. v.pulls[c.seed].count
              /\ c.owed[k].asset = v.pulls[c.seed].outcomes[c.owed[k].outcome].asset

\* The instructions a call may plan.
Planned(c, ix) ==
    \/ /\ c.op = "buy" /\ ix.op = "buy" /\ ix.seed = c.seed
       /\ ix.buyer = Authority /\ ix.count \in 1 .. MaxCount
       /\ ix.version \in Nat /\ ix.sold \in Nat
    \/ c.op = "refund" /\ ix = RefundIx(c.seed, ix.buyer)
    \/ c.op = "settle" /\ ix = SettleIx(c.seed, c.draws)
    \/ /\ c.op \in {"settle", "deliver"}
       /\ \E k \in DOMAIN c.owed :
            ix = DeliverIx(c.seed, c.buyer, c.owed[k].outcome, c.owed[k].asset)

\* A planned purchase has shown the stock it can win from, and what it was offered
\* is on sale until the next restock or purchase; a planned refund names the buyer.
Current(c, ix, v) ==
    /\ ix.op = "buy" =>
         /\ ix.version <= v.inventory_version /\ ix.sold <= v.next_index
         /\ ix.version = v.inventory_version /\ ix.sold = v.next_index =>
              ix.offered \subseteq Offers(v, ix.seed)
         /\ \A p \in Position : p < ix.version /\ v.tags[p] # 0 =>
              <<p, v.tags[p]>> \in ix.shown
    /\ ix.op = "refund" /\ OpenIn(v, c.seed, c.index) =>
         ix.buyer = v.pulls[c.seed].buyer

\* A group: deliveries of different outcomes, after at most one other instruction.
IsGroup(c, v, group, first) ==
    /\ IsSeq(group) /\ group # <<>>
    /\ \A k \in DOMAIN group :
         /\ Planned(c, group[k]) /\ Current(c, group[k], v)
         /\ group[k].op # "deliver" => first /\ k = 1
    /\ \A j, k \in DOMAIN group :
         /\ group[j].op = "deliver" /\ group[k].op = "deliver"
         /\ group[j].outcome = group[k].outcome
         => j = k

-----------------------------------------------------------------------------
(* The invariant of the relayer.                                           *)

LedgerOK ==
    /\ Sound
    /\ output \in [Seeds -> VRFOutput]
    /\ Consistent(lagging) /\ Behind(lagging, Ledger) /\ lagging.slot < slot

\* A purchase that failed remembers the pool it was planned from.
Remembers(c) ==
    c.stage = "failed" /\ c.op = "buy" =>
      c.ix.op = "buy" /\ c.ix.version \in Nat /\ c.ix.sold \in Nat

\* The call c, from its first answer on, fits the ledger.
KnownCall(c) ==
    c # NoCall =>
      /\ IsCall(c) /\ c.minimum <= slot
      /\ c.op = "buy" => c.stage \in {"first", "sent", "failed"}
      /\ c.stage = "snapshot" => c.op \in {"settle", "refund"}
      /\ c.stage = "items" => c.op = "settle"
      /\ c.stage = "assets" => c.op \in {"settle", "deliver"}
      /\ c.stage # "first" => Seen(c, Ledger)
      /\ c.stage \in {"snapshot", "items", "assets"} /\ c.minimum <= lagging.slot
           => Seen(c, lagging)
      /\ Remembers(c)
CallOK == KnownCall(call)

PlanOK ==
    /\ IsSeq(outbox)
    /\ outbox # <<>> \/ tx # NoTx => call # NoCall /\ call.stage = "sent"
    /\ \A g \in DOMAIN outbox : IsGroup(call, Ledger, outbox[g], g = 1 /\ tx = NoTx)
    /\ tx # NoTx =>
         /\ tx = [left |-> tx.left, saved |-> tx.saved]
         /\ IsGroup(call, Ledger, tx.left, TRUE)
         /\ SoundAt(tx.saved) /\ Behind(lagging, tx.saved) /\ Seen(call, tx.saved)
         /\ tx.saved.slot = slot
         /\ Head(tx.left).op = "buy" => RoomToBuy
         /\ Head(tx.left).op # "deliver" => tx.saved = Ledger
         /\ Head(tx.left).op = "deliver" =>
              \A k \in DOMAIN tx.left :
                \/ OpenIn(tx.saved, call.seed, call.index)
                \/ OwedIn(tx.saved, call.seed, call.index, tx.left[k].asset)
                => /\ SettledIn(Ledger, call.seed, call.index)
                   /\ pulls[call.seed].outcomes[tx.left[k].outcome].tier # DELIVERED

\* What comes next of the plan.
Begins(op) ==
    \/ tx # NoTx /\ Head(tx.left).op = op
    \/ tx = NoTx /\ outbox # <<>> /\ Head(Head(outbox)).op = op

\* What the call c has read for its plan is right.
Knows(c) ==
    /\ c # NoCall /\ c.op = "settle" /\ c.stage \in {"items", "assets"}
         => Prepared(c, Ledger, output)
    /\ c # NoCall /\ c.op = "deliver" /\ c.stage = "assets" => Due(c, Ledger)
KnowledgeOK ==
    /\ Knows(call)
    /\ Begins("settle") => Prepared(call, Ledger, output)
    /\ Begins("deliver") => Due(call, Ledger)

RelayInv ==
    /\ LedgerOK /\ CallOK /\ PlanOK /\ KnowledgeOK
    /\ RefusedOnlyWhenOvertaken /\ FailsOnlyWhenOvertaken


-----------------------------------------------------------------------------
(* The ledger of a pool in service stays sound.                            *)

\* Sound gathers what the pool's own invariants say.
LEMMA SoundFacts ==
    ASSUME Sound
    PROVE  /\ PledgeInv /\ LedgerInv /\ QueueInv /\ TermsOffered /\ TypeOK
           /\ SettledComplete /\ Custody /\ StockAgrees
<1>1. AbsentOwesNothing /\ AbsentSoldNothing /\ AbsentHoldsNothing /\ TermsValid
      /\ TermsOffered
  BY DEF Sound, AbsentOwesNothing, AbsentSoldNothing, AbsentHoldsNothing, TermsValid,
         TermsOffered
<1>2. QueueInv
  BY <1>1 DEF Sound, QueueInv, DeadlinesBounded
<1>3. CountInv /\ StockInv
  BY <1>1, <1>2 DEF Sound, CountInv, StockInv
<1> QED
  BY <1>1, <1>2, <1>3 DEF Sound, PledgeInv, SolvencyInv, ReserveInv, LedgerInv, CustodyInv,
                          StockInv

\* The indexes of the queue only grow.
LEMMA IndexesGrow ==
    ASSUME QueueInv, [Next]_vars
    PROVE  /\ next_index \in Nat /\ next_settle \in Nat
           /\ next_index' \in Nat /\ next_settle' \in Nat
           /\ next_index <= next_index' /\ next_settle <= next_settle'
<1>1. TypeOK /\ TypeOK'
  BY TypeNext DEF QueueInv
<1>2. /\ next_index \in Nat /\ next_settle \in Nat
      /\ next_index' \in Nat /\ next_settle' \in Nat
  BY <1>1, BoundAssumption DEF TypeOK
<1>3. CASE QueueKept
  BY <1>2, <1>3 DEF QueueKept, queue
<1>4. ASSUME NEW h \in Seeds, HeadLeaves(h)
      PROVE  next_index' = next_index /\ next_settle' = next_settle + 1
  BY <1>4 DEF HeadLeaves, Release, IsHead
<1>5. ASSUME NEW s \in Seeds, NEW n \in 1 .. MaxCount, Joins(s, n)
      PROVE  next_index' = next_index + 1 /\ next_settle' = next_settle
  BY <1>5 DEF Joins
<1> QED
  BY <1>1, <1>2, <1>3, <1>4, <1>5, StepKinds

\* A delivery that does not close the pull marks one outcome.
LEMMA DeliverMarks ==
    ASSUME TypeOK, SettledComplete, NEW s \in Seeds, NEW i \in 1 .. MaxCount,
           Deliver(s, i), pulls'[s] # NoPull
    PROVE  /\ pulls'[s].status = "settled" /\ pulls'[s].index = pulls[s].index
           /\ pulls'[s].buyer = pulls[s].buyer /\ pulls'[s].count = pulls[s].count
           /\ \A j \in 1 .. pulls[s].count :
                /\ pulls'[s].outcomes[j].asset = pulls[s].outcomes[j].asset
                /\ j # i => pulls'[s].outcomes[j] = pulls[s].outcomes[j]
           /\ i \in 1 .. pulls[s].count /\ pulls'[s].outcomes[i].tier = DELIVERED
<1>1. IsSettled(s) /\ i <= pulls[s].count
  BY DEF Deliver, CanDeliver
<1>2. pulls[s] \in Pull /\ pulls[s].outcomes \in [1 .. pulls[s].count -> Outcome]
  BY <1>1 DEF TypeOK, IsSettled, SettledComplete
<1>3. pulls[s].count \in Nat /\ i \in 1 .. pulls[s].count
  BY <1>1, <1>2, BoundAssumption DEF Pull
<1> DEFINE marked == [pulls[s] EXCEPT !.outcomes[i].tier = DELIVERED]
           outcomes == [pulls[s].outcomes EXCEPT ![i].tier = DELIVERED]
<1>4. pulls'[s] = marked
  <2>1. pulls' = [pulls EXCEPT ![s] = IF AllDelivered(marked) THEN NoPull ELSE marked]
    BY DEF Deliver, CanDeliver
  <2>2. pulls'[s] = IF AllDelivered(marked) THEN NoPull ELSE marked
    BY <2>1 DEF TypeOK
  <2> QED
    BY <2>2
<1>5. /\ marked.status = pulls[s].status /\ marked.index = pulls[s].index
      /\ marked.buyer = pulls[s].buyer /\ marked.count = pulls[s].count
      /\ marked.outcomes = outcomes
  BY <1>2 DEF Pull
<1>6. \A j \in 1 .. pulls[s].count :
        /\ outcomes[j].asset = pulls[s].outcomes[j].asset
        /\ j # i => outcomes[j] = pulls[s].outcomes[j]
  BY <1>2, <1>3 DEF Outcome
<1>7. outcomes[i].tier = DELIVERED
  BY <1>2, <1>3 DEF Outcome
<1> HIDE DEF marked, outcomes
<1> QED
  BY <1>1, <1>3, <1>4, <1>5, <1>6, <1>7 DEF IsSettled


\* A settled pull stays behind the head and keeps its different prizes.
LEMMA PastNext ==
    ASSUME Sound, [Next]_vars
    PROVE  SettledPast'
<1>1. /\ TypeOK /\ TypeOK' /\ SettledComplete /\ SettledComplete' /\ Custody
      /\ QueueInv /\ LedgerInv
  BY SoundFacts, TypeNext, LedgerInductive DEF LedgerInv, CustodyInv
<1>2. /\ next_settle \in Nat /\ next_settle' \in Nat /\ next_settle <= next_settle'
  BY <1>1, IndexesGrow
<1> DEFINE Past(s) ==
      /\ pulls[s].index < next_settle
      /\ \A i, j \in 1 .. pulls[s].count :
           pulls[s].outcomes[i].asset = pulls[s].outcomes[j].asset => i = j
<1>3. \A s \in Seeds : IsSettled(s) => Past(s) /\ pulls[s].index \in Nat
  <2>1. \A s \in Seeds : IsSettled(s) => pulls[s].index \in Nat
    BY <1>1 DEF TypeOK, IsSettled, Pull
  <2> QED
    BY <2>1 DEF Sound, SettledPast
<1>4. ASSUME NEW s \in Seeds, IsSettled(s)', pulls'[s] = pulls[s] PROVE Past(s)'
  BY <1>2, <1>3, <1>4 DEF IsSettled
<1>5. ASSUME NEW s \in Seeds, Settle(s) PROVE Past(s)'
  <2>1. PICK d \in Draws(s) : Award(s, d)
    BY <1>5 DEF Settle, CanSettle
  <2>2. IsHead(s) /\ next_settle' = pulls[s].index + 1
    BY <1>5 DEF Settle, CanSettle, Release
  <2>3. Wins(s, d)
    BY <1>1, <2>1, <2>2, SettleWins
  <2>4. pulls'[s] = [pulls[s] EXCEPT !.status = "settled", !.outcomes = Won(s, d)]
    BY <1>1, <2>1 DEF Award, TypeOK
  <2>5. pulls'[s].index = pulls[s].index /\ pulls[s].index \in Nat
    BY <1>1, <2>2, <2>4 DEF TypeOK, IsHead, IsPending, Pull
  <2>6. ASSUME NEW i \in 1 .. pulls[s].count
        PROVE  d[i] \in Position /\ items[d[i]] # NoItem
    <3>1. d[i] \in Position /\ d[i] \in Drawn(s, d)
      BY DEF Draws, Candidates, Available, Drawn
    <3> QED
      BY <2>1, <3>1 DEF Award, CanAward
  <2>7. ASSUME NEW i \in 1 .. pulls[s].count, NEW j \in 1 .. pulls[s].count,
               items[d[i]].asset = items[d[j]].asset
        PROVE  i = j
    <3>1. d[i] = d[j]
      BY <1>1, <2>6, <2>7 DEF Custody
    <3> QED
      BY <3>1 DEF Draws
  <2> QED
    BY <2>2, <2>3, <2>5, <2>7 DEF Wins
<1>6. ASSUME NEW s \in Seeds, NEW i \in 1 .. MaxCount, Deliver(s, i), IsSettled(s)'
      PROVE  Past(s)'
  <2>1. IsSettled(s) /\ pulls'[s] # NoPull
    BY <1>6 DEF Deliver, CanDeliver, IsSettled
  <2>2. /\ pulls'[s].index = pulls[s].index /\ pulls'[s].count = pulls[s].count
        /\ \A j \in 1 .. pulls[s].count :
             pulls'[s].outcomes[j].asset = pulls[s].outcomes[j].asset
    BY <1>1, <1>6, <2>1, DeliverMarks
  <2> QED
    BY <1>2, <1>3, <2>1, <2>2
<1>7. ASSUME NEW s \in Seeds, IsSettled(s)' PROVE Past(s)'
  <2>1. CASE SettledKept
    BY <1>4, <1>7, <2>1 DEF SettledKept
  <2>2. ASSUME NEW r \in Seeds, Settle(r) PROVE Past(s)'
    <3>1. PICK d \in Draws(r) : Award(r, d)
      BY <2>2 DEF Settle, CanSettle
    <3>2. r # s => pulls'[s] = pulls[s]
      BY <1>1, <3>1 DEF Award, TypeOK
    <3> QED
      BY <1>4, <1>5, <1>7, <2>2, <3>2
  <2>3. ASSUME NEW r \in Seeds, NEW i \in 1 .. MaxCount, Deliver(r, i) PROVE Past(s)'
    <3>1. r # s => pulls'[s] = pulls[s]
      BY <1>1, <2>3 DEF Deliver, TypeOK
    <3> QED
      BY <1>4, <1>6, <1>7, <2>3, <3>1
  <2> QED
    BY <1>1, <2>1, <2>2, <2>3, AwardSteps
<1> QED
  BY <1>7 DEF SettledPast

\* Every instruction but those of the authority's SetStatus keeps the ledger sound.
LEMMA SoundNext ==
    ASSUME Sound, [Next]_vars, UNCHANGED <<status, terms>>
    PROVE  Sound'
<1>1. PledgeInv /\ LedgerInv
  BY SoundFacts
<1>2. PledgeInv' /\ LedgerInv'
  BY <1>1, PledgeInductive, LedgerInductive
<1>3. SettledPast'
  BY PastNext
<1>4. (status = "active" /\ terms \in Terms /\ ValidTerms(terms))'
  BY DEF Sound, ValidTerms
<1> QED
  BY <1>2, <1>3, <1>4
     DEF Sound, PledgeInv, SolvencyInv, ReserveInv, CountInv, QueueInv, StockInv, LedgerInv,
         CustodyInv, DeadlinesBounded


-----------------------------------------------------------------------------
(* Each step leaves the ledger before it behind the ledger after it.       *)

\* The fields of the present ledger.
LEMMA LedgerFields ==
    /\ Ledger.status = status /\ Ledger.terms = terms
    /\ Ledger.inventory_version = inventory_version /\ Ledger.tags = tags
    /\ Ledger.next_index = next_index /\ Ledger.next_settle = next_settle
    /\ Ledger.remaining = remaining /\ Ledger.items = items /\ Ledger.pulls = pulls
    /\ Ledger.owner = owner /\ Ledger.slot = slot
BY DEF Ledger

\* Those of the next one.
LEMMA LedgerFieldsNext ==
    ASSUME NEW w, w = Ledger'
    PROVE  /\ w.status = status' /\ w.terms = terms'
           /\ w.inventory_version = inventory_version' /\ w.tags = tags'
           /\ w.next_index = next_index' /\ w.next_settle = next_settle'
           /\ w.remaining = remaining' /\ w.items = items' /\ w.pulls = pulls'
           /\ w.owner = owner' /\ w.slot = slot'
BY DEF Ledger

\* A purchase that waits after a step, and is not new, waited before it.
LEMMA WaitingKept ==
    ASSUME QueueInv, [Next]_vars, NEW s \in Seeds, IsPending(s)',
           pulls'[s].index < next_index
    PROVE  pulls'[s] = pulls[s]
<1>1. TypeOK /\ next_index \in Nat
  BY BoundAssumption DEF QueueInv, TypeOK
<1>2. CASE QueueKept
  BY <1>2 DEF QueueKept
<1>3. ASSUME NEW h \in Seeds, HeadLeaves(h) PROVE pulls'[s] = pulls[s]
  BY <1>3 DEF HeadLeaves
<1>4. ASSUME NEW r \in Seeds, NEW n \in 1 .. MaxCount, Joins(r, n)
      PROVE  pulls'[s] = pulls[s]
  BY <1>1, <1>4 DEF Joins
<1> QED
  BY <1>1, <1>2, <1>3, <1>4, StepKinds

\* One that has not reached the head since keeps waiting.
LEMMA WaitingStays ==
    ASSUME QueueInv, [Next]_vars, NEW s \in Seeds, IsPending(s),
           next_settle' <= pulls[s].index
    PROVE  pulls'[s] = pulls[s]
<1>1. TypeOK /\ pulls[s].index \in Nat
  BY PendingNumbers DEF QueueInv, PendingSeeds
<1>2. CASE QueueKept
  BY <1>2 DEF QueueKept
<1>3. ASSUME NEW h \in Seeds, HeadLeaves(h) PROVE pulls'[s] = pulls[s]
  BY <1>1, <1>3 DEF HeadLeaves, Release
<1>4. ASSUME NEW r \in Seeds, NEW n \in 1 .. MaxCount, Joins(r, n)
      PROVE  pulls'[s] = pulls[s]
  BY <1>4 DEF Joins, IsPending
<1> QED
  BY <1>1, <1>2, <1>3, <1>4, StepKinds

\* No step changes what the head of the queue can win.
LEMMA HeadPrefixKept ==
    ASSUME LedgerInv, [Next]_vars, NEW s \in Seeds, IsPending(s), pulls'[s] = pulls[s],
           pulls[s].index <= next_settle, NEW p \in Position,
           p < pulls[s].inventory_version
    PROVE  tags'[p] = tags[p] /\ items'[p] = items[p]
<1>1. QueueInv /\ TypeOK
  BY LedgerFacts
<1>2. s \in PendingSeeds
  BY DEF PendingSeeds
<1>3. pulls[s].index \in Nat
  BY <1>1, <1>2, PendingNumbers
<1>4. IsPending(s)'
  BY DEF IsPending
<1> SUFFICES ASSUME <<tags[p], items[p]>>' # <<tags[p], items[p]>> PROVE FALSE
  OBVIOUS
<1>5. PICK h \in Seeds : IsHead(h) /\ pulls[h].index < pulls[s].index
  BY <1>4, PinnedHolds DEF PinnedStep
<1>6. pulls[h].index = next_settle /\ next_settle \in Nat
  BY <1>1, <1>5, QueueFacts DEF IsHead
<1> QED
  BY <1>3, <1>5, <1>6

\* A tag that a step leaves in the stock known before it was there.
LEMMA TagsOnlyRemoved ==
    ASSUME TypeOK, [Next]_vars, NEW p \in Position, p < inventory_version, tags'[p] # 0
    PROVE  tags'[p] = tags[p]
<1>1. inventory_version \in Nat
  BY BoundAssumption DEF TypeOK
<1>2. ASSUME NEW a \in Assets, NEW t, CanRestock(t), Restock(a, t) PROVE tags'[p] = tags[p]
  BY <1>1, <1>2, BoundAssumption DEF Restock, NextPosition, TypeOK
<1>3. ASSUME NEW q \in Position, Reclaim(q) PROVE tags'[p] = tags[p]
  BY <1>3 DEF Reclaim, TypeOK
<1>4. ASSUME NEW s \in Seeds, Settle(s) PROVE tags'[p] = tags[p]
  BY <1>4 DEF Settle, Award
<1> QED
  BY <1>2, <1>3, <1>4, StockSteps

\* An award stays, but for its delivery.
LEMMA AwardsOnlyDelivered ==
    ASSUME Sound, [Next]_vars, NEW s \in Seeds, IsSettled(s)', pulls'[s].index < next_settle
    PROVE  AwardsBehind(pulls[s], pulls'[s])
<1>1. TypeOK /\ TypeOK' /\ SettledComplete /\ next_settle \in Nat
  BY SoundFacts, TypeNext, QueueFacts
<1>2. ASSUME pulls'[s] = pulls[s] PROVE AwardsBehind(pulls[s], pulls'[s])
  BY <1>2 DEF IsSettled, AwardsBehind
<1>3. CASE SettledKept
  BY <1>2, <1>3 DEF SettledKept
<1>4. ASSUME NEW r \in Seeds, Settle(r) PROVE AwardsBehind(pulls[s], pulls'[s])
  <2>1. PICK d \in Draws(r) : Award(r, d)
    BY <1>4 DEF Settle, CanSettle
  <2>2. CASE r # s
    BY <1>1, <1>2, <2>1, <2>2 DEF Award, TypeOK
  <2>3. CASE r = s
    <3>1. pulls'[s] = [pulls[s] EXCEPT !.status = "settled", !.outcomes = Won(s, d)]
      BY <1>1, <2>1, <2>3 DEF Award, TypeOK
    <3>2. pulls'[s].index = pulls[s].index /\ pulls[s].index = next_settle
      BY <1>1, <1>4, <2>3, <3>1 DEF Settle, CanSettle, IsHead, IsPending, TypeOK, Pull
    <3> QED
      BY <1>1, <3>2
  <2> QED
    BY <2>2, <2>3
<1>5. ASSUME NEW r \in Seeds, NEW i \in 1 .. MaxCount, Deliver(r, i)
      PROVE  AwardsBehind(pulls[s], pulls'[s])
  <2>1. CASE r # s
    BY <1>1, <1>2, <1>5, <2>1 DEF Deliver, TypeOK
  <2>2. CASE r = s
    <3>1. IsSettled(s) /\ pulls'[s] # NoPull /\ pulls[s].outcomes[i].tier # DELIVERED
      BY <1>5, <2>2 DEF Deliver, CanDeliver, IsSettled
    <3>2. /\ pulls'[s].index = pulls[s].index /\ pulls'[s].buyer = pulls[s].buyer
          /\ pulls'[s].count = pulls[s].count
          /\ \A j \in 1 .. pulls[s].count :
               /\ pulls'[s].outcomes[j].asset = pulls[s].outcomes[j].asset
               /\ j # i => pulls'[s].outcomes[j] = pulls[s].outcomes[j]
      BY <1>1, <1>5, <2>2, <3>1, DeliverMarks
    <3> QED
      BY <3>1, <3>2 DEF AwardsBehind, IsSettled
  <2> QED
    BY <2>1, <2>2
<1> QED
  BY <1>1, <1>3, <1>4, <1>5, AwardSteps

-----------------------------------------------------------------------------
(* What is on sale.                                                        *)

\* What happens to a pool in service, but for its authority taking tokens out.
ServiceStep ==
    \/ \E a \in Assets, t \in 0 .. MaxTiers : DepositItem(a, t)
    \/ \E s \in Seeds, b \in Wallets, n \in 1 .. MaxCount,
          v \in 0 .. inventory_version : Buy(s, b, n, v)
    \/ \E s \in Seeds : Settle(s)
    \/ \E s \in Seeds, i \in 1 .. MaxCount : Deliver(s, i)
    \/ \E s \in Seeds : Refund(s)
    \/ Tick

\* The purchase of n draws that the program accepts from whoever has the money.
Sells(s, n) ==
    /\ pulls[s] = NoPull /\ Payment(n) <= Supply - vault
    /\ InStock(n) /\ Collateralized(n)

\* It is the purchase that the SDK computes.
LEMMA OffersExact ==
    Sound => \A s \in Seeds : \A n \in 1 .. MaxCount : n \in Offers(Ledger, s) <=> Sells(s, n)
<1> SUFFICES ASSUME Sound, NEW s \in Seeds, NEW n \in 1 .. MaxCount
             PROVE  n \in Offers(Ledger, s) <=> Sells(s, n)
  OBVIOUS
<1>1. LimitsExact /\ status = "active"
  BY SoundFacts, LimitsHold DEF Sound
<1>2. Ledger.pulls = pulls /\ Ledger.terms = terms /\ Ledger.vault = vault
  BY DEF Ledger
<1>3. n \in Offers(Ledger, s)
        <=> pulls[s] = NoPull /\ n <= available_draws(Ledger) /\ Payment(n) <= Supply - vault
  BY <1>2 DEF Offers, Payment
<1>4. Payment(n) <= Supply - vault
        => (n <= available_draws(Ledger) <=> InStock(n) /\ Collateralized(n))
  BY <1>1 DEF LimitsExact
<1> QED
  BY <1>3, <1>4 DEF Sells

\* The header of a sound pool agrees with its index.
LEMMA SoundStock ==
    Sound => /\ StockInv /\ TotalRemaining \in Nat
             /\ TotalRemaining = Cardinality(Available(inventory_version))
<1> SUFFICES ASSUME Sound PROVE StockInv
  BY TotalIsAvailable
<1> QED
  BY SoundFacts DEF LedgerInv, ReserveInv

\* A settlement takes as many prizes out of the stock as it releases draws.
LEMMA SettleTakes ==
    ASSUME Sound, Sound', NEW s \in Seeds, Settle(s)
    PROVE  /\ TotalRemaining \in Nat /\ pulls[s].count \in Nat
           /\ TotalRemaining' = TotalRemaining - pulls[s].count
<1>1. PICK d \in Draws(s) : Award(s, d)
  BY DEF Settle, CanSettle
<1>2. IsHead(s) /\ s \in PendingSeeds /\ inventory_version' = inventory_version
  BY DEF Settle, CanSettle, IsHead, PendingSeeds
<1>3. TypeOK /\ TypeOK' /\ FIFOQueue
  BY SoundFacts DEF Sound
<1>4. /\ TotalRemaining \in Nat
      /\ TotalRemaining = Cardinality(Available(inventory_version))
  BY SoundStock
<1>5. TotalRemaining' = Cardinality(Available(inventory_version)')
  <2>1. (Sound => /\ StockInv /\ TotalRemaining \in Nat
                  /\ TotalRemaining = Cardinality(Available(inventory_version)))'
    BY SoundStock, PTL
  <2> QED
    BY <2>1
<1>6. ClosedItems = Drawn(s, d) /\ Cardinality(ClosedItems) = pulls[s].count
  BY <1>1, <1>2, <1>3, SettleCloses
<1>7. PICK gone : gone = Drawn(s, d)
  OBVIOUS
<1>8. gone \subseteq Available(inventory_version)
  <2>1. /\ pulls[s].inventory_version <= inventory_version
        /\ pulls[s].inventory_version \in Nat /\ inventory_version \in Nat
    BY <1>2, <1>3, PendingNumbers, BoundAssumption DEF FIFOQueue, TypeOK
  <2>2. \A p \in gone : /\ p \in Position /\ tags[p] # 0
                         /\ p < pulls[s].inventory_version
    BY <1>7 DEF Drawn, Draws, Candidates, Available
  <2>3. \A p \in Position : p \in Nat
    BY BoundAssumption DEF Position
  <2>4. \A p \in gone : p < inventory_version
    BY <2>1, <2>2, <2>3
  <2> QED
    BY <2>2, <2>4 DEF Available
<1>9. Available(inventory_version)' = Available(inventory_version) \ gone
  <2>1. \A p \in Position : tags'[p] = IF p \in gone THEN 0 ELSE tags[p]
    BY <1>1, <1>7 DEF Award
  <2> QED
    BY <1>2, <2>1 DEF Available
<1>10. Available(inventory_version) \cap gone = gone
  BY <1>8
<1>11. Cardinality(Available(inventory_version) \ gone)
         = Cardinality(Available(inventory_version)) - Cardinality(gone)
  BY <1>10, AvailableFinite, FS_Difference
<1>12. pulls[s].count \in Nat
  BY <1>2, <1>3, PendingNumbers
<1> QED
  BY <1>4, <1>5, <1>6, <1>7, <1>9, <1>11, <1>12

\* A smaller reservation, released with its share of the vault or without, leaves
\* room for every purchase there was room for.
LEMMA ReleaseSells ==
    ASSUME Sound, NEW s \in Seeds, NEW n \in 1 .. MaxCount, Sells(s, n),
           terms' = terms, pulls'[s] = NoPull,
           NEW c \in Nat, c <= pending_draws, pending_draws' = pending_draws - c,
           NEW paid \in {0, RefundAmount(c)}, vault' = vault - paid, vault' \in Nat,
           NEW took \in {0, c}, TotalRemaining' = TotalRemaining - took
    PROVE  Sells(s, n)'
<1> DEFINE r == terms.price + terms.bond_per_draw
           m == pending_draws + n
<1>1. /\ terms.price \in Nat /\ r \in Nat /\ pending_draws \in Nat /\ n \in Nat
      /\ vault \in Nat /\ Supply \in Nat /\ MaxU64 \in Nat /\ m \in Nat /\ m - c \in Nat
  BY BoundAssumption DEF Sound, TypeOK, Term
<1>2. TotalRemaining \in Nat
  BY SoundStock
<1>3. InStock(n)'
  BY <1>1, <1>2 DEF Sells, InStock
<1>4. Payment(n)' = Payment(n) /\ Payment(n) \in Nat
  BY <1>1 DEF Payment
<1>5. paid \in Nat /\ r * c \in Nat /\ (paid = 0 \/ paid = r * c)
  BY <1>1 DEF RefundAmount
<1>6. r * m \in Nat /\ r * (m - c) \in Nat /\ r * (m - c) = r * m - r * c
  BY <1>1, ProductMinus
<1>7. /\ RefundAmount(pending_draws + n) = r * m
      /\ RefundAmount(pending_draws + n)' = r * (m - c)
  <2>1. pending_draws' + n = m - c
    BY <1>1
  <2> QED
    BY <2>1 DEF RefundAmount
<1>8. /\ Payment(n) <= Supply - vault /\ Fits(Payment(n)) /\ Fits(vault + Payment(n))
      /\ Fits(r * m) /\ vault + Payment(n) >= r * m
  BY <1>7 DEF Sells, Collateralized
<1> HIDE DEF r, m
<1>9. /\ Payment(n) <= Supply - vault' /\ Fits(vault' + Payment(n))
      /\ Fits(r * (m - c)) /\ vault' + Payment(n) >= r * (m - c)
  BY <1>1, <1>4, <1>5, <1>6, <1>8 DEF Fits
<1>10. Collateralized(n)'
  BY <1>4, <1>7, <1>8, <1>9 DEF Collateralized, Fits
<1> QED
  BY <1>3, <1>4, <1>9, <1>10 DEF Sells

\* Between restocks and purchases the pool goes on selling what it sold: payments,
\* prizes and penalties leave with the draws they were reserved for.
LEMMA OffersStay ==
    ASSUME Sound, Sound', ServiceStep, UNCHANGED <<status, terms>>,
           inventory_version' = inventory_version, next_index' = next_index,
           NEW s \in Seeds, NEW n \in 1 .. MaxCount, Sells(s, n)
    PROVE  Sells(s, n)'
<1>1. /\ TypeOK /\ TypeOK' /\ inventory_version \in Nat /\ next_index \in Nat
      /\ pulls[s] = NoPull /\ vault \in Nat /\ vault' \in Nat /\ pending_draws \in Nat
      /\ TotalRemaining \in Nat
  BY SoundStock, BoundAssumption DEF Sound, TypeOK, Sells
<1>2. ASSUME UNCHANGED <<pending_draws, vault, remaining>>, pulls'[s] = NoPull
      PROVE  Sells(s, n)'
  <2>1. TotalRemaining' = TotalRemaining
    BY <1>2 DEF TotalRemaining, Tiers
  <2>2. /\ 0 \in Nat /\ 0 <= pending_draws /\ pending_draws' = pending_draws - 0
        /\ vault' = vault - 0 /\ TotalRemaining' = TotalRemaining - 0
    BY <1>1, <1>2, <2>1
  <2> QED
    BY <1>1, <1>2, <2>2, ReleaseSells
<1>3. ASSUME NEW a \in Assets, NEW t \in 0 .. MaxTiers, DepositItem(a, t) PROVE FALSE
  BY <1>1, <1>3 DEF DepositItem, Restock
<1>4. ASSUME NEW q \in Seeds, NEW b \in Wallets, NEW k \in 1 .. MaxCount,
             NEW v \in 0 .. inventory_version, Buy(q, b, k, v)
      PROVE  FALSE
  BY <1>1, <1>4 DEF Buy
<1>5. ASSUME NEW q \in Seeds, Settle(q) PROVE Sells(s, n)'
  <2>1. PICK c : c = pulls[q].count
    OBVIOUS
  <2>2. c \in Nat /\ TotalRemaining' = TotalRemaining - c
    BY <1>5, <2>1, SettleTakes
  <2>3. c <= pending_draws /\ pending_draws' = pending_draws - c /\ vault' = vault - 0
    BY <1>1, <1>5, <2>1, <2>2 DEF Settle, CanSettle, CanRelease, Release
  <2>4. pulls'[s] = NoPull
    BY <1>1, <1>5 DEF Settle, CanSettle, IsHead, IsPending, Award, TypeOK
  <2> QED
    BY <1>1, <2>2, <2>3, <2>4, ReleaseSells
<1>6. ASSUME NEW q \in Seeds, NEW i \in 1 .. MaxCount, Deliver(q, i) PROVE Sells(s, n)'
  <2>1. pulls'[s] = NoPull
    BY <1>1, <1>6 DEF Deliver, CanDeliver, IsSettled, TypeOK
  <2> QED
    BY <1>2, <1>6, <2>1 DEF Deliver, queue, stock
<1>7. ASSUME NEW q \in Seeds, Refund(q) PROVE Sells(s, n)'
  <2>1. PICK c : c = pulls[q].count
    OBVIOUS
  <2>2. q \in PendingSeeds /\ c \in Nat
    BY <1>1, <1>7, <2>1, PendingNumbers DEF Refund, CanRefund, IsHead, PendingSeeds
  <2>3. /\ c <= pending_draws /\ pending_draws' = pending_draws - c
        /\ vault' = vault - RefundAmount(c)
    BY <1>1, <1>7, <2>1, <2>2 DEF Refund, CanRefund, CanRelease, Release
  <2>4. pulls'[s] = NoPull
    BY <1>1, <1>7 DEF Refund, TypeOK
  <2>5. TotalRemaining' = TotalRemaining - 0
    BY <1>1, <1>7 DEF Refund, stock, TotalRemaining, Tiers
  <2> QED
    BY <1>1, <2>2, <2>3, <2>4, <2>5, ReleaseSells
<1>8. ASSUME Tick PROVE Sells(s, n)'
  BY <1>1, <1>2, <1>8 DEF Tick, queue, stock
<1> QED
  BY <1>3, <1>4, <1>5, <1>6, <1>7, <1>8 DEF ServiceStep

\* So every step of a pool in service does.
LEMMA StepOffers ==
    ASSUME Sound, Sound', ServiceStep, UNCHANGED <<status, terms>>, NEW w, w = Ledger'
    PROVE  StillOffers(Ledger, w)
<1>1. (Sound => \A s \in Seeds : \A n \in 1 .. MaxCount :
                  n \in Offers(Ledger, s) <=> Sells(s, n))'
  BY OffersExact, PTL
<1>2. \A s \in Seeds : \A n \in 1 .. MaxCount : n \in Offers(w, s) <=> Sells(s, n)'
  BY <1>1
<1> SUFFICES ASSUME inventory_version' = inventory_version, next_index' = next_index,
                    NEW s \in Seeds, NEW n \in 1 .. MaxCount, n \in Offers(Ledger, s)
             PROVE  n \in Offers(w, s)
  <2>1. \A v : \A s \in Seeds : \A n \in Offers(v, s) : n \in 1 .. MaxCount
    BY DEF Offers
  <2> QED
    BY <2>1, LedgerFields, LedgerFieldsNext DEF StillOffers
<1>3. Sells(s, n)'
  BY OffersExact, OffersStay
<1> QED
  BY <1>2, <1>3

\* So every step moves the ledger on.
LEMMA StepBehind ==
    ASSUME Sound, ServiceStep, [Next]_vars, UNCHANGED <<status, terms>>, NEW w, w = Ledger'
    PROVE  Behind(Ledger, w)
<1>1. QueueInv /\ LedgerInv /\ TypeOK
  BY SoundFacts
<1>2. Advance
  BY <1>1, LedgerFacts
<1>3. next_index <= next_index' /\ next_settle <= next_settle'
  BY <1>1, IndexesGrow
<1>4. \A p \in Position : p < inventory_version /\ tags'[p] # 0 => tags[p] = tags'[p]
  BY <1>1, TagsOnlyRemoved
<1>5. ASSUME NEW s \in Seeds, IsPending(s)', pulls'[s].index < next_index
      PROVE  /\ pulls[s] = pulls'[s]
             /\ pulls'[s].index <= next_settle =>
                  \A p \in Position : p < pulls'[s].inventory_version =>
                    tags[p] = tags'[p] /\ items[p] = items'[p]
  <2>1. pulls'[s] = pulls[s]
    BY <1>1, <1>5, WaitingKept
  <2>2. IsPending(s)
    BY <1>5, <2>1 DEF IsPending
  <2> QED
    BY <1>1, <2>1, <2>2, HeadPrefixKept
<1>6. ASSUME NEW s \in Seeds, IsSettled(s)', pulls'[s].index < next_settle
      PROVE  AwardsBehind(pulls[s], pulls'[s])
  BY <1>6, AwardsOnlyDelivered
<1>7. \A s \in Seeds : /\ Waiting(w, s) <=> IsPending(s)'
                       /\ Settled(w, s) <=> IsSettled(s)'
                       /\ Waiting(Ledger, s) <=> IsPending(s)
  BY LedgerFields, LedgerFieldsNext DEF Waiting, Settled, IsPending, IsSettled
<1>8. \A s \in Seeds : IsPending(s) /\ next_settle' <= pulls[s].index => pulls'[s] = pulls[s]
  BY <1>1, WaitingStays
<1>9. StillOffers(Ledger, w)
  BY SoundNext, StepOffers
<1> QED
  BY <1>2, <1>3, <1>4, <1>5, <1>6, <1>7, <1>8, <1>9, LedgerFields, LedgerFieldsNext
     DEF Behind, Advance


-----------------------------------------------------------------------------
(* The same, said of a recorded ledger.                                    *)

\* Of the present ledger, SoundAt is Sound.
LEMMA SoundSame == SoundAt(Ledger) <=> Sound
<1>1. /\ At(Ledger)!TypeOK <=> TypeOK
  BY DEF At!TypeOK, TypeOK, Ledger, At!Term, At!Tier, At!Position, At!Item, At!Pull,
         At!Outcome, At!DELIVERED, Term, Tier, Position, Item, Pull, Outcome, DELIVERED
<1>2. At(Ledger)!ValidTerms(terms) <=> ValidTerms(terms)
  BY DEF At!ValidTerms, ValidTerms, At!Tier, Tier, At!Fits, Fits
<1>3. At(Ledger)!Solvency <=> Solvency
  BY DEF At!Solvency, Solvency, Ledger
<1>4. At(Ledger)!PendingSeeds = PendingSeeds
  BY DEF At!PendingSeeds, PendingSeeds, At!IsPending, IsPending, Ledger
<1>5. \A i : At(Ledger)!Tickets(i) = Tickets(i)
  BY <1>4 DEF At!Tickets, Tickets, Ledger
<1>6. \A S : At(Ledger)!Cardinality(S) = Cardinality(S)
  BY DEF At!Cardinality, Cardinality
<1>7. At(Ledger)!PendingDrawsCounted <=> PendingDrawsCounted
  BY <1>5, <1>6 DEF At!PendingDrawsCounted, PendingDrawsCounted, Ledger
<1>8. At(Ledger)!FIFOQueue <=> FIFOQueue
  BY <1>4 DEF At!FIFOQueue, FIFOQueue, Ledger
<1>9. At(Ledger)!ReservedPrefix <=> ReservedPrefix
  BY <1>4, <1>5, <1>6
     DEF At!ReservedPrefix, ReservedPrefix, At!Available, Available, At!Position, Position,
         Ledger
<1>10. At(Ledger)!StockAgrees <=> StockAgrees
  BY <1>6 DEF At!StockAgrees, At!Tiers, At!Position, At!Tier, StockAgrees, Tiers, Position,
              Tier, Ledger
<1>11. At(Ledger)!Awards = Awards
  BY DEF At!Awards, Awards, At!IsSettled, IsSettled, At!DELIVERED, DELIVERED, Ledger
<1>12. At(Ledger)!Custody <=> Custody
  BY <1>11 DEF At!Custody, Custody, At!Position, Position, Ledger
<1>13. \A s : At(Ledger)!IsSettled(s) <=> IsSettled(s)
  BY DEF At!IsSettled, IsSettled, Ledger
<1>14. At(Ledger)!Outcome = Outcome
  BY DEF At!Outcome, Outcome, At!Tier, Tier, At!DELIVERED, DELIVERED
<1>15. IsLedger(Ledger)
  BY DEF IsLedger, Ledger
<1> QED
  BY <1>1, <1>2, <1>3, <1>4, <1>7, <1>8, <1>9, <1>10, <1>12, <1>13, <1>14, <1>15,
     LedgerFields
     DEF SoundAt, Sound, DeadlinesBounded, SettledComplete, SettledPast

\* A ledger that is put back is as sound as it was.
LEMMA SoundRestored ==
    ASSUME NEW v, SoundAt(v), Ledger' = v
    PROVE  Sound'
<1>1. (SoundAt(Ledger) => Sound)'
  BY SoundSame, PTL
<1> QED
  BY <1>1

-----------------------------------------------------------------------------
(* What the SDK's checks and plans rest on holds of a sound ledger.        *)

\* The draws planned for a waiting purchase are the program's, and lie in its
\* prefix.
LEMMA PlannedDraws ==
    ASSUME Sound, NEW s \in Seeds, IsPending(s), NEW hashes \in VRFOutput
    PROVE  /\ PlanDraws(Ledger, s, hashes) = ChainDraws(s, hashes)
           /\ PlanDraws(Ledger, s, hashes) \in Draws(s)
           /\ PlanDraws(Ledger, s, hashes)
                \in [1 .. pulls[s].count -> {p \in Position : p < pulls[s].inventory_version}]
<1>1. PledgeInv /\ s \in PendingSeeds
  BY SoundFacts DEF PendingSeeds
<1>2. PICK d : d = ChainDraws(s, hashes)
  OBVIOUS
<1>3. Follows(s, hashes, d)
  BY <1>1, <1>2, ChainFollows
<1>4. PlanDraws(Ledger, s, hashes) = d
  BY <1>1, <1>3, PlanFollows
<1>5. d \in Draws(s)
  BY <1>1, <1>3, FollowsEligible
<1>6. d \in [1 .. pulls[s].count -> {p \in Position : p < pulls[s].inventory_version}]
  BY <1>5 DEF Draws, Candidates, Available
<1> QED
  BY <1>2, <1>4, <1>5, <1>6

\* Its plans do not depend on more of a view than pulls, tags and terms.
LEMMA SamePlans ==
    ASSUME NEW v, NEW w, v.pulls = w.pulls, v.tags = w.tags, v.terms = w.terms,
           NEW s, NEW hashes
    PROVE  PlanDraws(v, s, hashes) = PlanDraws(w, s, hashes)
<1>1. PlanLists(v, s) = PlanLists(w, s)
  BY DEF PlanLists
<1> QED
  BY <1>1 DEF PlanDraws

\* A sound ledger is consistent, as of any slot.
LikeLedger(v) ==
    /\ v.status = status /\ v.terms = terms /\ v.inventory_version = inventory_version
    /\ v.tags = tags /\ v.next_index = next_index /\ v.next_settle = next_settle
    /\ v.remaining = remaining /\ v.items = items /\ v.pulls = pulls /\ v.owner = owner
LEMMA SoundConsistent ==
    ASSUME Sound, NEW v, v.slot \in Nat, LikeLedger(v)
    PROVE  Consistent(v)
<1>1. /\ PledgeInv /\ QueueInv /\ TypeOK /\ SettledComplete /\ Custody
      /\ status = "active" /\ terms \in Terms /\ SettledPast
  BY SoundFacts DEF Sound
<1>2. /\ v.status = status /\ v.terms = terms /\ v.inventory_version = inventory_version
      /\ v.tags = tags /\ v.next_index = next_index /\ v.next_settle = next_settle
      /\ v.remaining = remaining /\ v.items = items /\ v.pulls = pulls /\ v.owner = owner
  BY DEF LikeLedger
<1>3. PoolDecodes(v)
  <2>1. PoolDecodes(Ledger)
    BY <1>1, PoolDecodable
  <2> QED
    BY <1>2, <2>1, LedgerFields DEF PoolDecodes, HeaderDecodes, TiersOf
<1>4. /\ v.inventory_version \in Nat /\ v.next_index \in Nat /\ v.next_settle \in Nat
      /\ v.tags \in [Position -> Nat] /\ v.pulls \in [Seeds -> Pull \cup {NoPull}]
  BY <1>1, <1>2, BoundAssumption DEF TypeOK
<1>5. \A p \in Position : items[p] # NoItem => owner[items[p].asset] = Pool
  BY <1>1 DEF Custody
<1>6. \A s \in Seeds : IsPending(s) => pulls[s].index < next_index
  BY <1>1, QueueFacts DEF PendingSeeds
<1>7. ASSUME NEW s \in Seeds, IsSettled(s), NEW i \in 1 .. pulls[s].count,
             pulls[s].outcomes[i].tier # DELIVERED
      PROVE  owner[pulls[s].outcomes[i].asset] = Pool
  <2>1. <<s, i>> \in Awards
    BY <1>1, <1>7, IsAward
  <2> QED
    BY <1>1, <2>1 DEF Custody
<1>8. \A s \in Seeds : IsSettled(s) =>
        pulls[s].index < next_settle
  BY <1>1 DEF SettledPast
<1>9. \A s \in Seeds : /\ Waiting(v, s) <=> IsPending(s)
                       /\ Settled(v, s) <=> IsSettled(s)
  BY <1>2 DEF Waiting, Settled, IsPending, IsSettled
<1>10. ASSUME NEW s \in Seeds, IsPending(s), NEW hashes \in VRFOutput
       PROVE  PlanDraws(v, s, hashes)
                \in [1 .. pulls[s].count -> {p \in Position : p < pulls[s].inventory_version}]
  <2>0. v.pulls = Ledger.pulls /\ v.tags = Ledger.tags /\ v.terms = Ledger.terms
    BY <1>2, LedgerFields
  <2>1. PlanDraws(v, s, hashes) = PlanDraws(Ledger, s, hashes)
    BY <2>0, SamePlans
  <2> QED
    BY <1>10, <2>1, PlannedDraws
<1>11. next_settle <= next_index
  BY <1>1 DEF QueueInv
<1> QED
  BY <1>1, <1>2, <1>3, <1>4, <1>5, <1>6, <1>7, <1>8, <1>9, <1>10, <1>11 DEF Consistent

\* In particular of the present one.
LEMMA PresentConsistent == Sound => Consistent(Ledger)
<1> SUFFICES ASSUME Sound PROVE Consistent(Ledger)
  OBVIOUS
<1>1. slot \in Nat
  BY SoundFacts, BoundAssumption DEF TypeOK
<1>2. LikeLedger(Ledger) /\ Ledger.slot \in Nat
  BY <1>1, LedgerFields DEF LikeLedger
<1> QED
  BY <1>2, SoundConsistent


-----------------------------------------------------------------------------
(* The pool as it opens.                                                   *)

\* Its stock: the first positions hold the opening prizes.
LEMMA OpeningItems ==
    ASSUME RelayInit
    PROVE  /\ items \in [Position -> Item \cup {NoItem}]
           /\ tags \in [Position -> 0 .. MaxTiers]
           /\ \A p \in Position :
                /\ items[p] = NoItem <=> tags[p] = 0
                /\ items[p] # NoItem => /\ tags[p] = items[p].tier + 1
                                        /\ items[p].tier \in Tiers
                                        /\ p < inventory_version
           /\ \A p, q \in Position :
                items[p] # NoItem /\ items[q] # NoItem /\ items[p].asset = items[q].asset
                  => p = q
<1>1. /\ OpeningStock \in Seq(Item) /\ DOMAIN OpeningStock = 1 .. Len(OpeningStock)
      /\ Len(OpeningStock) \in Nat
  BY RelayAssumption, LenProperties
<1>2. inventory_version = Len(OpeningStock)
  BY DEF RelayInit
<1>3. ASSUME NEW p \in Position
      PROVE  /\ p < inventory_version =>
                  /\ p + 1 \in DOMAIN OpeningStock /\ items[p] = OpeningStock[p + 1]
                  /\ items[p] \in Item /\ items[p].tier \in Tiers /\ items[p] # NoItem
             /\ ~ p < inventory_version => items[p] = NoItem
  <2>1. p \in Nat
    BY BoundAssumption DEF Position
  <2>2. items[p] = IF p < Len(OpeningStock) THEN OpeningStock[p + 1] ELSE NoItem
    BY DEF RelayInit
  <2>3. p < Len(OpeningStock) => p + 1 \in DOMAIN OpeningStock
    BY <1>1, <2>1
  <2>4. p + 1 \in DOMAIN OpeningStock => OpeningStock[p + 1] \in Item
    BY <1>1
  <2>5. p + 1 \in DOMAIN OpeningStock => OpeningStock[p + 1].tier \in Tiers
    BY DEF RelayInit
  <2> QED
    BY <1>2, <2>2, <2>3, <2>4, <2>5, NullAssumption
<1>4. \A p \in Position : items[p] \in Item \cup {NoItem}
  BY <1>3
<1>5. items \in [Position -> Item \cup {NoItem}]
  BY <1>4 DEF RelayInit
<1>6. ASSUME NEW p \in Position
      PROVE  /\ tags[p] \in 0 .. MaxTiers
             /\ items[p] = NoItem <=> tags[p] = 0
             /\ items[p] # NoItem => tags[p] = items[p].tier + 1
  <2>1. tags[p] = IF items[p] = NoItem THEN 0 ELSE items[p].tier + 1
    BY DEF RelayInit
  <2>2. items[p] # NoItem => items[p].tier \in 0 .. MaxTiers - 1
    BY <1>3 DEF Tiers, Tier
  <2> QED
    BY <2>1, <2>2, BoundAssumption
<1>7. tags \in [Position -> 0 .. MaxTiers]
  BY <1>6 DEF RelayInit
<1>8. ASSUME NEW p \in Position, NEW q \in Position, items[p] # NoItem, items[q] # NoItem,
             items[p].asset = items[q].asset
      PROVE  p = q
  <2>1. p + 1 = q + 1
    BY <1>3, <1>8, RelayAssumption
  <2>2. p \in Nat /\ q \in Nat
    BY BoundAssumption DEF Position
  <2> QED
    BY <2>1, <2>2
<1> QED
  BY <1>3, <1>5, <1>6, <1>7, <1>8

\* A pool in service starts sound.
LEMMA OpensSound == RelayInit => Sound
<1> SUFFICES ASSUME RelayInit PROVE Sound
  OBVIOUS
<1>1. \A s \in Seeds : pulls[s] = NoPull
  BY DEF RelayInit
<1>2. PendingSeeds = {} /\ Awards = {} /\ \A i : Tickets(i) = {}
  BY <1>1 DEF PendingSeeds, Awards, Tickets, IsPending, IsSettled
<1>3. status = "active" /\ terms \in Terms /\ ValidTerms(terms) /\ terms \in Term
  BY InputAssumption DEF RelayInit
<1>4. next_index = 0 /\ next_settle = 0 /\ pending_draws = 0 /\ slot = 1
  BY DEF RelayInit
<1>5. inventory_version \in 0 .. MaxPositions
  <2>1. Len(OpeningStock) \in Nat /\ Len(OpeningStock) <= MaxPositions
    BY RelayAssumption, LenProperties
  <2> QED
    BY <2>1, BoundAssumption DEF RelayInit
<1>6. remaining \in [Tier -> Nat]
  <2>1. \A t \in Tier : Cardinality({p \in Position : tags[p] = t + 1}) \in Nat
    BY TaggedFinite DEF Tagged
  <2>2. remaining = [t \in Tier |-> Cardinality({p \in Position : tags[p] = t + 1})]
    BY DEF RelayInit
  <2> QED
    BY <2>1, <2>2
<1>7. owner \in [Assets -> Wallets \cup {Pool}] /\ pulls \in [Seeds -> Pull \cup {NoPull}]
      /\ vault \in 0 .. Supply
  BY AccountAssumption, RelayAssumption DEF RelayInit
<1>8. TypeOK
  BY <1>3, <1>4, <1>5, <1>6, <1>7, OpeningItems, BoundAssumption, RelayAssumption DEF TypeOK
<1>9. StockAgrees
  BY OpeningItems DEF StockAgrees, RelayInit
<1>10. Custody
  <2>1. \A p \in Position : items[p] # NoItem => owner[items[p].asset] = Pool
    <3>1. ASSUME NEW p \in Position, items[p] # NoItem PROVE items[p].asset \in Assets
      BY <3>1, OpeningItems DEF Item
    <3> QED
      BY <3>1 DEF RelayInit
  <2> QED
    BY <1>2, <2>1, OpeningItems DEF Custody
<1>11. Solvency
  BY <1>3, <1>4, <1>8 DEF Solvency, TypeOK, Term
<1>12. PendingDrawsCounted
  BY <1>2, <1>4, FS_EmptySet DEF PendingDrawsCounted
<1>13. FIFOQueue /\ ReservedPrefix /\ DeadlinesBounded
  BY <1>2, <1>4 DEF FIFOQueue, ReservedPrefix, DeadlinesBounded
<1>14. SettledComplete /\ SettledPast
  BY <1>1 DEF SettledComplete, SettledPast, IsSettled
<1> QED
  BY <1>3, <1>8, <1>9, <1>10, <1>11, <1>12, <1>13, <1>14 DEF Sound

\* What the lagging node shows at first is behind it.
LEMMA OpensBehind ==
    ASSUME RelayInit
    PROVE  LedgerOK
<1>1. Sound
  BY OpensSound
<1>2. lagging = [Ledger EXCEPT !.slot = 0]
  BY DEF RelayInit
<1>3. Consistent(lagging)
  <2>1. LikeLedger(lagging) /\ lagging.slot \in Nat
    BY <1>2 DEF LikeLedger, Ledger
  <2> QED
    BY <1>1, <2>1, SoundConsistent
<1>4. /\ lagging.inventory_version = inventory_version /\ lagging.terms = terms
      /\ lagging.tags = tags /\ lagging.next_index = next_index
      /\ lagging.next_settle = next_settle /\ lagging.pulls = pulls /\ lagging.slot = 0
  BY <1>2 DEF Ledger
<1>5. \A s \in Seeds : pulls[s] = NoPull
  BY DEF RelayInit
<1>6. Behind(lagging, Ledger)
  <2>1. \A s \in Seeds :
          ~ Waiting(Ledger, s) /\ ~ Settled(Ledger, s) /\ ~ Waiting(lagging, s)
    BY <1>4, <1>5, LedgerFields DEF Waiting, Settled
  <2>2. slot = 1 /\ inventory_version \in Nat /\ next_index = 0 /\ next_settle = 0
    BY <1>1, SoundFacts, BoundAssumption DEF RelayInit, TypeOK
  <2>3. StillOffers(lagging, Ledger)
    <3>1. \A s \in Seeds : Offers(lagging, s) = Offers(Ledger, s)
      BY <1>2 DEF Ledger, Offers, available_draws, StockIn, TiersOf, Affordable,
                  spendable_balance, Surplus, ReservedIn
    <3> QED
      BY <3>1 DEF StillOffers
  <2> QED
    BY <1>4, <2>1, <2>2, <2>3, LedgerFields DEF Behind
<1>7. output \in [Seeds -> VRFOutput] /\ slot = 1
  BY RelayAssumption DEF RelayInit
<1> QED
  BY <1>1, <1>3, <1>4, <1>6, <1>7 DEF LedgerOK


-----------------------------------------------------------------------------
(* What a call knows of a ledger it knows of every later one.              *)

\* The numbers a view shows.
LEMMA ViewNumbers ==
    ASSUME NEW v, Consistent(v), NEW s \in Seeds, v.pulls[s] # NoPull
    PROVE  /\ v.pulls[s] \in Pull /\ v.pulls[s].index \in Nat
           /\ v.pulls[s].inventory_version \in Nat /\ v.pulls[s].count \in 1 .. MaxCount
           /\ v.pulls[s].buyer \in Wallets
           /\ Waiting(v, s) \/ Settled(v, s)
           /\ v.pulls[s].index < v.next_index
<1>1. v.pulls[s] \in Pull
  BY DEF Consistent
<1>2. Waiting(v, s) \/ Settled(v, s)
  BY <1>1 DEF Pull, Waiting, Settled
<1>3. v.pulls[s].index \in Nat /\ v.next_settle \in Nat /\ v.next_index \in Nat
  BY <1>1 DEF Pull, Consistent
<1>4. v.pulls[s].index < v.next_index
  BY <1>2, <1>3 DEF Consistent
<1> QED
  BY <1>1, <1>2, <1>3, <1>4 DEF Pull

\* No view is newer than itself.
LEMMA BehindItself == ASSUME NEW v, Consistent(v) PROVE Behind(v, v)
<1>1. /\ v.inventory_version \in Nat /\ v.next_index \in Nat /\ v.next_settle \in Nat
      /\ v.slot \in Nat
  BY DEF Consistent
<1>2. \A s \in Seeds : Settled(v, s) => AwardsBehind(v.pulls[s], v.pulls[s])
  BY DEF Settled, AwardsBehind
<1> QED
  BY <1>1, <1>2 DEF Behind, StillOffers

\* What is behind an older view is behind a newer one.
LEMMA BehindTransitive ==
    ASSUME NEW u, NEW v, NEW w, Consistent(u), Consistent(v), Consistent(w),
           Behind(u, v), Behind(v, w)
    PROVE  Behind(u, w)
<1>1. /\ u.inventory_version \in Nat /\ u.next_index \in Nat /\ u.next_settle \in Nat
      /\ u.slot \in Nat
      /\ v.inventory_version \in Nat /\ v.next_index \in Nat /\ v.next_settle \in Nat
      /\ v.slot \in Nat
      /\ w.inventory_version \in Nat /\ w.next_index \in Nat /\ w.next_settle \in Nat
      /\ w.slot \in Nat
  BY DEF Consistent
<1>2. /\ u.inventory_version <= v.inventory_version /\ u.next_index <= v.next_index
      /\ u.next_settle <= v.next_settle /\ u.slot <= v.slot /\ u.terms = v.terms
      /\ v.inventory_version <= w.inventory_version /\ v.next_index <= w.next_index
      /\ v.next_settle <= w.next_settle /\ v.slot <= w.slot /\ v.terms = w.terms
  BY DEF Behind
<1>3. ASSUME NEW p \in Position, p < u.inventory_version, w.tags[p] # 0
      PROVE  u.tags[p] = w.tags[p]
  <2>1. p \in Nat /\ p < v.inventory_version
    BY <1>1, <1>2, <1>3, BoundAssumption DEF Position
  <2>2. v.tags[p] = w.tags[p]
    BY <1>3, <2>1 DEF Behind
  <2> QED
    BY <1>3, <2>2 DEF Behind
<1>4. ASSUME NEW s \in Seeds, Waiting(w, s), w.pulls[s].index < u.next_index
      PROVE  /\ u.pulls[s] = w.pulls[s]
             /\ w.pulls[s].index <= u.next_settle =>
                  \A p \in Position : p < w.pulls[s].inventory_version =>
                    u.tags[p] = w.tags[p] /\ u.items[p] = w.items[p]
  <2>1. w.pulls[s].index \in Nat
    BY <1>4, ViewNumbers DEF Waiting
  <2>2. /\ v.pulls[s] = w.pulls[s]
        /\ w.pulls[s].index <= v.next_settle =>
             \A p \in Position : p < w.pulls[s].inventory_version =>
               v.tags[p] = w.tags[p] /\ v.items[p] = w.items[p]
    BY <1>1, <1>2, <1>4, <2>1 DEF Behind
  <2>3. Waiting(v, s)
    BY <1>4, <2>2 DEF Waiting
  <2>4. /\ u.pulls[s] = v.pulls[s]
        /\ v.pulls[s].index <= u.next_settle =>
             \A p \in Position : p < v.pulls[s].inventory_version =>
               u.tags[p] = v.tags[p] /\ u.items[p] = v.items[p]
    BY <1>4, <2>2, <2>3 DEF Behind
  <2>5. w.pulls[s].index <= u.next_settle => w.pulls[s].index <= v.next_settle
    BY <1>1, <1>2, <2>1
  <2> QED
    BY <2>2, <2>4, <2>5
<1>5. ASSUME NEW s \in Seeds, Settled(w, s), w.pulls[s].index < u.next_settle
      PROVE  AwardsBehind(u.pulls[s], w.pulls[s])
  <2>1. w.pulls[s].index \in Nat
    BY <1>5, ViewNumbers DEF Settled
  <2>2. AwardsBehind(v.pulls[s], w.pulls[s])
    BY <1>1, <1>2, <1>5, <2>1 DEF Behind
  <2>3. Settled(v, s) /\ v.pulls[s].index < u.next_settle
    BY <1>5, <2>2 DEF AwardsBehind, Settled
  <2>4. AwardsBehind(u.pulls[s], v.pulls[s])
    BY <2>3 DEF Behind
  <2> QED
    BY <2>2, <2>4 DEF AwardsBehind
<1>6. ASSUME NEW s \in Seeds, Waiting(u, s), w.next_settle <= u.pulls[s].index
      PROVE  w.pulls[s] = u.pulls[s]
  <2>1. u.pulls[s].index \in Nat
    BY <1>6, ViewNumbers DEF Waiting
  <2>2. v.pulls[s] = u.pulls[s]
    BY <1>1, <1>2, <1>6, <2>1 DEF Behind
  <2>3. Waiting(v, s)
    BY <1>6, <2>2 DEF Waiting
  <2> QED
    BY <1>6, <2>2, <2>3 DEF Behind
<1>7. StillOffers(u, w)
  <2> SUFFICES ASSUME u.inventory_version = w.inventory_version,
                      u.next_index = w.next_index, NEW s \in Seeds
               PROVE  Offers(u, s) \subseteq Offers(w, s)
    BY DEF StillOffers
  <2>1. /\ u.inventory_version = v.inventory_version /\ u.next_index = v.next_index
        /\ v.inventory_version = w.inventory_version /\ v.next_index = w.next_index
    BY <1>1, <1>2
  <2>2. StillOffers(u, v) /\ StillOffers(v, w)
    BY DEF Behind
  <2>3. Offers(u, s) \subseteq Offers(v, s) /\ Offers(v, s) \subseteq Offers(w, s)
    BY <2>1, <2>2 DEF StillOffers
  <2> QED
    BY <2>3
<1> QED
  BY <1>1, <1>2, <1>3, <1>4, <1>5, <1>6, <1>7 DEF Behind

\* Plans for the head of the queue do not age.
LEMMA SamePrefixPlans ==
    ASSUME NEW v, NEW w, NEW s, v.terms = w.terms, v.pulls[s] = w.pulls[s],
           \A p \in Position : p < w.pulls[s].inventory_version => v.tags[p] = w.tags[p],
           NEW hashes
    PROVE  PlanDraws(v, s, hashes) = PlanDraws(w, s, hashes)
<1>1. ASSUME NEW t \in Tier
      PROVE  {p \in Position : p < v.pulls[s].inventory_version /\ v.tags[p] = t + 1}
               = {p \in Position : p < w.pulls[s].inventory_version /\ w.tags[p] = t + 1}
  OBVIOUS
<1>2. PlanLists(v, s) = PlanLists(w, s)
  BY <1>1, Zenon DEF PlanLists
<1> QED
  BY <1>2 DEF PlanDraws

\* A purchase that is open later was open before.
LEMMA OpenBefore ==
    ASSUME NEW v, NEW w, Behind(v, w), NEW s \in Seeds, NEW index, index < v.next_index,
           OpenIn(w, s, index)
    PROVE  OpenIn(v, s, index) /\ v.pulls[s] = w.pulls[s]
<1>1. v.pulls[s] = w.pulls[s]
  BY DEF OpenIn, Behind
<1> QED
  BY <1>1 DEF OpenIn, Waiting

\* A prize that is owed later was owed before.
LEMMA OwedBefore ==
    ASSUME NEW v, NEW w, Behind(v, w), NEW s \in Seeds, NEW index, index < v.next_settle,
           SettledIn(w, s, index)
    PROVE  /\ SettledIn(v, s, index) /\ AwardsBehind(v.pulls[s], w.pulls[s])
           /\ \A asset : OwedIn(w, s, index, asset) => OwedIn(v, s, index, asset)
<1>1. AwardsBehind(v.pulls[s], w.pulls[s])
  BY DEF SettledIn, Behind
<1>2. SettledIn(v, s, index)
  BY <1>1 DEF SettledIn, Settled, AwardsBehind
<1>3. ASSUME NEW asset, OwedIn(w, s, index, asset) PROVE OwedIn(v, s, index, asset)
  BY <1>1, <1>2, <1>3 DEF OwedIn, AwardsBehind
<1> QED
  BY <1>1, <1>2, <1>3


\* So the purchase a call has seen is known to be there, or to be resolved.
LEMMA SeenLater ==
    ASSUME NEW v, NEW w, Consistent(v), Consistent(w), Behind(v, w),
           NEW c, IsCall(c), Seen(c, v)
    PROVE  Seen(c, w)
<1>1. /\ v.next_index \in Nat /\ v.next_settle \in Nat
      /\ w.next_index \in Nat /\ w.next_settle \in Nat
      /\ v.next_index <= w.next_index /\ v.next_settle <= w.next_settle
  BY DEF Consistent, Behind
<1>2. c.seed \in Seeds /\ c.index \in Nat
  BY DEF IsCall
<1>3. ASSUME OpenIn(v, c.seed, c.index)
      PROVE  c.index < w.next_settle \/ OpenIn(w, c.seed, c.index)
  <2> SUFFICES ASSUME w.next_settle <= c.index PROVE OpenIn(w, c.seed, c.index)
    BY <1>1, <1>2
  <2>1. w.pulls[c.seed] = v.pulls[c.seed]
    BY <1>2, <1>3 DEF OpenIn, Behind
  <2> QED
    BY <1>3, <2>1 DEF OpenIn, Waiting
<1> QED
  BY <1>1, <1>2, <1>3 DEF Seen

\* What a settlement has prepared stays right until it is settled.
LEMMA PreparedLater ==
    ASSUME NEW v, NEW w, Consistent(v), Consistent(w), Behind(v, w),
           NEW c, IsCall(c), Seen(c, v), c.op = "settle",
           c.stage \in {"items", "assets", "sent"},
           NEW outputs \in [Seeds -> VRFOutput], Prepared(c, v, outputs)
    PROVE  Prepared(c, w, outputs)
<1> SUFFICES ASSUME OpenIn(w, c.seed, c.index)
             PROVE  /\ c.buyer = w.pulls[c.seed].buyer
                    /\ c.draws = PlanDraws(w, c.seed, outputs[c.seed])
                    /\ c.stage \in {"assets", "sent"} =>
                         c.owed = [i \in DOMAIN c.draws |->
                                     [outcome |-> i, asset |-> w.items[c.draws[i]].asset]]
  BY DEF Prepared
<1>1. c.seed \in Seeds /\ c.index \in Nat
  BY DEF IsCall
<1>2. c.index < v.next_index /\ c.index <= v.next_settle
  BY DEF Seen
<1>3. OpenIn(v, c.seed, c.index) /\ v.pulls[c.seed] = w.pulls[c.seed]
  BY <1>1, <1>2, OpenBefore
<1>4. \A p \in Position : p < w.pulls[c.seed].inventory_version =>
        v.tags[p] = w.tags[p] /\ v.items[p] = w.items[p]
  BY <1>1, <1>2 DEF OpenIn, Behind
<1>5. v.terms = w.terms
  BY DEF Behind
<1>6. PlanDraws(v, c.seed, outputs[c.seed]) = PlanDraws(w, c.seed, outputs[c.seed])
  BY <1>3, <1>4, <1>5, SamePrefixPlans
<1>7. c.draws = PlanDraws(w, c.seed, outputs[c.seed])
  BY <1>3, <1>6 DEF Prepared
<1>8. c.draws \in [1 .. w.pulls[c.seed].count ->
                     {p \in Position : p < w.pulls[c.seed].inventory_version}]
  BY <1>1, <1>7 DEF Consistent, OpenIn
<1>9. \A i \in DOMAIN c.draws : v.items[c.draws[i]] = w.items[c.draws[i]]
  BY <1>4, <1>8
<1> QED
  BY <1>3, <1>7, <1>9 DEF Prepared

\* What is due to be delivered stays so until it is delivered.
LEMMA DueLater ==
    ASSUME NEW v, NEW w, Consistent(v), Consistent(w), Behind(v, w),
           NEW c, IsCall(c), Due(c, v)
    PROVE  Due(c, w)
<1>1. /\ v.next_settle \in Nat /\ w.next_settle \in Nat
      /\ v.next_settle <= w.next_settle
  BY DEF Consistent, Behind
<1>2. c.seed \in Seeds /\ c.index \in Nat /\ c.index < v.next_settle
  BY DEF IsCall, Due
<1>3. ASSUME SettledIn(w, c.seed, c.index)
      PROVE  /\ c.buyer = w.pulls[c.seed].buyer
             /\ \A k \in DOMAIN c.owed :
                  /\ c.owed[k].outcome \in 1 .. w.pulls[c.seed].count
                  /\ c.owed[k].asset = w.pulls[c.seed].outcomes[c.owed[k].outcome].asset
  <2>1. /\ SettledIn(v, c.seed, c.index)
        /\ AwardsBehind(v.pulls[c.seed], w.pulls[c.seed])
    BY <1>2, <1>3, OwedBefore
  <2> QED
    BY <2>1 DEF Due, AwardsBehind
<1> QED
  BY <1>1, <1>2, <1>3, SMTT(20) DEF Due

\* A planned instruction says what it said.
LEMMA CurrentLater ==
    ASSUME NEW v, NEW w, Consistent(v), Consistent(w), Behind(v, w),
           NEW c, IsCall(c), Seen(c, v), NEW ix, Planned(c, ix), Current(c, ix, v)
    PROVE  Current(c, ix, w)
<1>1. /\ v.inventory_version \in Nat /\ w.inventory_version \in Nat
      /\ v.inventory_version <= w.inventory_version
      /\ v.next_index \in Nat /\ w.next_index \in Nat /\ v.next_index <= w.next_index
  BY DEF Consistent, Behind
<1>2. ASSUME ix.op = "buy"
      PROVE  /\ ix.version <= w.inventory_version /\ ix.sold <= w.next_index
             /\ ix.version = w.inventory_version /\ ix.sold = w.next_index =>
                  ix.offered \subseteq Offers(w, ix.seed)
             /\ \A p \in Position : p < ix.version /\ w.tags[p] # 0 =>
                  <<p, w.tags[p]>> \in ix.shown
  <2>1. /\ ix.version \in Nat /\ ix.version <= v.inventory_version
        /\ ix.sold \in Nat /\ ix.sold <= v.next_index /\ ix.seed \in Seeds
    BY <1>2 DEF Planned, Current, SettleIx, DeliverIx, RefundIx, IsCall
  <2>2. ASSUME NEW p \in Position, p < ix.version, w.tags[p] # 0
        PROVE  v.tags[p] = w.tags[p]
    <3>1. p < v.inventory_version
      BY <1>1, <2>1, <2>2, BoundAssumption DEF Position
    <3> QED
      BY <2>2, <3>1 DEF Behind
  <2>3. ASSUME ix.version = w.inventory_version, ix.sold = w.next_index
        PROVE  ix.offered \subseteq Offers(w, ix.seed)
    <3>1. /\ v.inventory_version = w.inventory_version /\ v.next_index = w.next_index
          /\ ix.version = v.inventory_version /\ ix.sold = v.next_index
      BY <1>1, <2>1, <2>3
    <3>2. ix.offered \subseteq Offers(v, ix.seed)
      BY <1>2, <3>1 DEF Current
    <3>3. Offers(v, ix.seed) \subseteq Offers(w, ix.seed)
      BY <2>1, <3>1 DEF Behind, StillOffers
    <3> QED
      BY <3>2, <3>3
  <2>4. ix.version <= w.inventory_version /\ ix.sold <= w.next_index
    BY <1>1, <2>1
  <2> QED
    BY <1>2, <2>2, <2>3, <2>4 DEF Current
<1>3. ASSUME ix.op = "refund", OpenIn(w, c.seed, c.index)
      PROVE  ix.buyer = w.pulls[c.seed].buyer
  <2>1. c.op # "buy" /\ c.seed \in Seeds
    BY <1>3 DEF Planned, IsCall
  <2>2. OpenIn(v, c.seed, c.index) /\ v.pulls[c.seed] = w.pulls[c.seed]
    BY <1>3, <2>1, OpenBefore DEF Seen
  <2> QED
    BY <1>3, <2>2 DEF Current
<1> QED
  BY <1>2, <1>3 DEF Current

\* And so does a group.
LEMMA GroupLater ==
    ASSUME NEW v, NEW w, Consistent(v), Consistent(w), Behind(v, w),
           NEW c, IsCall(c), Seen(c, v), NEW group, NEW first, NEW may, first => may,
           IsGroup(c, v, group, first)
    PROVE  IsGroup(c, w, group, may)
<1>1. \A k \in DOMAIN group : Planned(c, group[k]) /\ Current(c, group[k], v)
  BY DEF IsGroup
<1>2. \A k \in DOMAIN group : Current(c, group[k], w)
  BY <1>1, CurrentLater
<1> QED
  BY <1>2 DEF IsGroup


-----------------------------------------------------------------------------
(* Sequences, and how deliveries are grouped.                              *)

\* A sequence lists its own elements.
LEMMA SeqIs ==
    ASSUME NEW S, NEW q \in Seq(S)
    PROVE  IsSeq(q) /\ Len(q) \in Nat /\ DOMAIN q = 1 .. Len(q)
<1>1. Len(q) \in Nat /\ DOMAIN q = 1 .. Len(q) /\ q \in [1 .. Len(q) -> S]
  BY LenProperties
<1>2. q \in [1 .. Len(q) -> {q[i] : i \in DOMAIN q}]
  BY <1>1
<1>3. q \in Seq({q[i] : i \in DOMAIN q})
  BY <1>1, <1>2, SeqOfFunction
<1> QED
  BY <1>1, <1>3 DEF IsSeq

\* The head and the tail of one that is not empty.
LEMMA SeqParts ==
    ASSUME NEW q, IsSeq(q), q # <<>>
    PROVE  /\ Len(q) \in Nat \ {0} /\ DOMAIN q = 1 .. Len(q) /\ 1 \in DOMAIN q
           /\ Head(q) = q[1]
           /\ IsSeq(Tail(q)) /\ DOMAIN Tail(q) = 1 .. Len(q) - 1
           /\ (Tail(q) = <<>> <=> Len(q) = 1)
           /\ \A k \in DOMAIN Tail(q) : k + 1 \in DOMAIN q /\ Tail(q)[k] = q[k + 1]
<1>1. PICK S : q \in Seq(S)
  BY DEF IsSeq
<1>2. Len(q) \in Nat /\ DOMAIN q = 1 .. Len(q) /\ Len(q) # 0
  BY <1>1, LenProperties, EmptySeq
<1>3. /\ Tail(q) \in Seq(S) /\ Len(Tail(q)) = Len(q) - 1
      /\ \A k \in 1 .. Len(Tail(q)) : Tail(q)[k] = q[k + 1]
  BY <1>1, HeadTailProperties
<1>4. IsSeq(Tail(q)) /\ DOMAIN Tail(q) = 1 .. Len(q) - 1
  BY <1>3, SeqIs
<1>5. Head(q) = q[1]
  BY <1>1, <1>2
<1>6. Tail(q) = <<>> <=> Len(Tail(q)) = 0
  BY <1>3, EmptySeq
<1> QED
  BY <1>2, <1>3, <1>4, <1>5, <1>6

\* One of a single element.
LEMMA SingleSeq ==
    ASSUME NEW x
    PROVE  /\ IsSeq(<<x>>) /\ <<x>> # <<>> /\ DOMAIN <<x>> = {1} /\ <<x>>[1] = x
           /\ Head(<<x>>) = x
<1>1. <<x>> \in Seq({x}) /\ Len(<<x>>) = 1
  OBVIOUS
<1>2. IsSeq(<<x>>) /\ DOMAIN <<x>> = 1 .. 1
  BY <1>1, SeqIs
<1>3. 1 .. 1 = {1}
  OBVIOUS
<1> QED
  BY <1>2, <1>3

\* One of none.
LEMMA NoneSeq == IsSeq(<<>>) /\ DOMAIN <<>> = {}
<1>1. <<>> \in Seq({}) /\ Len(<<>>) = 0
  OBVIOUS
<1>2. IsSeq(<<>>) /\ DOMAIN <<>> = 1 .. 0
  BY <1>1, SeqIs
<1> QED
  BY <1>2

\* The element a of a group: one of those that come first, or a delivery.
Part(initial, deliveries, group, k, shift, a) ==
    \/ k = 1 /\ a \in DOMAIN initial /\ group[a] = initial[a]
    \/ /\ k = 1 => a \notin DOMAIN initial
       /\ a + shift \in DOMAIN deliveries /\ group[a] = deliveries[a + shift]

\* batches makes groups of consecutive deliveries, none of them empty.
LEMMA GroupsParts ==
    ASSUME NEW S, NEW initial \in Seq(S), NEW deliveries \in Seq(S),
           NEW groups, groups = Groups(initial, deliveries)
    PROVE  /\ IsSeq(groups)
           /\ initial # <<>> /\ groups # <<>> => groups[1][1] = initial[1]
           /\ \A k \in DOMAIN groups :
                /\ k \in Nat \ {0} /\ IsSeq(groups[k]) /\ groups[k] # <<>>
                /\ DOMAIN groups[k] \subseteq Nat \ {0}
                /\ \E shift \in Int : \A a \in DOMAIN groups[k] :
                     Part(initial, deliveries, groups[k], k, shift, a)
<1>1. PICK room \in Nat : room = (IF initial = <<>> THEN Batch ELSE FirstBatch)
  BY RelayAssumption
<1>2. PICK n \in Nat : n = Len(deliveries)
  BY LenProperties
<1>3. PICK h \in Nat : h = Len(initial)
  BY LenProperties
<1>4. DOMAIN initial = 1 .. h /\ DOMAIN deliveries = 1 .. n
      /\ \A i \in 1 .. n : deliveries[i] \in S
  BY <1>2, <1>3, LenProperties
<1> DEFINE m == Least(room, n)
           first == initial \o SubSeq(deliveries, 1, m)
           rest == SubSeq(deliveries, room + 1, n)
           others == [k \in 1 .. (Len(rest) + Batch - 1) \div Batch |->
                        SubSeq(rest, (k - 1) * Batch + 1, Least(k * Batch, Len(rest)))]
<1>5. groups = IF first = <<>> THEN <<>> ELSE <<first>> \o others
  BY <1>1, <1>2 DEF Groups
<1>6. m \in 0 .. n /\ m <= room
  BY DEF Least
<1>7. /\ first \in Seq(S) /\ Len(first) = h + m
      /\ \A a \in 1 .. h + m : first[a] = IF a <= h THEN initial[a] ELSE deliveries[a - h]
  <2> HIDE DEF m
  <2>1. \A i \in 1 .. m : deliveries[i] \in S
    BY <1>4, <1>6
  <2>2. PICK start : start = SubSeq(deliveries, 1, m)
    OBVIOUS
  <2>3. /\ start \in Seq(S) /\ Len(start) = m
        /\ \A i \in 1 .. m : start[i] = deliveries[i]
    <3>1. m \in Int /\ 1 \in Int
      BY <1>6
    <3>2. /\ SubSeq(deliveries, 1, m) \in Seq(S)
          /\ Len(SubSeq(deliveries, 1, m)) = IF 1 <= m THEN m - 1 + 1 ELSE 0
          /\ \A i \in 1 .. m - 1 + 1 : SubSeq(deliveries, 1, m)[i] = deliveries[1 + i - 1]
      BY <2>1, <3>1, SubSeqProperties
    <3> QED
      BY <1>6, <2>2, <3>2
  <2>4. /\ initial \o start \in Seq(S) /\ Len(initial \o start) = Len(initial) + Len(start)
        /\ \A a \in 1 .. Len(initial) + Len(start) :
             (initial \o start)[a] = IF a <= Len(initial) THEN initial[a]
                                                         ELSE start[a - Len(initial)]
    BY <2>3, ConcatProperties
  <2> QED
    BY <1>3, <1>6, <2>2, <2>3, <2>4
<1>8. PICK l \in Nat : l = (IF room + 1 <= n THEN n - room ELSE 0)
  <2>1. room + 1 <= n => n - room \in Nat
    OBVIOUS
  <2>2. (IF room + 1 <= n THEN n - room ELSE 0) \in Nat
    BY <2>1
  <2> QED
    BY <2>2
<1>9. /\ rest \in Seq(S) /\ Len(rest) = l
      /\ \A i \in 1 .. l : i + room \in 1 .. n /\ rest[i] = deliveries[i + room]
      /\ \A i \in 1 .. l : rest[i] \in S
  <2>1. \A i \in room + 1 .. n : deliveries[i] \in S
    BY <1>4
  <2>2. /\ rest \in Seq(S) /\ Len(rest) = IF room + 1 <= n THEN n - (room + 1) + 1 ELSE 0
        /\ \A i \in 1 .. n - (room + 1) + 1 : rest[i] = deliveries[room + 1 + i - 1]
    <3>1. room + 1 \in Int /\ n \in Int
      OBVIOUS
    <3>2. /\ SubSeq(deliveries, room + 1, n) \in Seq(S)
          /\ Len(SubSeq(deliveries, room + 1, n))
               = IF room + 1 <= n THEN n - (room + 1) + 1 ELSE 0
          /\ \A i \in 1 .. n - (room + 1) + 1 :
               SubSeq(deliveries, room + 1, n)[i] = deliveries[room + 1 + i - 1]
      BY <2>1, <3>1, SubSeqProperties
    <3>3. rest = SubSeq(deliveries, room + 1, n)
      BY <1>2
    <3> QED
      BY <3>2, <3>3
  <2>3. ASSUME NEW i \in 1 .. l
        PROVE  i + room \in 1 .. n /\ rest[i] = deliveries[i + room]
    <3> HIDE DEF rest
    <3>1. i \in 1 .. n - (room + 1) + 1 /\ room + 1 + i - 1 = i + room
      BY <1>8
    <3> QED
      BY <1>8, <2>2, <3>1
  <2> HIDE DEF rest
  <2> QED
    BY <1>4, <1>8, <2>2, <2>3
<1>10. PICK b \in Nat \ {0} : b = Batch
  BY RelayAssumption
<1>11. PICK q \in Nat : q = (l + b - 1) \div b
  <2>1. l + b - 1 \in Nat
    OBVIOUS
  <2> QED
    BY <2>1
<1>12. others = [k \in 1 .. q |-> SubSeq(rest, (k - 1) * b + 1, Least(k * b, l))]
  BY <1>9, <1>10, <1>11
<1>13. ASSUME NEW k \in 1 .. q
       PROVE  /\ others[k] \in Seq(S) /\ Len(others[k]) \in Nat \ {0}
              /\ \E shift \in Nat : \A a \in 1 .. Len(others[k]) :
                   a + shift \in 1 .. n /\ others[k][a] = deliveries[a + shift]
  <2>1. PICK before \in Nat : before = (k - 1) * b
    OBVIOUS
  <2>2. k * b = before + b
    <3>1. b * (k - 1) = b * k - b * 1
      BY ProductMinus
    <3>2. b * k \in Nat
      OBVIOUS
    <3> QED
      BY <2>1, <3>1, <3>2
  <2>3. before + 1 <= l
    <3>1. b * k <= l + b - 1
      BY <1>11, QuotientExact
    <3>2. b * k = before + b
      BY <2>2
    <3> QED
      BY <3>1, <3>2
  <2>4. PICK e \in before + 1 .. l : e = Least(k * b, l)
    BY <2>2, <2>3 DEF Least
  <2>5. others[k] = SubSeq(rest, before + 1, e)
    <3> HIDE DEF others, rest
    <3> QED
      BY <1>12, <2>1, <2>4
  <2> HIDE DEF others, rest
  <2>6. \A i \in before + 1 .. e : rest[i] \in S
    BY <1>9, <2>4
  <2>7. /\ others[k] \in Seq(S)
        /\ Len(others[k]) = IF before + 1 <= e THEN e - (before + 1) + 1 ELSE 0
        /\ \A a \in 1 .. e - (before + 1) + 1 : others[k][a] = rest[before + 1 + a - 1]
    BY <2>5, <2>6, SubSeqProperties
  <2>8. Len(others[k]) = e - before
    BY <2>4, <2>7
  <2>9. ASSUME NEW a \in 1 .. e - before
        PROVE  a + (before + room) \in 1 .. n
               /\ others[k][a] = deliveries[a + (before + room)]
    <3>1. others[k][a] = rest[before + a]
      BY <2>7
    <3>2. before + a \in 1 .. l
      BY <2>4
    <3>3. rest[before + a] = deliveries[before + a + room] /\ before + a + room \in 1 .. n
      BY <1>9, <3>2
    <3> QED
      BY <3>1, <3>3, SMTT(20)
  <2>10. e - before \in Nat \ {0} /\ before + room \in Nat
    BY <2>4
  <2>11. \A a \in 1 .. Len(others[k]) :
           a + (before + room) \in 1 .. n /\ others[k][a] = deliveries[a + (before + room)]
    BY <2>8, <2>9
  <2> QED
    BY <2>7, <2>8, <2>10, <2>11
<1>14. others \in Seq(Seq(S)) /\ Len(others) = q
  <2>1. others \in [1 .. q -> Seq(S)]
    <3> HIDE DEF others
    <3>1. \A k \in 1 .. q : others[k] \in Seq(S)
      BY <1>13
    <3>2. DOMAIN others = 1 .. q /\ others = [k \in 1 .. q |-> others[k]]
      <4> USE DEF others
      <4> QED
        BY <1>12
    <3> QED
      BY <3>1, <3>2
  <2> HIDE DEF others
  <2> QED
    BY <2>1, SeqOfFunction
<1> HIDE DEF m, first, rest, others
<1>15. CASE first = <<>>
  <2>1. groups = <<>>
    BY <1>5, <1>15
  <2> QED
    BY <2>1, NoneSeq
<1>16. CASE first # <<>>
  <2>1. groups = <<first>> \o others
    BY <1>5, <1>16
  <2>2. /\ groups \in Seq(Seq(S)) /\ Len(groups) = 1 + q
        /\ \A k \in 1 .. 1 + q : groups[k] = IF k <= 1 THEN first ELSE others[k - 1]
    <3>1. <<first>> \in Seq(Seq(S)) /\ Len(<<first>>) = 1 /\ <<first>>[1] = first
      BY <1>7
    <3>2. /\ <<first>> \o others \in Seq(Seq(S))
          /\ Len(<<first>> \o others) = Len(<<first>>) + Len(others)
          /\ \A k \in 1 .. Len(<<first>>) + Len(others) :
               (<<first>> \o others)[k] = IF k <= Len(<<first>>) THEN <<first>>[k]
                                                   ELSE others[k - Len(<<first>>)]
      BY <1>14, <3>1, ConcatProperties
    <3>3. ASSUME NEW k \in 1 .. 1 + q, k <= 1 PROVE <<first>>[k] = first
      <4>1. k = 1
        BY <3>3
      <4> QED
        BY <3>1, <4>1
    <3> QED
      BY <1>14, <2>1, <3>1, <3>2, <3>3
  <2>3. IsSeq(groups) /\ DOMAIN groups = 1 .. 1 + q
    BY <2>2, SeqIs
  <2>4. IsSeq(first) /\ DOMAIN first = 1 .. h + m
    BY <1>7, SeqIs
  <2>5. \A a \in DOMAIN first : Part(initial, deliveries, first, 1, 0 - h, a)
    <3> SUFFICES ASSUME NEW a \in 1 .. h + m PROVE Part(initial, deliveries, first, 1, 0 - h, a)
      BY <2>4
    <3>1. CASE a <= h
      BY <1>4, <1>7, <3>1 DEF Part
    <3>2. CASE ~ a <= h
      <4>1. a - h \in 1 .. n /\ a + (0 - h) = a - h
        BY <1>6, <3>2
      <4> QED
        BY <1>4, <1>7, <3>2, <4>1 DEF Part
    <3> QED
      BY <3>1, <3>2
  <2>6. ASSUME initial # <<>> PROVE first[1] = initial[1]
    <3>1. h # 0
      BY <1>3, <2>6, EmptySeq
    <3> QED
      BY <1>6, <1>7, <3>1
  <2>7. ASSUME NEW k \in DOMAIN groups
        PROVE  /\ IsSeq(groups[k]) /\ groups[k] # <<>>
               /\ DOMAIN groups[k] \subseteq Nat \ {0}
               /\ \E shift \in Int : \A a \in DOMAIN groups[k] :
                    Part(initial, deliveries, groups[k], k, shift, a)
    <3>1. CASE k = 1
      <4>1. groups[k] = first
        BY <2>2, <2>3, <3>1
      <4>2. DOMAIN first \subseteq Nat \ {0} /\ 0 - h \in Int
        BY <2>4
      <4> QED
        BY <1>16, <2>4, <2>5, <3>1, <4>1, <4>2
    <3>2. CASE k # 1
      <4>1. PICK j \in 1 .. q : j = k - 1 /\ groups[k] = others[j]
        BY <2>2, <2>3, <3>2
      <4>2. IsSeq(others[j]) /\ DOMAIN others[j] = 1 .. Len(others[j]) /\ others[j] # <<>>
        BY <1>13, SeqIs, EmptySeq
      <4>3. PICK shift \in Nat : \A a \in 1 .. Len(others[j]) :
              a + shift \in 1 .. n /\ others[j][a] = deliveries[a + shift]
        BY <1>13
      <4>4. \A a \in DOMAIN groups[k] : Part(initial, deliveries, groups[k], k, shift, a)
        BY <1>4, <3>2, <4>1, <4>2, <4>3 DEF Part
      <4>5. DOMAIN groups[k] \subseteq Nat \ {0}
        BY <1>13, <4>1, <4>2
      <4> QED
        BY <4>1, <4>2, <4>4, <4>5
    <3> QED
      BY <3>1, <3>2
  <2>8. 1 \in 1 .. 1 + q /\ groups[1] = first
    BY <2>2
  <2>9. DOMAIN groups \subseteq Nat \ {0}
    BY <2>3
  <2> QED
    BY <2>3, <2>6, <2>7, <2>8, <2>9
<1> QED
  BY <1>15, <1>16


-----------------------------------------------------------------------------
(* What the answers to the requests of a call tell.                        *)

\* The ledger after a step, like any other, is consistent.
LEMMA NextConsistent ==
    ASSUME Sound', NEW w, w = Ledger'
    PROVE  Consistent(w)
<1>1. (Sound => Consistent(Ledger))'
  BY PresentConsistent, PTL
<1>2. Consistent(Ledger)'
  BY <1>1
<1>3. Consistent(Ledger')
  BY <1>2
<1> QED
  BY <1>3

\* Both nodes answer with consistent ledgers that are not ahead of the present.
LEMMA ViewFacts ==
    ASSUME LedgerOK, NEW v \in Views
    PROVE  /\ Consistent(v) /\ Behind(v, Ledger) /\ v.slot \in Nat /\ v.slot <= slot
           /\ Consistent(Ledger) /\ slot \in Nat
           /\ Consistent(lagging) /\ lagging.slot \in Nat /\ lagging.slot < slot
           /\ v = lagging \/ (v = Ledger /\ v.slot = slot)
<1>1. Consistent(Ledger) /\ Consistent(lagging) /\ lagging.slot < slot
      /\ Behind(lagging, Ledger)
  BY PresentConsistent DEF LedgerOK
<1>2. Behind(Ledger, Ledger)
  BY <1>1, BehindItself
<1>3. Ledger.slot \in Nat /\ lagging.slot \in Nat
  BY <1>1 DEF Consistent
<1>4. Ledger.slot = slot
  BY LedgerFields
<1> QED
  BY <1>1, <1>2, <1>3, <1>4 DEF Views

\* A request that names the slot of the last answer is answered by a ledger in
\* which the purchase was seen, or by a later one.
LEMMA ReadSeen ==
    ASSUME LedgerOK, CallOK, call # NoCall, NEW v \in Views, Recent(v),
           call.stage \in {"snapshot", "items", "assets"}
    PROVE  Seen(call, v) /\ Seen(call, Ledger) /\ IsCall(call)
<1>1. v = lagging \/ v = Ledger
  BY ViewFacts
<1>2. call.minimum \in Nat /\ IsCall(call)
  BY DEF CallOK, KnownCall, IsCall
<1>3. v.slot >= call.minimum => call.minimum <= v.slot
  BY <1>2, ViewFacts
<1> QED
  BY <1>1, <1>2, <1>3 DEF CallOK, KnownCall, Recent

\* What a call has seen in a view, it knows from then on.
LEMMA NowSeen ==
    ASSUME LedgerOK, NEW v \in Views, NEW c, IsCall(c), Seen(c, v), c.minimum = v.slot
    PROVE  /\ Seen(c, Ledger) /\ c.minimum <= slot
           /\ c.minimum <= lagging.slot => Seen(c, lagging)
<1>1. Seen(c, Ledger)
  BY ViewFacts, SeenLater
<1>2. CASE v = lagging
  BY <1>1, <1>2, ViewFacts
<1>3. CASE v = Ledger /\ v.slot = slot
  BY <1>1, <1>3, ViewFacts
<1> QED
  BY <1>2, <1>3, ViewFacts

\* A group in the plan may come first, if it must not.
LEMMA GroupMay ==
    ASSUME NEW c, NEW v, NEW group, NEW first, NEW may, first => may,
           IsGroup(c, v, group, first)
    PROVE  IsGroup(c, v, group, may)
BY DEF IsGroup

\* The plan under way is that of the call.
LEMMA BeginsOps ==
    ASSUME CallOK, PlanOK, NEW op, Begins(op)
    PROVE  /\ call # NoCall /\ call.stage = "sent" /\ IsCall(call) /\ Seen(call, Ledger)
           /\ op = "settle" => call.op = "settle"
           /\ op = "deliver" => call.op \in {"settle", "deliver"}
<1>1. call # NoCall /\ call.stage = "sent"
  BY DEF PlanOK, Begins
<1>2. IsCall(call) /\ Seen(call, Ledger)
  BY <1>1 DEF CallOK, KnownCall
<1>3. PICK group, first : IsGroup(call, Ledger, group, first) /\ Head(group).op = op
  <2>1. CASE tx # NoTx /\ Head(tx.left).op = op
    BY <2>1 DEF PlanOK
  <2>2. CASE tx = NoTx /\ outbox # <<>> /\ Head(Head(outbox)).op = op
    <3>1. 1 \in DOMAIN outbox /\ Head(outbox) = outbox[1]
      BY <2>2, SeqParts DEF PlanOK
    <3>2. IsGroup(call, Ledger, outbox[1], 1 = 1 /\ tx = NoTx)
      BY <3>1 DEF PlanOK
    <3> QED
      BY <2>2, <3>1, <3>2
  <2> QED
    BY <2>1, <2>2 DEF Begins
<1>4. 1 \in DOMAIN group /\ Head(group) = group[1]
  BY <1>3, SeqParts DEF IsGroup
<1>5. Planned(call, group[1])
  BY <1>3, <1>4 DEF IsGroup
<1> QED
  BY <1>1, <1>2, <1>3, <1>4, <1>5 DEF Planned, SettleIx, DeliverIx, RefundIx

-----------------------------------------------------------------------------
(* Steps of the call alone.                                                *)

\* The ledger and what is seen of it stay.
LEMMA QuietLedger ==
    ASSUME LedgerOK, UNCHANGED <<vars, output, lagging>>
    PROVE  LedgerOK' /\ Ledger' = Ledger /\ slot' = slot
<1>1. UNCHANGED vars
  OBVIOUS
<1>2. [Next]_vars /\ UNCHANGED <<status, terms>> /\ slot' = slot
  BY <1>1 DEF vars
<1>3. Sound'
  BY <1>2, SoundNext DEF LedgerOK
<1>4. Ledger' = Ledger
  BY <1>1 DEF Ledger, vars, queue, stock
<1> QED
  BY <1>2, <1>3, <1>4 DEF LedgerOK

\* While nothing is planned, what the call knows is all there is to say.
LEMMA CallMoves ==
    ASSUME RelayInv, UNCHANGED <<vars, output, lagging, tx>>, tx = NoTx, outbox' = <<>>,
           NEW c, c = call', KnownCall(c), Knows(c),
           RefusedOnlyWhenOvertaken', FailsOnlyWhenOvertaken'
    PROVE  RelayInv'
<1>1. LedgerOK' /\ Ledger' = Ledger /\ slot' = slot
  BY QuietLedger DEF RelayInv
<1>2. CallOK'
  BY <1>1 DEF CallOK, KnownCall
<1>3. PlanOK'
  BY NoneSeq DEF PlanOK
<1>4. KnowledgeOK'
  <2>1. \A op : ~ Begins(op)'
    BY DEF Begins
  <2>2. Knows(call)'
    BY <1>1 DEF Knows
  <2> QED
    BY <2>1, <2>2 DEF KnowledgeOK
<1> QED
  BY <1>1, <1>2, <1>3, <1>4 DEF RelayInv

\* And when it returns its plan, what the plan rests on.
LEMMA PlanMoves ==
    ASSUME RelayInv, UNCHANGED <<vars, output, lagging, tx>>, tx = NoTx,
           NEW c, c = call', KnownCall(c), c.stage = "sent",
           NEW groups, groups = outbox', IsSeq(groups),
           \A g \in DOMAIN groups : IsGroup(c, Ledger, groups[g], g = 1),
           groups # <<>> => Head(Head(groups)).op = c.op,
           c.op = "settle" => Prepared(c, Ledger, output),
           c.op = "deliver" => Due(c, Ledger)
    PROVE  RelayInv'
<1>1. LedgerOK' /\ Ledger' = Ledger /\ slot' = slot
  BY QuietLedger DEF RelayInv
<1>2. c # NoCall
  BY DEF NoCall
<1>3. CallOK'
  BY <1>1 DEF CallOK, KnownCall
<1>4. PlanOK'
  <2>1. \A g \in DOMAIN groups : IsGroup(c, Ledger, groups[g], g = 1 /\ tx' = NoTx)
    BY GroupMay
  <2>2. tx' = NoTx
    OBVIOUS
  <2> QED
    BY <1>1, <1>2, <2>1, <2>2 DEF PlanOK
<1>5. KnowledgeOK'
  <2>1. \A op : Begins(op)' => c.op = op
    BY DEF Begins
  <2>2. Knows(call)'
    BY DEF Knows
  <2>3. Begins("settle")' => Prepared(call, Ledger, output)'
    BY <1>1, <2>1
  <2>4. Begins("deliver")' => Due(call, Ledger)'
    BY <1>1, <2>1
  <2> QED
    BY <2>2, <2>3, <2>4 DEF KnowledgeOK
<1>6. RefusedOnlyWhenOvertaken' /\ FailsOnlyWhenOvertaken'
  BY DEF RefusedOnlyWhenOvertaken, FailsOnlyWhenOvertaken
<1> QED
  BY <1>1, <1>3, <1>4, <1>5, <1>6 DEF RelayInv


\* No call is under way: a call has a stage.
LEMMA CallIs == ASSUME NEW c, IsCall(c) PROVE c # NoCall
<1>1. c.stage # "none"
  BY DEF IsCall, Stages
<1>2. NoCall.stage = "none"
  BY DEF NoCall
<1> QED
  BY <1>1, <1>2

\* A call that comes to another stage is otherwise the same.
LEMMA StageFields ==
    ASSUME NEW d, IsCall(d), NEW stage \in Stages, NEW c, c = [d EXCEPT !.stage = stage]
    PROVE  /\ IsCall(c) /\ c.stage = stage /\ c.op = d.op /\ c.seed = d.seed
           /\ c.minimum = d.minimum /\ c.index = d.index /\ c.buyer = d.buyer
           /\ c.draws = d.draws /\ c.owed = d.owed
BY DEF IsCall

\* A call that has planned nothing can be dropped, or answered with a refusal.
LEMMA CallEnds ==
    ASSUME RelayInv, tx = NoTx, call.stage # "sent", call # NoCall
    PROVE  /\ outbox = <<>> /\ IsCall(call)
           /\ Abandons => RelayInv'
           /\ /\ Ends("refused") /\ RefusedOnlyWhenOvertaken'
              /\ call.stage \in {"snapshot", "items", "assets"} /\ Seen(call, Ledger)
              => RelayInv'
<1>1. outbox = <<>> /\ IsCall(call)
  BY DEF RelayInv, PlanOK, CallOK, KnownCall
<1>2. ASSUME Abandons PROVE RelayInv'
  <2>1. call' = NoCall /\ UNCHANGED <<vars, output, lagging, tx>> /\ outbox' = <<>>
    BY <1>1, <1>2 DEF Abandons, Becomes
  <2>2. KnownCall(NoCall) /\ Knows(NoCall)
    BY DEF KnownCall, Knows
  <2>3. RefusedOnlyWhenOvertaken' /\ FailsOnlyWhenOvertaken'
    BY <2>1 DEF NoCall, RefusedOnlyWhenOvertaken, FailsOnlyWhenOvertaken
  <2> QED
    BY <2>1, <2>2, <2>3, CallMoves
<1>3. ASSUME Ends("refused"), RefusedOnlyWhenOvertaken', Seen(call, Ledger),
             call.stage \in {"snapshot", "items", "assets"}
      PROVE  RelayInv'
  <2>1. /\ call' = [call EXCEPT !.stage = "refused"]
        /\ UNCHANGED <<vars, output, lagging, tx>> /\ outbox' = <<>>
    BY <1>1, <1>3 DEF Ends, Becomes
  <2>2. PICK c : c = call'
    OBVIOUS
  <2>3. /\ IsCall(c) /\ c.stage = "refused" /\ c.op = call.op /\ c.seed = call.seed
        /\ c.minimum = call.minimum /\ c.index = call.index
    BY <1>1, <2>1, <2>2, StageFields DEF Stages
  <2>4. KnownCall(c)
    BY <1>3, <2>3 DEF RelayInv, CallOK, KnownCall, Remembers, Seen
  <2>5. Knows(c)
    BY <2>3 DEF Knows
  <2>6. FailsOnlyWhenOvertaken'
    BY <2>2, <2>3 DEF FailsOnlyWhenOvertaken
  <2> QED
    BY <1>3, <2>1, <2>2, <2>4, <2>5, <2>6, CallMoves
<1> QED
  BY <1>1, <1>2, <1>3

\* The program does not refuse a call before it has answered anything.
LEMMA StartKeeps ==
    ASSUME RelayInv, NEW op \in {"buy", "settle", "refund", "deliver"}, NEW s \in Seeds,
           Start(op, s)
    PROVE  RelayInv'
<1>1. /\ call' = [stage |-> "first", op |-> op, seed |-> s, minimum |-> 0, index |-> 0,
                  buyer |-> Authority, draws |-> <<>>, owed |-> <<>>, ix |-> NoTx,
                  at |-> 0]
      /\ UNCHANGED <<vars, output, lagging, tx>> /\ tx = NoTx /\ outbox' = <<>>
  BY DEF Start, Idle, Becomes
<1>2. PICK c : c = call'
  OBVIOUS
<1>3. /\ c.stage = "first" /\ c.op = op /\ c.seed = s /\ c.minimum = 0 /\ c.index = 0
      /\ c.buyer = Authority /\ c.draws = <<>> /\ c.owed = <<>> /\ c.ix = NoTx /\ c.at = 0
      /\ c = [stage |-> c.stage, op |-> c.op, seed |-> c.seed, minimum |-> c.minimum,
              index |-> c.index, buyer |-> c.buyer, draws |-> c.draws, owed |-> c.owed,
              ix |-> c.ix, at |-> c.at]
  BY <1>1, <1>2
<1>4. IsCall(c)
  <2>1. c.draws \in Seq(Position) /\ Len(c.draws) <= MaxCount
    BY <1>3, BoundAssumption
  <2>2. Authority \in Wallets
    BY AccountAssumption
  <2> QED
    BY <1>3, <2>1, <2>2, NoneSeq DEF IsCall, Stages
<1>5. slot \in Nat
  BY ViewFacts DEF RelayInv, Views
<1>6. KnownCall(c) /\ Knows(c)
  BY <1>3, <1>4, <1>5 DEF KnownCall, Remembers, Knows
<1>7. RefusedOnlyWhenOvertaken' /\ FailsOnlyWhenOvertaken'
  BY <1>2, <1>3 DEF RefusedOnlyWhenOvertaken, FailsOnlyWhenOvertaken
<1> QED
  BY <1>1, <1>2, <1>6, <1>7, CallMoves

\* A call that is answered too late, or has nothing to do, says nothing.
LEMMA TooOldKeeps ==
    ASSUME RelayInv, tx = NoTx, NEW v \in Views, TooOld(v)
    PROVE  RelayInv'
BY CallEnds DEF TooOld, NoCall

\* A purchase is planned from the stock it shows.
LEMMA ReadHeaderKeeps ==
    ASSUME RelayInv, tx = NoTx, NEW v \in Views, NEW n \in 1 .. MaxCount, ReadHeader(v, n)
    PROVE  RelayInv'
<1>1. call.stage = "first" /\ call.op = "buy"
  BY DEF ReadHeader
<1>2. call # NoCall
  BY <1>1 DEF NoCall
<1>3. IsCall(call) /\ outbox = <<>>
  BY <1>1, <1>2, CallEnds
<1>4. CASE Abandons
  BY <1>1, <1>2, <1>4, CallEnds
<1> DEFINE shown == {<<p, v.tags[p]>> : p \in {q \in Position : v.tags[q] # 0}}
           ix == BuyIx(call.seed, Authority, n, v)
<1>5. ASSUME Returns(<<<<ix>>>>)
      PROVE  RelayInv'
  <2>1. /\ UNCHANGED <<vars, output, lagging, tx>> /\ outbox' = <<<<ix>>>>
        /\ call' = [call EXCEPT !.stage = "sent"]
    BY <1>5 DEF Returns
  <2>2. PICK c : c = call'
    OBVIOUS
  <2>3. /\ IsCall(c) /\ c.stage = "sent" /\ c.op = call.op /\ c.seed = call.seed
        /\ c.minimum = call.minimum
    BY <1>3, <2>1, <2>2, StageFields DEF Stages
  <2>4. KnownCall(c)
    <3>1. Seen(c, Ledger)
      BY <1>1, <2>3 DEF Seen
    <3> QED
      BY <1>1, <1>2, <2>3, <3>1 DEF RelayInv, CallOK, KnownCall, Remembers
  <2>5. /\ Consistent(v) /\ Behind(v, Ledger) /\ StillOffers(v, Ledger)
        /\ v.inventory_version \in Nat /\ v.inventory_version <= inventory_version
        /\ v.next_index \in Nat /\ v.next_index <= next_index
    BY ViewFacts, LedgerFields DEF RelayInv, Behind, Consistent
  <2>6. PICK i : i = ix
    OBVIOUS
  <2>7. /\ i.op = "buy" /\ i.seed = c.seed /\ i.buyer = Authority /\ i.count = n
        /\ i.version = v.inventory_version /\ i.shown = shown
        /\ i.sold = v.next_index /\ i.offered = Offers(v, call.seed)
    BY <2>3, <2>6 DEF BuyIx
  <2>8. Planned(c, i)
    BY <1>1, <2>3, <2>5, <2>7 DEF Planned
  <2>9. Current(c, i, Ledger)
    <3>1. ASSUME NEW p \in Position, p < v.inventory_version, tags[p] # 0
          PROVE  <<p, tags[p]>> \in shown
      <4>1. v.tags[p] = tags[p]
        BY <2>5, <3>1, LedgerFields DEF Behind
      <4> QED
        BY <3>1, <4>1
    <3>2. i.version = Ledger.inventory_version /\ i.sold = Ledger.next_index =>
            i.offered \subseteq Offers(Ledger, i.seed)
      <4>1. i.seed = call.seed /\ call.seed \in Seeds
        BY <1>3, <2>3, <2>7 DEF IsCall
      <4> QED
        BY <2>5, <2>7, <4>1 DEF StillOffers
    <3>3. i.version <= Ledger.inventory_version /\ i.sold <= Ledger.next_index
      BY <2>5, <2>7, LedgerFields
    <3> HIDE DEF shown
    <3> QED
      BY <2>5, <2>7, <3>1, <3>2, <3>3, LedgerFields DEF Current
  <2>10. IsGroup(c, Ledger, <<i>>, TRUE)
    BY <2>7, <2>8, <2>9, SingleSeq DEF IsGroup
  <2>11. PICK groups : groups = <<<<i>>>>
    OBVIOUS
  <2>12. /\ IsSeq(groups) /\ DOMAIN groups = {1} /\ groups[1] = <<i>>
         /\ Head(Head(groups)).op = c.op
    BY <1>1, <2>3, <2>7, <2>11, SingleSeq
  <2>13. \A g \in DOMAIN groups : IsGroup(c, Ledger, groups[g], g = 1)
    BY <2>10, <2>12
  <2>14. groups = outbox' /\ c.op = "buy"
    BY <1>1, <2>1, <2>3, <2>6, <2>11
  <2> HIDE DEF ix
  <2> QED
    BY <2>1, <2>2, <2>3, <2>4, <2>12, <2>13, <2>14, PlanMoves
<1> QED
  BY <1>4, <1>5 DEF ReadHeader

\* The pull is found: it is there, or it was.
LEMMA DiscoverKeeps ==
    ASSUME RelayInv, tx = NoTx, NEW v \in Views, Discover(v)
    PROVE  RelayInv'
<1>1. call.stage = "first" /\ call.op \in {"settle", "refund"}
  BY DEF Discover
<1>2. call # NoCall
  BY <1>1 DEF NoCall
<1>3. IsCall(call) /\ outbox = <<>>
  BY <1>1, <1>2, CallEnds
<1>4. CASE Abandons
  BY <1>1, <1>2, <1>4, CallEnds
<1>5. ASSUME v.pulls[call.seed] # NoPull,
             Becomes([call EXCEPT !.stage = "snapshot", !.minimum = v.slot,
                                  !.index = v.pulls[call.seed].index])
      PROVE  RelayInv'
  <2>1. PICK c : c = call'
    OBVIOUS
  <2>2. /\ UNCHANGED <<vars, output, lagging, tx>> /\ outbox' = <<>>
        /\ c = [call EXCEPT !.stage = "snapshot", !.minimum = v.slot,
                            !.index = v.pulls[call.seed].index]
    BY <1>3, <1>5, <2>1 DEF Becomes
  <2>3. call.seed \in Seeds
    BY <1>3 DEF IsCall
  <2>4. Consistent(v) /\ v.slot \in Nat
    BY ViewFacts DEF RelayInv
  <2>5. /\ v.pulls[call.seed].index \in Nat /\ v.pulls[call.seed].index < v.next_index
        /\ Waiting(v, call.seed) \/ Settled(v, call.seed)
    BY <1>5, <2>3, <2>4, ViewNumbers
  <2>6. /\ IsCall(c) /\ c.stage = "snapshot" /\ c.op = call.op /\ c.seed = call.seed
        /\ c.minimum = v.slot /\ c.index = v.pulls[call.seed].index
    BY <1>3, <2>2, <2>4, <2>5 DEF IsCall, Stages
  <2>7. Seen(c, v)
    <3>1. c.index < v.next_settle \/ OpenIn(v, c.seed, c.index)
      BY <2>3, <2>4, <2>5, <2>6 DEF Consistent, OpenIn
    <3> QED
      BY <1>1, <2>5, <2>6, <3>1 DEF Seen
  <2>8. KnownCall(c)
    <3>1. /\ Seen(c, Ledger) /\ c.minimum <= slot
          /\ c.minimum <= lagging.slot => Seen(c, lagging)
      BY <2>6, <2>7, NowSeen DEF RelayInv
    <3> QED
      BY <1>1, <2>6, <3>1 DEF KnownCall, Remembers
  <2>9. Knows(c)
    BY <2>6 DEF Knows
  <2>10. RefusedOnlyWhenOvertaken' /\ FailsOnlyWhenOvertaken'
    BY <2>1, <2>6 DEF RefusedOnlyWhenOvertaken, FailsOnlyWhenOvertaken
  <2> QED
    BY <2>1, <2>2, <2>8, <2>9, <2>10, CallMoves
<1> QED
  BY <1>4, <1>5 DEF Discover


\* The purchase in the present ledger, and what is owed of it.
LEMMA PresentPurchase ==
    ASSUME NEW s, NEW index, NEW asset
    PROVE  /\ Open(s, index) <=> OpenIn(Ledger, s, index)
           /\ Owed(s, index, asset) <=> OwedIn(Ledger, s, index, asset)
           /\ Waiting(Ledger, s) <=> IsPending(s)
           /\ Settled(Ledger, s) <=> IsSettled(s)
           /\ SettledIn(Ledger, s, index) <=> IsSettled(s) /\ pulls[s].index = index
BY LedgerFields
   DEF Open, OpenIn, Owed, OwedIn, SettledIn, Settled, Waiting, IsPending, IsSettled

\* A settlement is planned for the head of the queue, with the program's draws.
LEMMA SnapshotPlans ==
    ASSUME RelayInv, NEW v \in Views, pending(v, call.seed), IsCall(call),
           call.op = "settle",
           NEW c, c = [call EXCEPT !.stage = "items", !.minimum = v.slot,
                                   !.index = v.pulls[call.seed].index,
                                   !.buyer = v.pulls[call.seed].buyer,
                                   !.draws = PlanDraws(v, call.seed, output[call.seed])]
    PROVE  KnownCall(c) /\ Knows(c) /\ c.stage = "items"
<1> DEFINE s == call.seed
<1>1. s \in Seeds
  BY DEF IsCall
<1>2. Consistent(v) /\ Behind(v, Ledger) /\ v.slot \in Nat /\ Consistent(Ledger)
  BY ViewFacts DEF RelayInv
<1>3. Waiting(v, s) /\ v.pulls[s].index = v.next_settle
  BY DEF pending, NextInQueue
<1>4. /\ v.pulls[s].index \in Nat /\ v.pulls[s].buyer \in Wallets
      /\ v.pulls[s].count \in 1 .. MaxCount /\ v.pulls[s].index < v.next_index
  BY <1>1, <1>2, <1>3, ViewNumbers DEF Waiting
<1>5. output \in [Seeds -> VRFOutput] /\ output[s] \in VRFOutput
  BY <1>1 DEF RelayInv, LedgerOK
<1>6. PICK d : d = PlanDraws(v, s, output[s])
  OBVIOUS
<1>7. d \in Seq(Position) /\ Len(d) <= MaxCount
  <2>1. d \in [1 .. v.pulls[s].count -> {p \in Position : p < v.pulls[s].inventory_version}]
    BY <1>1, <1>2, <1>3, <1>5, <1>6 DEF Consistent
  <2>2. PICK m \in 1 .. MaxCount : m = v.pulls[s].count
    BY <1>4
  <2>3. d \in [1 .. m -> Position]
    BY <2>1, <2>2
  <2>4. m \in Nat /\ m <= MaxCount
    BY BoundAssumption
  <2>5. d \in Seq(Position) /\ Len(d) = m
    BY <2>3, <2>4, SeqOfFunction
  <2> QED
    BY <2>4, <2>5
<1>8. c = [call EXCEPT !.stage = "items", !.minimum = v.slot, !.index = v.pulls[s].index,
                       !.buyer = v.pulls[s].buyer, !.draws = d]
  BY <1>6
<1>9. /\ IsCall(c) /\ c.stage = "items" /\ c.op = "settle" /\ c.seed = s
      /\ c.minimum = v.slot /\ c.index = v.pulls[s].index /\ c.buyer = v.pulls[s].buyer
      /\ c.draws = d
  BY <1>2, <1>4, <1>7, <1>8 DEF IsCall, Stages
<1>10. Seen(c, v)
  <2>1. v.next_settle \in Nat /\ c.index <= v.next_settle
    BY <1>2, <1>3, <1>9, SMTT(20) DEF Consistent
  <2> QED
    BY <1>3, <1>4, <1>9, <2>1, SMTT(20) DEF Seen, OpenIn
<1>11. /\ Seen(c, Ledger) /\ c.minimum <= slot
       /\ c.minimum <= lagging.slot => Seen(c, lagging)
  BY <1>9, <1>10, NowSeen DEF RelayInv
<1>12. Prepared(c, v, output)
  BY <1>6, <1>9 DEF Prepared
<1>13. Prepared(c, Ledger, output)
  BY <1>2, <1>5, <1>9, <1>10, <1>12, PreparedLater
<1> QED
  BY <1>9, <1>11, <1>13 DEF KnownCall, Remembers, Knows

\* A refund is planned for the head of the queue, to its buyer.
LEMMA SnapshotRefunds ==
    ASSUME RelayInv, tx = NoTx, NEW v \in Views, pending(v, call.seed), IsCall(call),
           call.op = "refund", Seen(call, v), Seen(call, Ledger),
           Returns(<<<<RefundIx(call.seed, v.pulls[call.seed].buyer)>>>>)
    PROVE  RelayInv'
<1> DEFINE s == call.seed
           ix == RefundIx(s, v.pulls[s].buyer)
<1>1. s \in Seeds /\ call.index \in Nat
  BY DEF IsCall
<1>2. Consistent(v) /\ Behind(v, Ledger) /\ Consistent(Ledger)
  BY ViewFacts DEF RelayInv
<1>3. /\ UNCHANGED <<vars, output, lagging, tx>> /\ outbox' = <<<<ix>>>>
      /\ call' = [call EXCEPT !.stage = "sent"]
  BY DEF Returns
<1>4. PICK c : c = call'
  OBVIOUS
<1>5. /\ IsCall(c) /\ c.stage = "sent" /\ c.op = "refund" /\ c.seed = s
      /\ c.minimum = call.minimum /\ c.index = call.index
  BY <1>3, <1>4, StageFields DEF Stages
<1>6. Seen(c, Ledger)
  <2>1. v.next_settle \in Nat /\ next_settle \in Nat /\ v.next_settle <= next_settle
    BY <1>2, LedgerFields DEF Consistent, Behind
  <2>2. call.index <= v.next_settle
    BY <1>1, <2>1 DEF Seen, OpenIn, pending, NextInQueue
  <2>3. c.index <= Ledger.next_settle
    BY <1>1, <1>5, <2>1, <2>2, LedgerFields
  <2> QED
    BY <1>5, <2>3 DEF Seen
<1>7. KnownCall(c)
  <2>1. call.minimum <= slot
    BY CallIs DEF RelayInv, CallOK, KnownCall
  <2> QED
    BY <1>5, <1>6, <2>1 DEF KnownCall, Remembers
<1>8. PICK i : i = ix
  OBVIOUS
<1>9. i = RefundIx(c.seed, i.buyer) /\ i.op = "refund" /\ i.buyer = v.pulls[s].buyer
  BY <1>5, <1>8 DEF RefundIx
<1>10. Planned(c, i)
  BY <1>5, <1>9 DEF Planned
<1>11. Current(c, i, Ledger)
  <2>1. OpenIn(Ledger, s, call.index) => v.pulls[s] = Ledger.pulls[s]
    BY <1>1, <1>2, OpenBefore DEF Seen
  <2> QED
    BY <1>5, <1>9, <2>1 DEF Current
<1>12. IsGroup(c, Ledger, <<i>>, TRUE)
  BY <1>9, <1>10, <1>11, SingleSeq DEF IsGroup
<1>13. PICK groups : groups = <<<<i>>>>
  OBVIOUS
<1>14. /\ IsSeq(groups) /\ DOMAIN groups = {1} /\ groups[1] = <<i>>
       /\ Head(Head(groups)).op = c.op
  BY <1>5, <1>9, <1>13, SingleSeq
<1>15. \A g \in DOMAIN groups : IsGroup(c, Ledger, groups[g], g = 1)
  BY <1>12, <1>14
<1>16. groups = outbox'
  BY <1>3, <1>8, <1>13
<1> HIDE DEF ix
<1> QED
  BY <1>3, <1>4, <1>5, <1>7, <1>14, <1>15, <1>16, PlanMoves

\* The snapshot of an open purchase always decodes.
LEMMA SnapshotKeeps ==
    ASSUME RelayInv, tx = NoTx, NEW v \in Views, Snapshot(v)
    PROVE  RelayInv'
<1>1. call.stage = "snapshot" /\ Recent(v)
  BY DEF Snapshot
<1>2. call # NoCall
  BY <1>1 DEF NoCall
<1>3. IsCall(call) /\ outbox = <<>>
  BY <1>1, <1>2, CallEnds
<1>4. Seen(call, v) /\ Seen(call, Ledger) /\ call.op \in {"settle", "refund"}
  BY <1>1, <1>2, ReadSeen DEF RelayInv, CallOK, KnownCall
<1> DEFINE s == call.seed
           decodes == /\ v.pulls[s] # NoPull
                      /\ IF call.op = "settle" THEN PoolDecodes(v) ELSE HeaderDecodes(v)
<1>5. s \in Seeds /\ Consistent(v) /\ Behind(v, Ledger)
  BY <1>3, ViewFacts DEF IsCall, RelayInv
<1>6. ASSUME ~ decodes, Ends("refused") PROVE RelayInv'
  <2>1. ~ Open(s, call.index)
    <3> SUFFICES ASSUME OpenIn(Ledger, s, call.index) PROVE FALSE
      BY PresentPurchase
    <3>1. OpenIn(v, s, call.index)
      BY <1>4, <1>5, OpenBefore DEF Seen
    <3> QED
      BY <1>5, <1>6, <3>1 DEF OpenIn, Waiting, Consistent, PoolDecodes
  <2>2. call' = [call EXCEPT !.stage = "refused"] /\ UNCHANGED pulls
    BY <1>6 DEF Ends, Becomes, vars
  <2>3. PICK c : c = call'
    OBVIOUS
  <2>4. c.op = call.op /\ c.seed = s /\ c.index = call.index
    BY <1>3, <2>2, <2>3, StageFields DEF Stages
  <2>5. RefusedOnlyWhenOvertaken'
    BY <1>4, <2>1, <2>2, <2>3, <2>4 DEF RefusedOnlyWhenOvertaken, Open, IsPending
  <2> QED
    BY <1>1, <1>2, <1>4, <1>6, <2>5, CallEnds
<1>7. CASE Abandons
  BY <1>1, <1>2, <1>7, CallEnds
<1>8. CASE /\ pending(v, s) /\ call.op = "refund"
           /\ Returns(<<<<RefundIx(s, v.pulls[s].buyer)>>>>)
  BY <1>3, <1>4, <1>8, SnapshotRefunds
<1>9. ASSUME pending(v, s), call.op = "settle",
             Becomes([call EXCEPT !.stage = "items", !.minimum = v.slot,
                                  !.index = v.pulls[s].index, !.buyer = v.pulls[s].buyer,
                                  !.draws = PlanDraws(v, s, output[s])])
      PROVE  RelayInv'
  <2>1. PICK c : c = call'
    OBVIOUS
  <2>2. /\ UNCHANGED <<vars, output, lagging, tx>> /\ outbox' = <<>>
        /\ c = [call EXCEPT !.stage = "items", !.minimum = v.slot,
                            !.index = v.pulls[s].index, !.buyer = v.pulls[s].buyer,
                            !.draws = PlanDraws(v, s, output[s])]
    BY <1>3, <1>9, <2>1 DEF Becomes
  <2>3. KnownCall(c) /\ Knows(c) /\ c.stage = "items"
    BY <1>3, <1>9, <2>2, SnapshotPlans
  <2>4. RefusedOnlyWhenOvertaken' /\ FailsOnlyWhenOvertaken'
    BY <2>1, <2>3 DEF RefusedOnlyWhenOvertaken, FailsOnlyWhenOvertaken
  <2> QED
    BY <2>1, <2>2, <2>3, <2>4, CallMoves
<1> QED
  BY <1>6, <1>7, <1>8, <1>9 DEF Snapshot


\* While the purchase is open, every view that has seen it at the head shows the
\* prizes planned for it.
LEMMA OpenStock ==
    ASSUME LedgerOK, NEW v \in Views, IsCall(call), call.op = "settle",
           call.stage \in {"items", "assets"}, Seen(call, v),
           Prepared(call, Ledger, output), Open(call.seed, call.index)
    PROVE  \A i \in DOMAIN call.draws :
             /\ call.draws[i] \in Position
             /\ v.items[call.draws[i]] = items[call.draws[i]]
             /\ items[call.draws[i]] # NoItem
<1> DEFINE s == call.seed
<1>1. s \in Seeds /\ call.index \in Nat
  BY DEF IsCall
<1>2. Consistent(v) /\ Behind(v, Ledger)
  BY ViewFacts
<1>3. OpenIn(Ledger, s, call.index) /\ IsPending(s)
  BY PresentPurchase DEF Open
<1>4. \A p \in Position : p < pulls[s].inventory_version => v.items[p] = items[p]
  <2>1. call.index < v.next_index /\ call.index <= v.next_settle
    BY DEF Seen
  <2> QED
    BY <1>1, <1>2, <1>3, <2>1, LedgerFields DEF OpenIn, Behind
<1>5. output[s] \in VRFOutput
  BY <1>1 DEF LedgerOK
<1>6. PICK d : d = call.draws
  OBVIOUS
<1>7. d = PlanDraws(Ledger, s, output[s])
  BY <1>3, <1>6 DEF Prepared
<1>8. d \in Draws(s)
  BY <1>1, <1>3, <1>5, <1>7, PlannedDraws DEF LedgerOK
<1>9. ASSUME NEW i \in DOMAIN d
      PROVE  d[i] \in Position /\ d[i] < pulls[s].inventory_version /\ tags[d[i]] # 0
  BY <1>8 DEF Draws, Candidates, Available
<1>10. \A p \in Position : tags[p] # 0 => items[p] # NoItem
  BY DEF LedgerOK, Sound, StockAgrees
<1> QED
  BY <1>4, <1>6, <1>9, <1>10

\* The Items of an open purchase are all there.
LEMMA ReadItemsKeeps ==
    ASSUME RelayInv, tx = NoTx, NEW v \in Views, ReadItems(v)
    PROVE  RelayInv'
<1>1. call.stage = "items" /\ Recent(v)
  BY DEF ReadItems
<1>2. call # NoCall
  BY <1>1 DEF NoCall
<1>3. IsCall(call) /\ outbox = <<>>
  BY <1>1, <1>2, CallEnds
<1>4. Seen(call, v) /\ Seen(call, Ledger) /\ call.op = "settle"
  BY <1>1, <1>2, ReadSeen DEF RelayInv, CallOK, KnownCall
<1>5. Prepared(call, Ledger, output)
  BY <1>1, <1>2, <1>4 DEF RelayInv, KnowledgeOK, Knows
<1>6. call.seed \in Seeds /\ Consistent(v)
  BY <1>3, ViewFacts DEF IsCall, RelayInv
<1>7. Open(call.seed, call.index) =>
        \A i \in DOMAIN call.draws :
          /\ call.draws[i] \in Position
          /\ v.items[call.draws[i]] = items[call.draws[i]]
          /\ items[call.draws[i]] # NoItem
  BY <1>1, <1>3, <1>4, <1>5, OpenStock DEF RelayInv
<1>8. ASSUME \E i \in DOMAIN call.draws : v.items[call.draws[i]] = NoItem, Ends("refused")
      PROVE  RelayInv'
  <2>1. ~ Open(call.seed, call.index)
    BY <1>7, <1>8
  <2>2. call' = [call EXCEPT !.stage = "refused"] /\ UNCHANGED pulls
    BY <1>8 DEF Ends, Becomes, vars
  <2>3. PICK c : c = call'
    OBVIOUS
  <2>4. c.op = call.op /\ c.seed = call.seed /\ c.index = call.index
    BY <1>3, <2>2, <2>3, StageFields DEF Stages
  <2>5. RefusedOnlyWhenOvertaken'
    BY <1>4, <2>1, <2>2, <2>3, <2>4 DEF RefusedOnlyWhenOvertaken, Open, IsPending
  <2> QED
    BY <1>1, <1>2, <1>4, <1>8, <2>5, CallEnds
<1> DEFINE prizes == [i \in DOMAIN call.draws |->
                        [outcome |-> i, asset |-> v.items[call.draws[i]].asset]]
<1>9. ASSUME Becomes([call EXCEPT !.stage = "assets", !.minimum = v.slot, !.owed = prizes])
      PROVE  RelayInv'
  <2>1. PICK c : c = call'
    OBVIOUS
  <2>2. PICK owed : owed = prizes
    OBVIOUS
  <2>3. /\ UNCHANGED <<vars, output, lagging, tx>> /\ outbox' = <<>>
        /\ c = [call EXCEPT !.stage = "assets", !.minimum = v.slot, !.owed = owed]
    BY <1>3, <1>9, <2>1, <2>2 DEF Becomes
  <2>4. v.slot \in Nat
    BY <1>6 DEF Consistent
  <2>5. /\ IsSeq(owed) /\ DOMAIN owed = DOMAIN call.draws
        /\ \A k \in DOMAIN owed : owed[k].outcome = k /\ owed[k].outcome \in 1 .. MaxCount
    <3>1. PICK m \in Nat : m = Len(call.draws) /\ DOMAIN call.draws = 1 .. m /\ m <= MaxCount
      BY <1>3, LenProperties DEF IsCall
    <3>2. owed = [i \in 1 .. m |-> [outcome |-> i, asset |-> v.items[call.draws[i]].asset]]
      BY <2>2, <3>1
    <3>3. owed \in [1 .. m -> {owed[i] : i \in 1 .. m}]
      BY <3>2
    <3>4. IsSeq(owed)
      BY <3>3, SeqOfFunction, SeqIs
    <3>5. \A k \in 1 .. m : owed[k].outcome = k /\ k \in 1 .. MaxCount
      BY <3>1, <3>2, BoundAssumption
    <3> QED
      BY <3>1, <3>2, <3>4, <3>5
  <2>6. /\ c.stage = "assets" /\ c.op = call.op /\ c.seed = call.seed /\ c.minimum = v.slot
        /\ c.index = call.index /\ c.buyer = call.buyer /\ c.draws = call.draws
        /\ c.owed = owed
        /\ c.ix = call.ix /\ c.at = call.at
        /\ c = [stage |-> c.stage, op |-> c.op, seed |-> c.seed, minimum |-> c.minimum,
                index |-> c.index, buyer |-> c.buyer, draws |-> c.draws, owed |-> c.owed,
                ix |-> c.ix, at |-> c.at]
    BY <1>3, <2>3 DEF IsCall
  <2>7. IsCall(c)
    BY <1>3, <2>4, <2>5, <2>6 DEF IsCall, Stages
  <2>8. Seen(c, v)
    BY <1>1, <1>4, <2>6 DEF Seen
  <2>9. KnownCall(c)
    <3>1. /\ Seen(c, Ledger) /\ c.minimum <= slot
          /\ c.minimum <= lagging.slot => Seen(c, lagging)
      BY <2>6, <2>7, <2>8, NowSeen DEF RelayInv
    <3> QED
      BY <1>4, <2>6, <2>7, <3>1 DEF KnownCall, Remembers
  <2>10. Prepared(c, Ledger, output)
    <3> SUFFICES ASSUME OpenIn(Ledger, call.seed, call.index)
                 PROVE  /\ call.buyer = Ledger.pulls[call.seed].buyer
                        /\ call.draws = PlanDraws(Ledger, call.seed, output[call.seed])
                        /\ owed = [i \in DOMAIN call.draws |->
                                     [outcome |-> i,
                                      asset |-> Ledger.items[call.draws[i]].asset]]
      BY <2>6 DEF Prepared
    <3>1. /\ call.buyer = Ledger.pulls[call.seed].buyer
          /\ call.draws = PlanDraws(Ledger, call.seed, output[call.seed])
      BY <1>5 DEF Prepared
    <3>2. \A i \in DOMAIN call.draws : v.items[call.draws[i]] = items[call.draws[i]]
      BY <1>7, PresentPurchase
    <3>3. \A i \in DOMAIN call.draws : v.items[call.draws[i]] = Ledger.items[call.draws[i]]
      BY <3>2, LedgerFields
    <3> QED
      BY <2>2, <3>1, <3>3
  <2>11. Knows(c)
    BY <1>4, <2>6, <2>10 DEF Knows
  <2>12. RefusedOnlyWhenOvertaken' /\ FailsOnlyWhenOvertaken'
    BY <2>1, <2>6 DEF RefusedOnlyWhenOvertaken, FailsOnlyWhenOvertaken
  <2> QED
    BY <2>1, <2>3, <2>9, <2>11, <2>12, CallMoves
<1> HIDE DEF prizes
<1>10. \/ /\ \E i \in DOMAIN call.draws : v.items[call.draws[i]] = NoItem
          /\ Ends("refused")
       \/ Becomes([call EXCEPT !.stage = "assets", !.minimum = v.slot, !.owed = prizes])
  BY DEF ReadItems, prizes
<1> QED
  BY <1>8, <1>9, <1>10

\* A settled pull records what a call expects to deliver.
LEMMA OwedAre ==
    ASSUME NEW v, Consistent(v), NEW s \in Seeds, Settled(v, s),
           NEW owed, owed = OwedPrizes(v, s)
    PROVE  /\ IsSeq(owed)
           /\ \A k \in DOMAIN owed :
                /\ owed[k].outcome \in 1 .. v.pulls[s].count
                /\ owed[k].outcome \in 1 .. MaxCount
                /\ owed[k].asset = v.pulls[s].outcomes[owed[k].outcome].asset
           /\ \A j, k \in DOMAIN owed : owed[j].outcome = owed[k].outcome => j = k
<1>1. PICK n \in 1 .. MaxCount : n = v.pulls[s].count
  BY ViewNumbers DEF Settled
<1>2. n \in Nat /\ n <= MaxCount
  BY BoundAssumption
<1> DEFINE S == {i \in 1 .. v.pulls[s].count : v.pulls[s].outcomes[i].tier # DELIVERED}
           e == Ascending(S)
<1>3. S \subseteq 1 .. n /\ S \in SUBSET (0 .. (n + 1) - 1)
  BY <1>1, <1>2
<1>4. PICK m \in Nat : m = Cardinality(S) /\ e \in [1 .. m -> S]
        /\ \A i, j \in 1 .. m : i < j => e[i] < e[j]
  <2> HIDE DEF S
  <2>1. n + 1 \in Nat
    BY <1>2
  <2> QED
    BY <1>3, <2>1, AscendingLists
<1>5. Undelivered(v, s) = e
  BY DEF Undelivered
<1> HIDE DEF S, e
<1>6. owed = [k \in 1 .. m |-> [outcome |-> e[k], asset |-> v.pulls[s].outcomes[e[k]].asset]]
  BY <1>4, <1>5 DEF OwedPrizes
<1>7. owed \in [1 .. m -> {owed[i] : i \in 1 .. m}]
  BY <1>6
<1>8. IsSeq(owed) /\ DOMAIN owed = 1 .. m
  BY <1>6, <1>7, SeqOfFunction, SeqIs
<1>9. ASSUME NEW k \in 1 .. m
      PROVE  /\ owed[k].outcome = e[k] /\ e[k] \in 1 .. n
             /\ owed[k].asset = v.pulls[s].outcomes[e[k]].asset
  <2>1. e[k] \in S
    BY <1>4
  <2>2. e[k] \in 1 .. n
    BY <1>3, <2>1
  <2>3. owed[k] = [outcome |-> e[k], asset |-> v.pulls[s].outcomes[e[k]].asset]
    BY <1>6
  <2> QED
    BY <2>2, <2>3
<1>10. ASSUME NEW j \in 1 .. m, NEW k \in 1 .. m, owed[j].outcome = owed[k].outcome
       PROVE  j = k
  <2>1. e[j] = e[k] /\ e[j] \in Nat /\ e[k] \in Nat
    BY <1>9, <1>10
  <2> QED
    BY <1>4, <2>1
<1>11. ASSUME NEW k \in 1 .. m
       PROVE  /\ owed[k].outcome \in 1 .. v.pulls[s].count
              /\ owed[k].outcome \in 1 .. MaxCount
              /\ owed[k].asset = v.pulls[s].outcomes[owed[k].outcome].asset
  <2>1. e[k] \in 1 .. n
    BY <1>9
  <2>2. e[k] \in 1 .. MaxCount
    BY <1>2, <2>1, BoundAssumption
  <2> QED
    BY <1>1, <1>9, <2>1, <2>2
<1> QED
  BY <1>8, <1>10, <1>11

\* A delivery is planned for a settled purchase.
LEMMA ReadPullKeeps ==
    ASSUME RelayInv, tx = NoTx, NEW v \in Views, ReadPull(v)
    PROVE  RelayInv'
<1>1. call.stage = "first" /\ call.op = "deliver"
  BY DEF ReadPull
<1>2. call # NoCall
  BY <1>1 DEF NoCall
<1>3. IsCall(call) /\ outbox = <<>>
  BY <1>1, <1>2, CallEnds
<1>4. CASE Abandons
  BY <1>1, <1>2, <1>4, CallEnds
<1> DEFINE s == call.seed
<1>5. ASSUME v.pulls[s] # NoPull, ~ Waiting(v, s),
             Becomes([call EXCEPT !.stage = "assets", !.minimum = v.slot,
                                  !.index = v.pulls[s].index, !.buyer = v.pulls[s].buyer,
                                  !.owed = OwedPrizes(v, s)])
      PROVE  RelayInv'
  <2>1. PICK c : c = call'
    OBVIOUS
  <2>2. PICK owed : owed = OwedPrizes(v, s)
    OBVIOUS
  <2>3. /\ UNCHANGED <<vars, output, lagging, tx>> /\ outbox' = <<>>
        /\ c = [call EXCEPT !.stage = "assets", !.minimum = v.slot,
                            !.index = v.pulls[s].index, !.buyer = v.pulls[s].buyer,
                            !.owed = owed]
    BY <1>3, <1>5, <2>1, <2>2 DEF Becomes
  <2>4. s \in Seeds
    BY <1>3 DEF IsCall
  <2>5. Consistent(v) /\ v.slot \in Nat /\ Behind(v, Ledger) /\ Consistent(Ledger)
    BY ViewFacts DEF RelayInv
  <2>6. /\ v.pulls[s].index \in Nat /\ v.pulls[s].index < v.next_index
        /\ v.pulls[s].buyer \in Wallets /\ Settled(v, s)
    BY <1>5, <2>4, <2>5, ViewNumbers
  <2>7. v.pulls[s].index < v.next_settle
    BY <2>4, <2>5, <2>6 DEF Consistent
  <2>8. /\ IsSeq(owed)
        /\ \A k \in DOMAIN owed :
             /\ owed[k].outcome \in 1 .. v.pulls[s].count
             /\ owed[k].outcome \in 1 .. MaxCount
             /\ owed[k].asset = v.pulls[s].outcomes[owed[k].outcome].asset
        /\ \A j, k \in DOMAIN owed : owed[j].outcome = owed[k].outcome => j = k
    BY <2>2, <2>4, <2>5, <2>6, OwedAre
  <2>9. /\ c.stage = "assets" /\ c.op = "deliver" /\ c.seed = s /\ c.minimum = v.slot
        /\ c.index = v.pulls[s].index /\ c.buyer = v.pulls[s].buyer
        /\ c.draws = call.draws /\ c.owed = owed /\ c.ix = call.ix /\ c.at = call.at
        /\ c = [stage |-> c.stage, op |-> c.op, seed |-> c.seed, minimum |-> c.minimum,
                index |-> c.index, buyer |-> c.buyer, draws |-> c.draws, owed |-> c.owed,
                ix |-> c.ix, at |-> c.at]
    BY <1>1, <1>3, <2>3 DEF IsCall
  <2>10. IsCall(c)
    BY <1>3, <2>4, <2>5, <2>6, <2>8, <2>9 DEF IsCall, Stages
  <2>11. Seen(c, v)
    BY <2>6, <2>7, <2>9 DEF Seen
  <2>12. KnownCall(c)
    <3>1. /\ Seen(c, Ledger) /\ c.minimum <= slot
          /\ c.minimum <= lagging.slot => Seen(c, lagging)
      BY <2>9, <2>10, <2>11, NowSeen DEF RelayInv
    <3> QED
      BY <2>9, <2>10, <3>1 DEF KnownCall, Remembers
  <2>13. Due(c, v)
    BY <2>7, <2>8, <2>9 DEF Due
  <2>14. Due(c, Ledger)
    BY <2>5, <2>10, <2>13, DueLater
  <2>15. Knows(c)
    BY <2>9, <2>14 DEF Knows
  <2>16. RefusedOnlyWhenOvertaken' /\ FailsOnlyWhenOvertaken'
    BY <2>1, <2>9 DEF RefusedOnlyWhenOvertaken, FailsOnlyWhenOvertaken
  <2> QED
    BY <2>1, <2>3, <2>12, <2>15, <2>16, CallMoves
<1> QED
  BY <1>4, <1>5 DEF ReadPull


\* The deliveries of a call, and the settlement before them if it has one.
Deliveries(c) ==
    [k \in DOMAIN c.owed |->
       DeliverIx(c.seed, c.buyer, c.owed[k].outcome, c.owed[k].asset)]
Lead(c) == IF c.op = "settle" THEN <<SettleIx(c.seed, c.draws)>> ELSE <<>>

\* The groups made of them.
LEMMA PlannedGroups ==
    ASSUME NEW c, IsCall(c), c.op \in {"settle", "deliver"}, NEW v,
           NEW deliveries, deliveries = Deliveries(c), NEW initial, initial = Lead(c),
           NEW groups, groups = Groups(initial, deliveries)
    PROVE  /\ IsSeq(groups)
           /\ \A g \in DOMAIN groups : IsGroup(c, v, groups[g], g = 1)
           /\ groups # <<>> => Head(Head(groups)).op = c.op
<1>1. PICK m \in Nat : DOMAIN c.owed = 1 .. m
  <2>1. PICK S : c.owed \in Seq(S)
    BY DEF IsCall, IsSeq
  <2> QED
    BY <2>1, LenProperties
<1>2. \A k \in 1 .. m :
        /\ deliveries[k]
             = DeliverIx(c.seed, c.buyer, c.owed[k].outcome, c.owed[k].asset)
        /\ deliveries[k].op = "deliver" /\ deliveries[k].outcome = c.owed[k].outcome
  BY <1>1 DEF DeliverIx, Deliveries
<1>3. DOMAIN initial \subseteq {1} /\ (initial # <<>> <=> c.op = "settle")
      /\ (1 \in DOMAIN initial => /\ c.op = "settle"
                                  /\ initial[1] = SettleIx(c.seed, c.draws)
                                  /\ initial[1].op = "settle")
  BY SingleSeq, NoneSeq DEF SettleIx, Lead
<1> DEFINE S == {deliveries[k] : k \in 1 .. m} \cup {SettleIx(c.seed, c.draws)}
<1>4. initial \in Seq(S)
  <2>1. SettleIx(c.seed, c.draws) \in S
    OBVIOUS
  <2> HIDE DEF S
  <2> QED
    BY <2>1 DEF Lead
<1>5. deliveries \in Seq(S) /\ DOMAIN deliveries = 1 .. m
  <2>1. DOMAIN deliveries = 1 .. m /\ \A k \in 1 .. m : deliveries[k] \in S
    BY <1>1 DEF Deliveries
  <2>2. deliveries = [k \in 1 .. m |-> deliveries[k]]
    BY <1>1 DEF Deliveries
  <2> HIDE DEF S
  <2>3. deliveries \in [1 .. m -> S]
    BY <2>1, <2>2
  <2> QED
    BY <2>1, <2>3, SeqOfFunction
<1> HIDE DEF S
<1>6. /\ IsSeq(groups)
      /\ initial # <<>> /\ groups # <<>> => groups[1][1] = initial[1]
      /\ \A k \in DOMAIN groups :
           /\ k \in Nat \ {0} /\ IsSeq(groups[k]) /\ groups[k] # <<>>
           /\ DOMAIN groups[k] \subseteq Nat \ {0}
           /\ \E shift \in Int : \A a \in DOMAIN groups[k] :
                Part(initial, deliveries, groups[k], k, shift, a)
  BY <1>4, <1>5, GroupsParts
<1>7. ASSUME NEW g \in DOMAIN groups
      PROVE  IsGroup(c, v, groups[g], g = 1)
  <2>1. PICK shift \in Int : \A a \in DOMAIN groups[g] :
          Part(initial, deliveries, groups[g], g, shift, a)
    BY <1>6
  <2>2. ASSUME NEW a \in DOMAIN groups[g]
        PROVE  \/ /\ g = 1 /\ a = 1 /\ c.op = "settle"
                  /\ groups[g][a] = SettleIx(c.seed, c.draws)
                  /\ groups[g][a].op = "settle"
               \/ /\ a + shift \in 1 .. m /\ groups[g][a] = deliveries[a + shift]
                  /\ groups[g][a].op = "deliver"
    <3>1. CASE g = 1 /\ a \in DOMAIN initial /\ groups[g][a] = initial[a]
      <4>1. a = 1 /\ 1 \in DOMAIN initial
        BY <1>3, <3>1
      <4> QED
        BY <1>3, <3>1, <4>1
    <3>2. CASE a + shift \in DOMAIN deliveries /\ groups[g][a] = deliveries[a + shift]
      BY <1>2, <1>5, <3>2
    <3> QED
      BY <2>1, <3>1, <3>2 DEF Part
  <2>3. ASSUME NEW a \in DOMAIN groups[g]
        PROVE  Planned(c, groups[g][a]) /\ Current(c, groups[g][a], v)
    <3>1. CASE c.op = "settle" /\ groups[g][a] = SettleIx(c.seed, c.draws)
               /\ groups[g][a].op = "settle"
      BY <3>1 DEF Planned, Current
    <3>2. CASE /\ a + shift \in 1 .. m /\ groups[g][a] = deliveries[a + shift]
               /\ groups[g][a].op = "deliver"
      BY <1>1, <1>2, <3>2 DEF Planned, Current
    <3> QED
      BY <2>2, <3>1, <3>2
  <2>4. ASSUME NEW j \in DOMAIN groups[g], NEW k \in DOMAIN groups[g],
               groups[g][j].op = "deliver", groups[g][k].op = "deliver",
               groups[g][j].outcome = groups[g][k].outcome
        PROVE  j = k
    <3>1. /\ j + shift \in 1 .. m /\ groups[g][j] = deliveries[j + shift]
          /\ k + shift \in 1 .. m /\ groups[g][k] = deliveries[k + shift]
      BY <2>2, <2>4
    <3>2. c.owed[j + shift].outcome = c.owed[k + shift].outcome
      BY <1>2, <2>4, <3>1
    <3>3. j + shift = k + shift
      BY <1>1, <3>1, <3>2 DEF IsCall
    <3>4. j \in Int /\ k \in Int
      BY <1>6
    <3> QED
      BY <3>3, <3>4
  <2> QED
    BY <1>6, <2>2, <2>3, <2>4 DEF IsGroup
<1>8. ASSUME groups # <<>> PROVE Head(Head(groups)).op = c.op
  <2>1. 1 \in DOMAIN groups /\ Head(groups) = groups[1]
    BY <1>6, <1>8, SeqParts
  <2>2. 1 \in DOMAIN groups[1] /\ Head(groups[1]) = groups[1][1]
    BY <1>6, <2>1, SeqParts
  <2>3. CASE c.op = "settle"
    <3>1. initial # <<>> /\ 1 \in DOMAIN initial
      BY <1>3, <2>3, SingleSeq DEF Lead
    <3>2. groups[1][1] = initial[1] /\ initial[1].op = "settle"
      BY <1>3, <1>6, <1>8, <3>1
    <3> QED
      BY <2>1, <2>2, <2>3, <3>2
  <2>4. CASE c.op = "deliver"
    <3>1. Planned(c, groups[1][1])
      BY <1>7, <2>1, <2>2 DEF IsGroup
    <3> QED
      BY <2>1, <2>2, <2>4, <3>1 DEF Planned, DeliverIx
  <2> QED
    BY <2>3, <2>4
<1> QED
  BY <1>6, <1>7, <1>8

\* The pool owns every prize planned for an open purchase, or owed of a settled one.
LEMMA ReadAssetsKeeps ==
    ASSUME RelayInv, tx = NoTx, NEW v \in Views, ReadAssets(v)
    PROVE  RelayInv'
<1>1. call.stage = "assets" /\ Recent(v)
  BY DEF ReadAssets
<1>2. call # NoCall
  BY <1>1 DEF NoCall
<1>3. IsCall(call) /\ outbox = <<>>
  BY <1>1, <1>2, CallEnds
<1>4. Seen(call, v) /\ Seen(call, Ledger) /\ call.op \in {"settle", "deliver"}
  BY <1>1, <1>2, ReadSeen DEF RelayInv, CallOK, KnownCall
<1>5. /\ call.op = "settle" => Prepared(call, Ledger, output)
      /\ call.op = "deliver" => Due(call, Ledger)
  BY <1>1, <1>2 DEF RelayInv, KnowledgeOK, Knows
<1>6. call.seed \in Seeds /\ Consistent(v) /\ Behind(v, Ledger)
  BY <1>3, ViewFacts DEF IsCall, RelayInv
<1>7. ASSUME NEW k \in DOMAIN call.owed, v.owner[call.owed[k].asset] # Pool, Ends("refused")
      PROVE  RelayInv'
  <2>1. ASSUME call.op = "settle", Open(call.seed, call.index) PROVE FALSE
    <3>1. \A i \in DOMAIN call.draws :
            /\ call.draws[i] \in Position
            /\ v.items[call.draws[i]] = items[call.draws[i]]
            /\ items[call.draws[i]] # NoItem
      BY <1>1, <1>3, <1>4, <1>5, <2>1, OpenStock DEF RelayInv
    <3>2. call.owed = [i \in DOMAIN call.draws |->
                         [outcome |-> i, asset |-> Ledger.items[call.draws[i]].asset]]
      BY <1>1, <1>5, <2>1, PresentPurchase DEF Prepared
    <3>3. k \in DOMAIN call.draws /\ call.owed[k].asset = items[call.draws[k]].asset
      BY <3>2, LedgerFields
    <3> QED
      BY <1>6, <1>7, <3>1, <3>3 DEF Consistent
  <2>2. ASSUME call.op = "deliver", Owed(call.seed, call.index, call.owed[k].asset)
        PROVE  FALSE
    <3>1. PICK asset : asset = call.owed[k].asset
      OBVIOUS
    <3>2. OwedIn(Ledger, call.seed, call.index, asset)
      BY <2>2, <3>1, PresentPurchase
    <3>3. SettledIn(Ledger, call.seed, call.index)
      BY <3>2 DEF OwedIn
    <3>4. call.index < v.next_settle
      BY <1>4, <2>2 DEF Seen
    <3>5. OwedIn(v, call.seed, call.index, asset)
      BY <1>6, <3>2, <3>3, <3>4, OwedBefore
    <3> QED
      BY <1>6, <1>7, <3>1, <3>5 DEF OwedIn, SettledIn, Consistent
  <2>3. /\ call' = [call EXCEPT !.stage = "refused"]
        /\ UNCHANGED <<vars, output, lagging, tx>>
    BY <1>7 DEF Ends, Becomes
  <2>4. Ledger' = Ledger
    BY <2>3, QuietLedger DEF RelayInv
  <2>5. PICK c : c = call'
    OBVIOUS
  <2>6. c.op = call.op /\ c.seed = call.seed /\ c.index = call.index /\ c.owed = call.owed
    BY <1>3, <2>3, <2>5, StageFields DEF Stages
  <2>7. RefusedOnlyWhenOvertaken'
    <3>1. pulls' = pulls
      BY <2>3 DEF vars
    <3> QED
      BY <1>4, <1>7, <2>1, <2>2, <2>5, <2>6, <3>1
         DEF RefusedOnlyWhenOvertaken, Open, Owed, IsPending, IsSettled
  <2> QED
    BY <1>1, <1>2, <1>4, <1>7, <2>7, CallEnds
<1> DEFINE planned == [k \in DOMAIN call.owed |->
                         DeliverIx(call.seed, call.buyer, call.owed[k].outcome,
                                   call.owed[k].asset)]
           lead == IF call.op = "settle" THEN <<SettleIx(call.seed, call.draws)>> ELSE <<>>
<1>8. ASSUME Returns(Groups(lead, planned)) PROVE RelayInv'
  <2>1. PICK c : c = call'
    OBVIOUS
  <2>2. PICK deliveries : deliveries = planned
    OBVIOUS
  <2>3. PICK initial : initial = lead
    OBVIOUS
  <2>4. PICK groups : groups = Groups(initial, deliveries)
    OBVIOUS
  <2>5. /\ call' = [call EXCEPT !.stage = "sent"] /\ outbox' = groups
        /\ UNCHANGED <<vars, output, lagging, tx>>
    BY <1>8, <2>2, <2>3, <2>4 DEF Returns
  <2>6. /\ IsCall(c) /\ c.stage = "sent" /\ c.op = call.op /\ c.seed = call.seed
        /\ c.minimum = call.minimum /\ c.index = call.index /\ c.buyer = call.buyer
        /\ c.draws = call.draws /\ c.owed = call.owed
    BY <1>3, <2>1, <2>5, StageFields DEF Stages
  <2>7. deliveries = Deliveries(c) /\ initial = Lead(c)
    BY <2>2, <2>3, <2>6 DEF Deliveries, Lead
  <2>8. /\ IsSeq(groups)
        /\ \A g \in DOMAIN groups : IsGroup(c, Ledger, groups[g], g = 1)
        /\ groups # <<>> => Head(Head(groups)).op = c.op
    BY <1>4, <2>4, <2>6, <2>7, PlannedGroups
  <2>9. Seen(c, Ledger)
    BY <1>1, <1>4, <2>6 DEF Seen
  <2>10. KnownCall(c)
    BY <1>2, <1>4, <2>6, <2>9 DEF RelayInv, CallOK, KnownCall, Remembers
  <2>11. c.op = "settle" => Prepared(c, Ledger, output)
    BY <1>1, <1>5, <2>6 DEF Prepared
  <2>12. c.op = "deliver" => Due(c, Ledger)
    BY <1>5, <2>6 DEF Due
  <2>13. groups = outbox'
    BY <2>5
  <2> HIDE DEF planned, lead
  <2> QED
    BY <2>1, <2>5, <2>6, <2>8, <2>10, <2>11, <2>12, <2>13, PlanMoves
<1> HIDE DEF planned, lead
<1>9. \/ /\ \E k \in DOMAIN call.owed : v.owner[call.owed[k].asset] # Pool
         /\ Ends("refused")
      \/ Returns(Groups(lead, planned))
  BY DEF ReadAssets, planned, lead
<1> QED
  BY <1>7, <1>8, <1>9


-----------------------------------------------------------------------------
(* Steps of the ledger while no transaction is executing.                  *)

\* Whatever is executed, the ledger stays sound and nothing shown is undone.
LEMMA LedgerStep ==
    ASSUME LedgerOK, ServiceStep, [Next]_vars, UNCHANGED <<status, terms, output>>,
           lagging' \in Views, lagging'.slot < slot', NEW w, w = Ledger'
    PROVE  /\ LedgerOK' /\ Behind(Ledger, w) /\ Consistent(Ledger) /\ Consistent(w)
           /\ slot <= slot' /\ slot \in Nat /\ slot' \in Nat
<1>1. Sound' /\ Behind(Ledger, w)
  BY SoundNext, StepBehind DEF LedgerOK
<1>2. Consistent(w)
  BY <1>1, NextConsistent
<1>3. Consistent(Ledger) /\ Consistent(lagging) /\ Behind(lagging, Ledger)
  BY PresentConsistent DEF LedgerOK
<1>4. slot <= slot' /\ slot \in Nat /\ slot' \in Nat
  BY <1>1, <1>2, <1>3, LedgerFields, LedgerFieldsNext DEF Behind, Consistent
<1>5. PICK v : v = lagging'
  OBVIOUS
<1>6. Consistent(v) /\ Behind(v, w)
  <2>1. CASE v = Ledger
    BY <1>1, <1>3, <2>1
  <2>2. CASE v = lagging
    <3>1. Behind(lagging, w)
      BY <1>1, <1>2, <1>3, BehindTransitive
    <3> QED
      BY <1>3, <2>2, <3>1
  <2> QED
    BY <1>5, <2>1, <2>2 DEF Views
<1>7. Consistent(lagging)' /\ Behind(lagging, Ledger)'
  BY <1>5, <1>6
<1>8. LedgerOK'
  BY <1>1, <1>7 DEF LedgerOK
<1> QED
  BY <1>1, <1>2, <1>3, <1>4, <1>8

\* The purchase in the next ledger.
LEMMA NextPurchase ==
    ASSUME NEW w, w = Ledger', NEW s, NEW index, NEW asset
    PROVE  /\ Open(s, index)' <=> OpenIn(w, s, index)
           /\ Owed(s, index, asset)' <=> OwedIn(w, s, index, asset)
           /\ IsSettled(s)' /\ pulls'[s].index = index <=> SettledIn(w, s, index)
<1>1. w.pulls = pulls'
  BY LedgerFieldsNext
<1> QED
  BY <1>1 DEF Open, OpenIn, Owed, OwedIn, SettledIn, Settled, Waiting, IsPending, IsSettled

\* Who has been overtaken stays so.
LEMMA OvertakenStays ==
    ASSUME IsCall(call), Seen(call, Ledger), call' = call, NEW w, w = Ledger',
           Consistent(Ledger), Consistent(w), Behind(Ledger, w), Remembers(call),
           RefusedOnlyWhenOvertaken, FailsOnlyWhenOvertaken
    PROVE  RefusedOnlyWhenOvertaken' /\ FailsOnlyWhenOvertaken'
<1>1. PICK t \in Seeds : t = call.seed
  BY DEF IsCall
<1>2. PICK i \in Nat : i = call.index
  BY DEF IsCall
<1>3. ASSUME call.op # "buy", Open(t, i)'
      PROVE  Open(t, i) /\ pulls'[t] = pulls[t]
  <2>1. OpenIn(w, t, i) /\ i < Ledger.next_index
    BY <1>1, <1>2, <1>3, NextPurchase DEF Seen
  <2>2. OpenIn(Ledger, t, i) /\ Ledger.pulls[t] = w.pulls[t]
    BY <2>1, OpenBefore
  <2> QED
    BY <2>2, PresentPurchase, LedgerFields, LedgerFieldsNext
<1>4. ASSUME NEW asset, Owed(t, i, asset)', i < next_settle
      PROVE  Owed(t, i, asset)
  <2>1. OwedIn(w, t, i, asset) /\ i < Ledger.next_settle
    BY <1>4, NextPurchase, LedgerFields
  <2>2. SettledIn(w, t, i)
    BY <2>1 DEF OwedIn
  <2>3. OwedIn(Ledger, t, i, asset)
    BY <2>1, <2>2, OwedBefore
  <2> QED
    BY <2>3, PresentPurchase
<1>5. call.op \in {"settle", "refund"} /\ ~ Open(t, i) => i < next_settle
  BY <1>1, <1>2, PresentPurchase, LedgerFields DEF Seen
<1>6. call.op = "deliver" => i < next_settle
  BY <1>2, LedgerFields DEF Seen
<1>7. call.op \in {"buy", "settle", "refund", "deliver"}
  BY DEF IsCall
<1>8. RefusedOnlyWhenOvertaken'
  <2> SUFFICES ASSUME call.stage = "refused"
               PROVE  \/ call.op \in {"settle", "refund"} /\ ~ Open(t, i)'
                      \/ /\ call.op = "deliver"
                         /\ \E k \in DOMAIN call.owed : ~ Owed(t, i, call.owed[k].asset)'
    BY <1>1, <1>2 DEF RefusedOnlyWhenOvertaken, Open, Owed, IsPending, IsSettled
  <2>1. CASE call.op \in {"settle", "refund"} /\ ~ Open(t, i)
    BY <1>3, <2>1
  <2>2. ASSUME call.op = "deliver", NEW k \in DOMAIN call.owed,
               ~ Owed(t, i, call.owed[k].asset)
        PROVE  ~ Owed(t, i, call.owed[k].asset)'
    <3>1. PICK asset : asset = call.owed[k].asset
      OBVIOUS
    <3>2. ~ Owed(t, i, asset)'
      BY <1>4, <1>6, <2>2, <3>1
    <3> QED
      BY <3>1, <3>2 DEF Owed, IsSettled
  <2> QED
    BY <1>1, <1>2, <2>1, <2>2 DEF RefusedOnlyWhenOvertaken
<1>9. FailsOnlyWhenOvertaken'
  <2> SUFFICES ASSUME call.stage = "failed"
               PROVE  \/ /\ call.op = "buy"
                         /\ \/ call.ix.count \notin call.ix.offered
                            \/ inventory_version' > call.ix.version
                            \/ next_index' > call.ix.sold
                      \/ /\ call.op = "settle" /\ call.ix.op = "settle"
                         /\ ~ Open(t, i)' \/ call.at > pulls'[t].deadline_slot
                      \/ /\ call.op = "refund"
                         /\ ~ Open(t, i)' \/ call.at <= pulls'[t].deadline_slot
                      \/ /\ call.ix.op = "deliver"
                         /\ ~ Open(t, i)' /\ ~ Owed(t, i, call.ix.asset)'
    BY <1>1, <1>2 DEF FailsOnlyWhenOvertaken, Open, Owed, IsPending, IsSettled
  <2>1. CASE /\ call.op = "settle" /\ call.ix.op = "settle"
             /\ ~ Open(t, i) \/ call.at > pulls[t].deadline_slot
    BY <1>3, <2>1
  <2>2. CASE /\ call.op = "refund"
             /\ ~ Open(t, i) \/ call.at <= pulls[t].deadline_slot
    BY <1>3, <2>2
  <2>3. CASE call.ix.op = "deliver" /\ ~ Open(t, i) /\ ~ Owed(t, i, call.ix.asset)
    <3>1. PICK asset : asset = call.ix.asset
      OBVIOUS
    <3>2. call.op # "buy"
      BY <2>3 DEF Remembers
    <3>3. ~ Owed(t, i, asset)'
      BY <1>4, <1>5, <1>6, <1>7, <2>3, <3>1, <3>2
    <3>4. ~ Owed(t, i, call.ix.asset)'
      BY <3>1, <3>3 DEF Owed, IsSettled
    <3> QED
      BY <1>3, <2>3, <3>2, <3>4
  <2>4. ASSUME call.op = "buy",
               \/ call.ix.count \notin call.ix.offered
               \/ inventory_version > call.ix.version
               \/ next_index > call.ix.sold
        PROVE  \/ call.ix.count \notin call.ix.offered
               \/ inventory_version' > call.ix.version
               \/ next_index' > call.ix.sold
    <3>1. /\ inventory_version \in Nat /\ inventory_version' \in Nat
          /\ inventory_version <= inventory_version'
          /\ next_index \in Nat /\ next_index' \in Nat /\ next_index <= next_index'
      BY LedgerFields, LedgerFieldsNext DEF Behind, Consistent
    <3>2. PICK version \in Nat, sold \in Nat :
            version = call.ix.version /\ sold = call.ix.sold
      BY <2>4 DEF Remembers
    <3>3. /\ inventory_version > version => inventory_version' > version
          /\ next_index > sold => next_index' > sold
      BY <3>1, <3>2
    <3> QED
      BY <2>4, <3>2, <3>3
  <2> QED
    BY <1>1, <1>2, <2>1, <2>2, <2>3, <2>4 DEF FailsOnlyWhenOvertaken
<1> QED
  BY <1>8, <1>9

\* What the relayer knows survives what others do.
LEMMA LedgerMoves ==
    ASSUME RelayInv, ServiceStep, [Next]_vars,
           UNCHANGED <<status, terms, output, call, outbox, tx>>,
           tx = NoTx, lagging' \in Views, lagging'.slot < slot'
    PROVE  RelayInv'
<1>1. PICK w : w = Ledger'
  OBVIOUS
<1>2. /\ LedgerOK' /\ Behind(Ledger, w) /\ Consistent(Ledger) /\ Consistent(w)
      /\ slot <= slot' /\ slot \in Nat /\ slot' \in Nat
  BY <1>1, LedgerStep DEF RelayInv
<1>3. CASE call = NoCall
  <2>1. CallOK' /\ Knows(call)'
    BY <1>3 DEF CallOK, KnownCall, Knows
  <2>2. outbox = <<>>
    BY <1>3 DEF RelayInv, PlanOK
  <2>3. PlanOK'
    BY <2>2, NoneSeq DEF PlanOK
  <2>4. \A op : ~ Begins(op)'
    BY <2>2 DEF Begins
  <2>5. RefusedOnlyWhenOvertaken' /\ FailsOnlyWhenOvertaken'
    BY <1>3 DEF NoCall, RefusedOnlyWhenOvertaken, FailsOnlyWhenOvertaken
  <2> QED
    BY <1>2, <2>1, <2>3, <2>4, <2>5 DEF RelayInv, KnowledgeOK
<1>4. ASSUME call # NoCall, call.stage = "first" PROVE RelayInv'
  <2>1. outbox = <<>> /\ IsCall(call)
    BY <1>4, CallEnds
  <2>2. CallOK'
    <3>1. call.minimum <= slot /\ call.minimum \in Nat
      BY <1>4, <2>1 DEF RelayInv, CallOK, KnownCall, IsCall
    <3>2. call.minimum <= slot'
      BY <1>2, <3>1
    <3> QED
      BY <1>4, <2>1, <3>2 DEF RelayInv, CallOK, KnownCall, Remembers
  <2>3. PlanOK' /\ \A op : ~ Begins(op)'
    BY <2>1, NoneSeq DEF PlanOK, Begins
  <2>4. Knows(call)'
    BY <1>4 DEF Knows
  <2>5. RefusedOnlyWhenOvertaken' /\ FailsOnlyWhenOvertaken'
    BY <1>4 DEF RefusedOnlyWhenOvertaken, FailsOnlyWhenOvertaken
  <2> QED
    BY <1>2, <2>2, <2>3, <2>4, <2>5 DEF RelayInv, KnowledgeOK
<1>5. ASSUME call # NoCall, call.stage # "first" PROVE RelayInv'
  <2>1. IsCall(call) /\ Seen(call, Ledger) /\ call.minimum <= slot
    BY <1>5 DEF RelayInv, CallOK, KnownCall
  <2>2. Seen(call, w)
    BY <1>2, <2>1, SeenLater
  <2>3. CallOK'
    <3>1. call.minimum <= slot'
      BY <1>2, <2>1 DEF IsCall
    <3>2. Seen(call, Ledger)'
      BY <1>1, <2>2
    <3>3. call.stage \in {"snapshot", "items", "assets"} /\ call.minimum <= lagging'.slot
            => Seen(call, lagging')
      <4>1. CASE lagging' = Ledger
        BY <2>1, <4>1
      <4>2. CASE lagging' = lagging
        BY <1>5, <4>2 DEF RelayInv, CallOK, KnownCall
      <4> QED
        BY <4>1, <4>2 DEF Views
    <3>4. (call.stage \in {"snapshot", "items", "assets"} /\ call.minimum <= lagging.slot
             => Seen(call, lagging))'
      BY <3>3
    <3> QED
      BY <1>5, <2>1, <3>1, <3>2, <3>4 DEF RelayInv, CallOK, KnownCall, Remembers
  <2>4. PlanOK'
    <3>1. ASSUME NEW g \in DOMAIN outbox
          PROVE  IsGroup(call, w, outbox[g], g = 1 /\ tx' = NoTx)
      <4>1. IsGroup(call, Ledger, outbox[g], g = 1 /\ tx = NoTx)
        BY DEF RelayInv, PlanOK
      <4>2. IsGroup(call, w, outbox[g], g = 1 /\ tx = NoTx)
        BY <1>2, <2>1, <4>1, GroupLater
      <4> QED
        BY <4>2
    <3>2. \A g \in DOMAIN outbox : IsGroup(call, Ledger, outbox[g], g = 1 /\ tx = NoTx)'
      BY <1>1, <3>1
    <3> QED
      BY <3>2 DEF RelayInv, PlanOK
  <2>5. output \in [Seeds -> VRFOutput]
    BY DEF RelayInv, LedgerOK
  <2>6. ASSUME call.op = "settle", call.stage \in {"items", "assets", "sent"},
               Prepared(call, Ledger, output)
        PROVE  Prepared(call, Ledger, output)'
    <3>1. Prepared(call, w, output)
      BY <1>2, <2>1, <2>5, <2>6, PreparedLater
    <3> QED
      BY <1>1, <3>1
  <2>7. ASSUME Due(call, Ledger) PROVE Due(call, Ledger)'
    <3>1. Due(call, w)
      BY <1>2, <2>1, <2>7, DueLater
    <3> QED
      BY <1>1, <3>1
  <2>8. KnowledgeOK'
    <3>1. Knows(call)'
      BY <2>6, <2>7 DEF RelayInv, KnowledgeOK, Knows
    <3>2. \A op : Begins(op)' <=> Begins(op)
      BY DEF Begins
    <3>3. Begins("settle") => call.op = "settle" /\ call.stage = "sent"
      BY BeginsOps DEF RelayInv
    <3>4. (Begins("settle") => Prepared(call, Ledger, output))'
      BY <2>6, <3>2, <3>3 DEF RelayInv, KnowledgeOK
    <3>5. (Begins("deliver") => Due(call, Ledger))'
      BY <2>7, <3>2 DEF RelayInv, KnowledgeOK
    <3> QED
      BY <3>1, <3>4, <3>5 DEF KnowledgeOK
  <2>9. RefusedOnlyWhenOvertaken' /\ FailsOnlyWhenOvertaken'
    <3>1. Remembers(call)
      BY <1>5 DEF RelayInv, CallOK, KnownCall
    <3> QED
      BY <1>1, <1>2, <2>1, <3>1, OvertakenStays DEF RelayInv
  <2> QED
    BY <1>2, <2>3, <2>4, <2>8, <2>9 DEF RelayInv
<1> QED
  BY <1>3, <1>4, <1>5


\* What others do is done by instructions of the program.
LEMMA OthersKeep == ASSUME RelayInv, Others PROVE RelayInv'
<1>1. tx = NoTx /\ UNCHANGED <<output, lagging, call, outbox, tx>>
  BY DEF Others, offChain
<1>2. inventory_version \in 0 .. inventory_version
  BY BoundAssumption DEF RelayInv, LedgerOK, Sound, TypeOK
<1>3. ServiceStep /\ Next /\ UNCHANGED <<status, terms, slot>>
  <2>1. ASSUME NEW a \in Assets, NEW t \in Tiers, DepositItem(a, t)
        PROVE  ServiceStep /\ Next /\ UNCHANGED <<status, terms, slot>>
    <3>1. t \in 0 .. MaxTiers
      BY BoundAssumption DEF Tiers, Tier
    <3> QED
      BY <2>1, <3>1 DEF ServiceStep, Next, DepositItem
  <2>2. ASSUME NEW s \in Seeds, NEW n \in 1 .. MaxCount,
               Buy(s, Authority, n, inventory_version)
        PROVE  ServiceStep /\ Next /\ UNCHANGED <<status, terms, slot>>
    BY <1>2, <2>2, AccountAssumption DEF ServiceStep, Next, Buy
  <2>3. ASSUME NEW s \in Seeds, Settle(s)
        PROVE  ServiceStep /\ Next /\ UNCHANGED <<status, terms, slot>>
    BY <2>3 DEF ServiceStep, Next, Settle
  <2>4. ASSUME NEW s \in Seeds, NEW i \in 1 .. MaxCount, Deliver(s, i)
        PROVE  ServiceStep /\ Next /\ UNCHANGED <<status, terms, slot>>
    BY <2>4 DEF ServiceStep, Next, Deliver
  <2>5. ASSUME NEW s \in Seeds, Refund(s)
        PROVE  ServiceStep /\ Next /\ UNCHANGED <<status, terms, slot>>
    BY <2>5 DEF ServiceStep, Next, Refund
  <2> QED
    BY <2>1, <2>2, <2>3, <2>4, <2>5 DEF Others, SettleWith
<1>4. lagging' \in Views /\ lagging'.slot < slot'
  BY <1>1, <1>3 DEF Views, RelayInv, LedgerOK
<1> QED
  BY <1>1, <1>3, <1>4, LedgerMoves

\* Time passes, and the lagging node moves on, or not.
LEMMA NextSlotKeeps == ASSUME RelayInv, NextSlot PROVE RelayInv'
<1>1. tx = NoTx /\ UNCHANGED <<output, call, outbox, tx>> /\ lagging' \in Views /\ Tick
  BY DEF NextSlot
<1>2. ServiceStep /\ [Next]_vars /\ UNCHANGED <<status, terms>> /\ slot' = slot + 1
  BY <1>1 DEF ServiceStep, Next, Tick
<1>3. lagging'.slot < slot'
  BY <1>1, <1>2, ViewFacts DEF RelayInv
<1> QED
  BY <1>1, <1>2, <1>3, LedgerMoves

\* A plan that is given up is forgotten.
LEMMA LoseKeeps == ASSUME RelayInv, Lose PROVE RelayInv'
<1>1. /\ tx = NoTx /\ UNCHANGED <<vars, output, lagging, tx>> /\ outbox' = <<>>
      /\ call' = NoCall
  BY DEF Lose
<1>2. KnownCall(NoCall) /\ Knows(NoCall)
  BY DEF KnownCall, Knows
<1>3. RefusedOnlyWhenOvertaken' /\ FailsOnlyWhenOvertaken'
  BY <1>1 DEF NoCall, RefusedOnlyWhenOvertaken, FailsOnlyWhenOvertaken
<1> QED
  BY <1>1, <1>2, <1>3, CallMoves

-----------------------------------------------------------------------------
(* Transactions.                                                           *)

\* The deliveries left of a transaction are of prizes that were owed.
LEMMA OwedThen ==
    ASSUME Sound, NEW c, IsCall(c), Due(c, Ledger), NEW k \in DOMAIN c.owed,
           OpenIn(Ledger, c.seed, c.index)
             \/ OwedIn(Ledger, c.seed, c.index, c.owed[k].asset)
    PROVE  /\ SettledIn(Ledger, c.seed, c.index)
           /\ pulls[c.seed].outcomes[c.owed[k].outcome].tier # DELIVERED
<1>1. PICK s \in Seeds : s = c.seed
  BY DEF IsCall
<1>2. PICK index \in Nat : index = c.index
  BY DEF IsCall
<1>3. PICK i : i = c.owed[k].outcome
  OBVIOUS
<1>4. PICK asset : asset = c.owed[k].asset
  OBVIOUS
<1>5. index < next_settle /\ next_settle \in Nat
  BY <1>2, LedgerFields, BoundAssumption DEF Due, Sound, TypeOK
<1>6. ~ OpenIn(Ledger, s, index)
  <2> SUFFICES ASSUME IsPending(s), pulls[s].index = index PROVE FALSE
    BY PresentPurchase DEF Open
  <2> QED
    BY <1>5, SoundFacts, QueueFacts DEF PendingSeeds
<1>7. OwedIn(Ledger, s, index, asset)
  BY <1>1, <1>2, <1>4, <1>6
<1>8. SettledIn(Ledger, s, index)
  BY <1>7 DEF OwedIn
<1>9. i \in 1 .. pulls[s].count /\ asset = pulls[s].outcomes[i].asset
  BY <1>1, <1>2, <1>3, <1>4, <1>8, LedgerFields DEF Due
<1>10. PICK j \in 1 .. pulls[s].count :
         pulls[s].outcomes[j].tier # DELIVERED /\ pulls[s].outcomes[j].asset = asset
  BY <1>7, LedgerFields DEF OwedIn
<1>11. i = j
  BY <1>8, <1>9, <1>10, PresentPurchase DEF Sound, SettledPast
<1> QED
  BY <1>1, <1>2, <1>3, <1>8, <1>10, <1>11

\* The instruction delivers a prize the call has found.
Delivers(c, ix) ==
    /\ c.op \in {"settle", "deliver"} /\ ix.op = "deliver"
    /\ ix.seed = c.seed /\ ix.buyer = c.buyer
    /\ \E k \in DOMAIN c.owed :
         ix.outcome = c.owed[k].outcome /\ ix.asset = c.owed[k].asset

\* A group that begins with a delivery only delivers.
LEMMA OnlyDeliveries ==
    ASSUME NEW c, NEW group, IsSeq(group), group # <<>>, Head(group).op = "deliver",
           \A k \in DOMAIN group :
             Planned(c, group[k]) /\ (group[k].op # "deliver" => k = 1),
           NEW k \in DOMAIN group
    PROVE  Delivers(c, group[k])
<1>1. Head(group) = group[1] /\ 1 \in DOMAIN group
  BY SeqParts
<1> QED
  BY <1>1 DEF Planned, SettleIx, RefundIx, DeliverIx, Delivers

\* So does every group after the first.
LEMMA LaterDelivers ==
    ASSUME NEW c, NEW v, NEW group, IsGroup(c, v, group, FALSE)
    PROVE  Head(group).op = "deliver"
<1>1. Head(group) = group[1] /\ 1 \in DOMAIN group
  BY SeqParts DEF IsGroup
<1> QED
  BY <1>1 DEF IsGroup

\* A transaction begins with the ledger it can be rolled back to.
LEMMA LandKeeps == ASSUME RelayInv, Land PROVE RelayInv'
<1>1. /\ tx = NoTx /\ outbox # <<>> /\ tx' = [left |-> Head(outbox), saved |-> Ledger]
      /\ outbox' = Tail(outbox) /\ UNCHANGED <<vars, output, lagging>> /\ call' = call
  BY DEF Land
<1>2. LedgerOK' /\ Ledger' = Ledger /\ slot' = slot
  BY <1>1, QuietLedger DEF RelayInv
<1>3. call # NoCall /\ call.stage = "sent" /\ IsCall(call) /\ Seen(call, Ledger)
  BY <1>1 DEF RelayInv, PlanOK, CallOK, KnownCall
<1>4. CallOK' /\ RefusedOnlyWhenOvertaken' /\ FailsOnlyWhenOvertaken'
  BY <1>1, <1>2, <1>3
     DEF RelayInv, CallOK, KnownCall, RefusedOnlyWhenOvertaken, FailsOnlyWhenOvertaken
<1>5. PICK left : left = Head(outbox)
  OBVIOUS
<1>6. PICK t : t = tx'
  OBVIOUS
<1>7. /\ IsSeq(Tail(outbox)) /\ left = outbox[1] /\ 1 \in DOMAIN outbox
      /\ \A g \in DOMAIN Tail(outbox) :
           g \in Nat \ {0} /\ g + 1 \in DOMAIN outbox /\ Tail(outbox)[g] = outbox[g + 1]
  BY <1>1, <1>5, SeqParts DEF RelayInv, PlanOK
<1>8. t = [left |-> t.left, saved |-> t.saved] /\ t.left = left /\ t.saved = Ledger
  BY <1>1, <1>5, <1>6
<1>9. IsGroup(call, Ledger, left, TRUE)
  <2>1. IsGroup(call, Ledger, outbox[1], 1 = 1 /\ tx = NoTx)
    BY <1>7 DEF RelayInv, PlanOK
  <2> QED
    BY <1>7, <2>1, GroupMay
<1>10. IsSeq(left) /\ left # <<>> /\ 1 \in DOMAIN left /\ Head(left) = left[1]
  BY <1>9, SeqParts DEF IsGroup
<1>11. t # NoTx
  BY <1>8, <1>10 DEF NoTx
<1>12. ASSUME NEW g \in DOMAIN Tail(outbox), NEW may
       PROVE  IsGroup(call, Ledger, Tail(outbox)[g], may)
  <2>1. IsGroup(call, Ledger, outbox[g + 1], g + 1 = 1 /\ tx = NoTx)
    BY <1>7 DEF RelayInv, PlanOK
  <2>2. ~ (g + 1 = 1 /\ tx = NoTx)
    BY <1>7
  <2>3. IsGroup(call, Ledger, outbox[g + 1], may)
    BY <2>1, <2>2, GroupMay
  <2> QED
    BY <1>7, <2>3
<1>13. SoundAt(Ledger) /\ Behind(lagging, Ledger) /\ Ledger.slot = slot
  BY SoundSame, LedgerFields DEF RelayInv, LedgerOK
<1>14. ASSUME left[1].op = "deliver", NEW k \in DOMAIN left,
              \/ OpenIn(Ledger, call.seed, call.index)
              \/ OwedIn(Ledger, call.seed, call.index, left[k].asset)
       PROVE  /\ SettledIn(Ledger, call.seed, call.index)
              /\ pulls[call.seed].outcomes[left[k].outcome].tier # DELIVERED
  <2>1. PICK j \in DOMAIN call.owed :
          left[k].outcome = call.owed[j].outcome /\ left[k].asset = call.owed[j].asset
    <3>1. Head(left).op = "deliver"
      BY <1>10, <1>14
    <3>2. /\ IsSeq(left) /\ left # <<>>
          /\ \A i \in DOMAIN left :
               Planned(call, left[i]) /\ (left[i].op # "deliver" => i = 1)
      BY <1>9 DEF IsGroup
    <3>3. Delivers(call, left[k])
      BY <3>1, <3>2, OnlyDeliveries
    <3> QED
      BY <3>3 DEF Delivers
  <2>2. Begins("deliver")
    BY <1>1, <1>5, <1>10, <1>14 DEF Begins
  <2>3. Due(call, Ledger)
    BY <2>2 DEF RelayInv, KnowledgeOK
  <2>4. \/ OpenIn(Ledger, call.seed, call.index)
        \/ OwedIn(Ledger, call.seed, call.index, call.owed[j].asset)
    BY <1>14, <2>1
  <2>5. /\ SettledIn(Ledger, call.seed, call.index)
        /\ pulls[call.seed].outcomes[call.owed[j].outcome].tier # DELIVERED
    BY <1>3, <2>3, <2>4, OwedThen DEF RelayInv, LedgerOK
  <2> QED
    BY <2>1, <2>5
<1>15. PlanOK'
  <2>1. \A g \in DOMAIN outbox' : IsGroup(call, Ledger, outbox'[g], g = 1 /\ tx' = NoTx)
    BY <1>1, <1>12
  <2>2. \A g \in DOMAIN outbox' :
          IsGroup(call', Ledger', outbox'[g], g = 1 /\ tx' = NoTx)
    BY <1>1, <1>2, <2>1
  <2>3. /\ tx' = [left |-> t.left, saved |-> t.saved] /\ tx'.left = left
        /\ tx'.saved = Ledger /\ tx' # NoTx
    BY <1>6, <1>8, <1>11
  <2>4. IsGroup(call', Ledger', tx'.left, TRUE)
    BY <1>1, <1>2, <1>9, <2>3
  <2>5. SoundAt(tx.saved)' /\ Behind(lagging', tx'.saved) /\ Seen(call', tx'.saved)
    <3>1. (Sound => SoundAt(Ledger))'
      BY SoundSame, PTL
    <3>2. SoundAt(Ledger)'
      BY <1>2, <3>1 DEF LedgerOK
    <3>3. SoundAt(tx.saved)'
      BY <1>2, <2>3, <3>2
    <3> QED
      BY <1>1, <1>3, <1>13, <2>3, <3>3
  <2>6. tx'.saved.slot = slot' /\ tx'.saved = Ledger'
    BY <1>2, <1>13, <2>3
  <2>7. ASSUME Head(tx'.left).op = "deliver"
        PROVE  \A k \in DOMAIN tx'.left :
                 \/ OpenIn(tx'.saved, call'.seed, call'.index)
                 \/ OwedIn(tx'.saved, call'.seed, call'.index, tx'.left[k].asset)
                 => /\ SettledIn(Ledger', call'.seed, call'.index)
                    /\ pulls'[call'.seed].outcomes[tx'.left[k].outcome].tier # DELIVERED
    <3>1. pulls' = pulls
      BY <1>1 DEF vars
    <3> QED
      BY <1>1, <1>2, <1>10, <1>14, <2>3, <2>7, <3>1
  <2>8. IsSeq(outbox') /\ call' # NoCall /\ call'.stage = "sent"
    BY <1>1, <1>3, <1>7
  <2>9. tx' = [left |-> tx'.left, saved |-> tx'.saved]
    BY <1>6, <1>8
  <2>10. (Head(tx.left).op = "buy" => RoomToBuy)'
    <3>1. Head(left).op = "buy" => RoomToBuy
      BY <1>5 DEF Land
    <3>2. RoomToBuy' <=> RoomToBuy
      BY <1>1 DEF RoomToBuy, vars, queue
    <3> QED
      BY <2>3, <3>1, <3>2
  <2> QED
    BY <2>2, <2>4, <2>5, <2>6, <2>7, <2>8, <2>9, <2>10 DEF PlanOK
<1>16. KnowledgeOK'
  <2>1. \A op : Begins(op)' <=> Begins(op)
    BY <1>1, <1>5, <1>6, <1>8, <1>11 DEF Begins
  <2>2. Knows(call)'
    BY <1>1, <1>3 DEF Knows
  <2>3. (Begins("settle") => Prepared(call, Ledger, output))'
    BY <1>1, <1>2, <2>1 DEF RelayInv, KnowledgeOK
  <2>4. (Begins("deliver") => Due(call, Ledger))'
    BY <1>1, <1>2, <2>1 DEF RelayInv, KnowledgeOK
  <2> QED
    BY <2>2, <2>3, <2>4 DEF KnowledgeOK
<1> QED
  BY <1>2, <1>4, <1>15, <1>16 DEF RelayInv

\* The instructions a call may plan, by what they are.
LEMMA PlannedOps ==
    ASSUME NEW c, NEW ix, Planned(c, ix)
    PROVE  /\ ix.op \in {"settle", "deliver", "refund", "buy"} /\ ix.seed = c.seed
           /\ ix.op = "settle" => c.op = "settle" /\ ix.draws = c.draws
           /\ ix.op = "deliver" => Delivers(c, ix)
           /\ ix.op = "refund" => c.op = "refund"
           /\ ix.op = "buy" => /\ c.op = "buy" /\ ix.buyer = Authority
                               /\ ix.count \in 1 .. MaxCount /\ ix.version \in Nat
                               /\ ix.sold \in Nat
BY DEF Planned, SettleIx, RefundIx, DeliverIx, Delivers

\* What is being executed belongs to the plan of the call.
LEMMA TxFacts ==
    ASSUME RelayInv, tx # NoTx, NEW left, left = tx.left, NEW ix, ix = Head(left)
    PROVE  /\ call # NoCall /\ call.stage = "sent" /\ IsCall(call) /\ Seen(call, Ledger)
           /\ call.minimum <= slot
           /\ IsSeq(left) /\ left # <<>> /\ 1 \in DOMAIN left /\ ix = left[1]
           /\ Planned(call, ix) /\ Current(call, ix, Ledger)
           /\ \A k \in DOMAIN left :
                Planned(call, left[k]) /\ (left[k].op # "deliver" => k = 1)
           /\ \A g \in DOMAIN outbox : \A may : IsGroup(call, Ledger, outbox[g], may)
           /\ ix.op = "settle" => Prepared(call, Ledger, output)
           /\ ix.op = "deliver" => Due(call, Ledger)
<1>1. call # NoCall /\ call.stage = "sent"
  BY DEF RelayInv, PlanOK
<1>2. IsCall(call) /\ Seen(call, Ledger) /\ call.minimum <= slot
  BY <1>1 DEF RelayInv, CallOK, KnownCall
<1>3. /\ IsSeq(left) /\ left # <<>>
      /\ \A k \in DOMAIN left :
           /\ Planned(call, left[k]) /\ Current(call, left[k], Ledger)
           /\ left[k].op # "deliver" => k = 1
  BY DEF RelayInv, PlanOK, IsGroup
<1>4. 1 \in DOMAIN left /\ ix = left[1]
  BY <1>3, SeqParts
<1>5. ASSUME NEW g \in DOMAIN outbox, NEW may PROVE IsGroup(call, Ledger, outbox[g], may)
  <2>1. IsGroup(call, Ledger, outbox[g], g = 1 /\ tx = NoTx)
    BY DEF RelayInv, PlanOK
  <2>2. ~ (g = 1 /\ tx = NoTx)
    OBVIOUS
  <2> QED
    BY <2>1, <2>2, GroupMay
<1>6. /\ ix.op = "settle" => Prepared(call, Ledger, output)
      /\ ix.op = "deliver" => Due(call, Ledger)
  BY DEF RelayInv, KnowledgeOK, Begins
<1> QED
  BY <1>1, <1>2, <1>3, <1>4, <1>5, <1>6

\* Executing a planned instruction is a step of the program.
LEMMA InstructionSteps ==
    ASSUME TypeOK, IsCall(call), NEW ix, Planned(call, ix), Execute(ix)
    PROVE  /\ ServiceStep /\ [Next]_vars /\ UNCHANGED <<status, terms, slot>>
           /\ ix.op = "settle" => SettleWith(call.seed, output[call.seed], call.draws)
           /\ ix.op = "deliver" =>
                ix.outcome \in 1 .. MaxCount /\ Deliver(call.seed, ix.outcome)
<1>1. PICK s \in Seeds : s = call.seed /\ s = ix.seed
  BY PlannedOps DEF IsCall
<1>2. ASSUME ix.op = "settle"
      PROVE  /\ ServiceStep /\ Next /\ UNCHANGED <<status, terms, slot>>
             /\ SettleWith(s, output[s], call.draws)
  <2>1. ix.draws = call.draws
    BY <1>2, PlannedOps
  <2>2. SettleWith(s, output[s], call.draws)
    BY <1>1, <1>2, <2>1 DEF Execute
  <2>3. Settle(s)
    BY <2>2 DEF SettleWith
  <2> QED
    BY <2>2, <2>3 DEF ServiceStep, Next, Settle
<1>3. ASSUME ix.op = "deliver"
      PROVE  /\ ServiceStep /\ Next /\ UNCHANGED <<status, terms, slot>>
             /\ ix.outcome \in 1 .. MaxCount /\ Deliver(s, ix.outcome)
  <2>1. PICK k \in DOMAIN call.owed : ix.outcome = call.owed[k].outcome
    BY <1>3, PlannedOps DEF Delivers
  <2>2. ix.outcome \in 1 .. MaxCount
    BY <2>1 DEF IsCall
  <2>3. Deliver(s, ix.outcome)
    BY <1>1, <1>3 DEF Execute
  <2> QED
    BY <2>2, <2>3 DEF ServiceStep, Next, Deliver
<1>4. ASSUME ix.op = "refund" PROVE ServiceStep /\ Next /\ UNCHANGED <<status, terms, slot>>
  <2>1. Refund(s)
    BY <1>1, <1>4 DEF Execute
  <2> QED
    BY <2>1 DEF ServiceStep, Next, Refund
<1>5. ASSUME ix.op = "buy" PROVE ServiceStep /\ Next /\ UNCHANGED <<status, terms, slot>>
  <2>1. PICK n \in 1 .. MaxCount, v \in Nat : n = ix.count /\ v = ix.version
    BY <1>5, PlannedOps
  <2>2. Buy(s, Authority, n, v)
    BY <1>1, <1>5, <2>1, PlannedOps DEF Execute
  <2>3. v = inventory_version /\ inventory_version \in 0 .. inventory_version
    BY <2>2, BoundAssumption DEF Buy, CanBuy, SignedCurrent, TypeOK
  <2> QED
    BY <2>2, <2>3, AccountAssumption DEF ServiceStep, Next, Buy
<1> QED
  BY <1>1, <1>2, <1>3, <1>4, <1>5, PlannedOps

\* What a settlement with the planned draws awards.
LEMMA SettlementAwards ==
    ASSUME LedgerOK, TypeOK', IsCall(call), call.stage = "sent",
           Prepared(call, Ledger, output), NEW s \in Seeds, s = call.seed,
           SettleWith(s, output[s], call.draws),
           IsSettled(s)', pulls'[s].index = call.index
    PROVE  /\ Open(s, call.index) /\ call.buyer = pulls'[s].buyer
           /\ \A k \in DOMAIN call.owed :
                /\ call.owed[k].outcome \in 1 .. pulls'[s].count
                /\ call.owed[k].asset = pulls'[s].outcomes[call.owed[k].outcome].asset
                /\ pulls'[s].outcomes[call.owed[k].outcome].tier # DELIVERED
<1>1. PICK d : d = call.draws
  OBVIOUS
<1>2. IsHead(s) /\ Award(s, d)
  BY <1>1 DEF SettleWith, CanSettleWith, CanSettle
<1>3. TypeOK /\ Sound /\ IsPending(s) /\ output[s] \in VRFOutput
  BY <1>2 DEF LedgerOK, Sound, IsHead
<1>4. pulls'[s].index = pulls[s].index
  <2>1. pulls[s] \in Pull
    BY <1>3 DEF TypeOK, IsPending
  <2>2. pulls'[s] = [pulls[s] EXCEPT !.status = "settled", !.outcomes = Won(s, d)]
    BY <1>2, <1>3 DEF Award, TypeOK
  <2> QED
    BY <2>1, <2>2 DEF Pull
<1>5. Open(s, call.index)
  BY <1>3, <1>4 DEF Open
<1>6. OpenIn(Ledger, s, call.index)
  BY <1>5, PresentPurchase
<1>7. /\ call.buyer = pulls[s].buyer /\ d = PlanDraws(Ledger, s, output[s])
      /\ call.owed = [i \in DOMAIN d |-> [outcome |-> i, asset |-> items[d[i]].asset]]
  BY <1>1, <1>6, LedgerFields DEF Prepared
<1>8. d \in Draws(s)
  BY <1>3, <1>7, PlannedDraws
<1>9. Wins(s, d)
  BY <1>2, <1>3, <1>8, SettleWins
<1>10. DOMAIN d = 1 .. pulls[s].count
  BY <1>8 DEF Draws
<1>11. /\ DOMAIN call.owed = DOMAIN d
       /\ \A k \in DOMAIN d :
            call.owed[k].outcome = k /\ call.owed[k].asset = items[d[k]].asset
  BY <1>7
<1>12. ASSUME NEW k \in DOMAIN call.owed
       PROVE  /\ call.owed[k].outcome \in 1 .. pulls'[s].count
              /\ call.owed[k].asset = pulls'[s].outcomes[call.owed[k].outcome].asset
              /\ pulls'[s].outcomes[call.owed[k].outcome].tier # DELIVERED
  <2>1. k \in 1 .. pulls[s].count /\ call.owed[k].outcome = k
        /\ call.owed[k].asset = items[d[k]].asset
    BY <1>10, <1>11
  <2>2. /\ pulls'[s].count = pulls[s].count /\ pulls'[s].outcomes[k].tier # DELIVERED
        /\ pulls'[s].outcomes[k].asset = items[d[k]].asset
    BY <1>9, <2>1 DEF Wins
  <2> QED
    BY <2>1, <2>2
<1>13. call.buyer = pulls'[s].buyer
  BY <1>7, <1>9 DEF Wins
<1> QED
  BY <1>5, <1>12, <1>13

\* Once one instruction of a settlement or a delivery is executed, the prizes the
\* call expects are those the pull records.
LEMMA ExecutedDue ==
    ASSUME RelayInv, tx # NoTx, NEW ix, ix = Head(tx.left), Execute(ix),
           call.op \in {"settle", "deliver"}, TypeOK', NEW w, w = Ledger',
           Behind(Ledger, w), Consistent(Ledger), Consistent(w)
    PROVE  Due(call, w)
<1>1. PICK left : left = tx.left
  OBVIOUS
<1>2. /\ IsCall(call) /\ call.stage = "sent" /\ Planned(call, ix) /\ Seen(call, Ledger)
      /\ ix.op = "settle" => Prepared(call, Ledger, output)
      /\ ix.op = "deliver" => Due(call, Ledger)
  BY <1>1, TxFacts
<1>3. ix.op \in {"settle", "deliver"}
  BY <1>2, PlannedOps
<1>4. CASE ix.op = "deliver"
  BY <1>2, <1>4, DueLater
<1>5. CASE ix.op = "settle"
  <2>1. PICK s \in Seeds : s = call.seed
    BY <1>2 DEF IsCall
  <2>2. PICK index \in Nat : index = call.index
    BY <1>2 DEF IsCall
  <2>3. SettleWith(s, output[s], call.draws) /\ LedgerOK /\ TypeOK
    BY <1>2, <1>5, <2>1, InstructionSteps DEF RelayInv, LedgerOK, Sound
  <2>4. index < w.next_settle
    <3>1. IsHead(s) /\ next_settle' = pulls[s].index + 1
      BY <2>3 DEF SettleWith, Settle, CanSettle, Release
    <3>2. next_settle \in Nat /\ pulls[s].index = next_settle
      BY <2>3, <3>1, BoundAssumption DEF TypeOK, IsHead
    <3>3. index <= next_settle
      BY <1>2, <1>5, <2>2, PlannedOps, LedgerFields DEF Seen
    <3> QED
      BY <3>1, <3>2, <3>3, LedgerFieldsNext
  <2>5. ASSUME SettledIn(w, s, index)
        PROVE  /\ call.buyer = w.pulls[s].buyer
               /\ \A k \in DOMAIN call.owed :
                    /\ call.owed[k].outcome \in 1 .. w.pulls[s].count
                    /\ call.owed[k].asset
                         = w.pulls[s].outcomes[call.owed[k].outcome].asset
    <3>1. IsSettled(s)' /\ pulls'[s].index = index
      BY <2>5, NextPurchase
    <3>2. w.pulls = pulls'
      BY LedgerFieldsNext
    <3> QED
      BY <1>2, <1>5, <2>1, <2>2, <2>3, <3>1, <3>2, SettlementAwards
  <2> QED
    BY <2>1, <2>2, <2>4, <2>5 DEF Due
<1> QED
  BY <1>3, <1>4, <1>5

\* The deliveries that follow it in the transaction can still be made.
LEMMA ExecutedOwed ==
    ASSUME RelayInv, tx # NoTx, NEW ix, ix = Head(tx.left), Execute(ix), TypeOK',
           NEW w, w = Ledger', Behind(Ledger, w), Consistent(Ledger), Consistent(w),
           NEW k \in DOMAIN tx.left, k # 1,
           \/ OpenIn(tx.saved, call.seed, call.index)
           \/ OwedIn(tx.saved, call.seed, call.index, tx.left[k].asset)
    PROVE  /\ SettledIn(w, call.seed, call.index)
           /\ pulls'[call.seed].outcomes[tx.left[k].outcome].tier # DELIVERED
<1>1. PICK left : left = tx.left
  OBVIOUS
<1>2. /\ IsCall(call) /\ call.stage = "sent" /\ Planned(call, ix) /\ ix = left[1]
      /\ 1 \in DOMAIN left
      /\ \A j \in DOMAIN left : Planned(call, left[j]) /\ (left[j].op # "deliver" => j = 1)
      /\ ix.op = "settle" => Prepared(call, Ledger, output)
      /\ ix.op = "deliver" => Due(call, Ledger)
  BY <1>1, TxFacts
<1>3. left[k].op = "deliver" /\ Delivers(call, left[k])
  BY <1>1, <1>2, PlannedOps
<1>4. PICK j \in DOMAIN call.owed :
        left[k].outcome = call.owed[j].outcome /\ left[k].asset = call.owed[j].asset
  BY <1>3 DEF Delivers
<1>5. PICK i : i = left[k].outcome
  OBVIOUS
<1>6. PICK s \in Seeds : s = call.seed
  BY <1>2 DEF IsCall
<1>7. PICK index \in Nat : index = call.index
  BY <1>2 DEF IsCall
<1>8. LedgerOK /\ Sound /\ TypeOK /\ SettledComplete
  BY DEF RelayInv, LedgerOK, Sound
<1>9. ix.op \in {"settle", "deliver"}
  BY <1>2, <1>3, PlannedOps DEF Delivers
<1>10. CASE ix.op = "deliver"
  <2>1. SettledIn(Ledger, s, index) /\ pulls[s].outcomes[i].tier # DELIVERED
    <3>1. /\ SettledIn(Ledger, call.seed, call.index)
          /\ pulls[call.seed].outcomes[tx.left[k].outcome].tier # DELIVERED
      BY <1>10 DEF RelayInv, PlanOK
    <3> QED
      BY <1>1, <1>5, <1>6, <1>7, <3>1
  <2>2. i \in 1 .. pulls[s].count
    BY <1>2, <1>4, <1>5, <1>6, <1>7, <1>10, <2>1, LedgerFields DEF Due
  <2>3. PICK o \in 1 .. MaxCount : o = ix.outcome
    BY <1>2, <1>8, <1>10, InstructionSteps
  <2>4. Deliver(s, o)
    BY <1>2, <1>6, <1>8, <1>10, <2>3, InstructionSteps
  <2>5. o # i
    <3>1. left[1].outcome # left[k].outcome
      BY <1>1, <1>2, <1>3, <1>10 DEF RelayInv, PlanOK, IsGroup
    <3> QED
      BY <1>2, <1>5, <2>3, <3>1
  <2>6. pulls'[s] # NoPull
    <3>1. <<s, i>> \in Awards
      BY <1>8, <2>1, <2>2, PresentPurchase, IsAward
    <3>2. HandsOver(s, o)
      BY <1>8, <2>4, DeliverHandsOver
    <3>3. <<s, i>> \in Awards'
      BY <2>5, <3>1, <3>2 DEF HandsOver
    <3> QED
      BY <3>3 DEF Awards, IsSettled
  <2>7. /\ pulls'[s].status = "settled" /\ pulls'[s].index = pulls[s].index
        /\ pulls'[s].outcomes[i] = pulls[s].outcomes[i]
    BY <1>8, <2>2, <2>4, <2>5, <2>6, DeliverMarks
  <2>8. SettledIn(w, s, index)
    BY <2>1, <2>6, <2>7, LedgerFieldsNext, PresentPurchase DEF SettledIn, Settled
  <2> QED
    BY <1>1, <1>5, <1>6, <1>7, <2>1, <2>7, <2>8
<1>11. CASE ix.op = "settle"
  <2>1. SettleWith(s, output[s], call.draws)
    BY <1>2, <1>6, <1>8, <1>11, InstructionSteps
  <2>2. IsHead(s) /\ IsPending(s) /\ Award(s, call.draws)
    BY <2>1 DEF SettleWith, CanSettleWith, CanSettle, IsHead
  <2>3. tx.saved = Ledger
    BY <1>11 DEF RelayInv, PlanOK
  <2>4. Open(s, index)
    <3>1. ~ IsSettled(s)
      BY <2>2 DEF IsPending, IsSettled
    <3> QED
      BY <1>6, <1>7, <2>3, <3>1, PresentPurchase DEF OwedIn
  <2>5. IsSettled(s)' /\ pulls'[s].index = index
    <3>1. pulls[s] \in Pull /\ pulls[s].index = index
      BY <1>8, <2>4 DEF TypeOK, Open, IsPending
    <3>2. pulls'[s] = [pulls[s] EXCEPT !.status = "settled",
                                       !.outcomes = Won(s, call.draws)]
      BY <1>8, <2>2 DEF Award, TypeOK
    <3>3. pulls'[s].index = index
      BY <3>1, <3>2 DEF Pull
    <3>4. output[s] \in VRFOutput
      BY <1>8 DEF LedgerOK
    <3>5. call.draws \in Draws(s)
      <4>1. OpenIn(Ledger, s, index)
        BY <2>4, PresentPurchase
      <4>2. call.draws = PlanDraws(Ledger, s, output[s])
        BY <1>2, <1>6, <1>7, <1>11, <4>1 DEF Prepared
      <4> QED
        BY <1>8, <2>2, <3>4, <4>2, PlannedDraws
    <3>6. Wins(s, call.draws)
      BY <1>8, <2>2, <3>5, SettleWins
    <3> QED
      BY <3>3, <3>6 DEF Wins
  <2>6. pulls'[s].outcomes[call.owed[j].outcome].tier # DELIVERED
    BY <1>2, <1>6, <1>7, <1>8, <1>11, <2>1, <2>5, SettlementAwards
  <2>7. SettledIn(w, s, index)
    BY <2>5, NextPurchase
  <2> QED
    BY <1>1, <1>4, <1>6, <1>7, <2>6, <2>7
<1> QED
  BY <1>9, <1>10, <1>11

\* What is left of a group after its first instruction.
LEMMA GroupTail ==
    ASSUME NEW c, NEW v, NEW group, IsGroup(c, v, group, TRUE),
           NEW left, left = Tail(group), left # <<>>
    PROVE  IsGroup(c, v, left, TRUE) /\ Head(left).op = "deliver"
<1>1. /\ IsSeq(group) /\ group # <<>>
      /\ \A k \in DOMAIN group :
           /\ Planned(c, group[k]) /\ Current(c, group[k], v)
           /\ group[k].op # "deliver" => k = 1
      /\ \A j, k \in DOMAIN group :
           /\ group[j].op = "deliver" /\ group[k].op = "deliver"
           /\ group[j].outcome = group[k].outcome
           => j = k
  BY DEF IsGroup
<1>2. /\ Len(group) \in Nat /\ IsSeq(left) /\ DOMAIN left = 1 .. Len(group) - 1
      /\ \A k \in DOMAIN left :
           k \in Nat \ {0} /\ k + 1 \in DOMAIN group /\ left[k] = group[k + 1]
  BY <1>1, SeqParts
<1>3. 1 \in DOMAIN left /\ Head(left) = left[1]
  BY <1>2, SeqParts
<1>4. ASSUME NEW k \in DOMAIN left
      PROVE  /\ Planned(c, left[k]) /\ Current(c, left[k], v)
             /\ left[k].op = "deliver" /\ left[k] = group[k + 1]
  BY <1>1, <1>2
<1>5. ASSUME NEW j \in DOMAIN left, NEW k \in DOMAIN left,
             left[j].op = "deliver" /\ left[k].op = "deliver",
             left[j].outcome = left[k].outcome
      PROVE  j = k
  <2>1. j + 1 = k + 1
    BY <1>1, <1>2, <1>4, <1>5
  <2> QED
    BY <1>2, <2>1
<1>6. IsGroup(c, v, left, TRUE)
  BY <1>2, <1>4, <1>5 DEF IsGroup
<1>7. Head(left).op = "deliver"
  BY <1>3, <1>4
<1> QED
  BY <1>6, <1>7

\* Each instruction of a transaction finds the ledger as the one before left it.
LEMMA ExecuteNextKeeps == ASSUME RelayInv, ExecuteNext PROVE RelayInv'
<1>1. PICK left : left = tx.left
  OBVIOUS
<1>2. PICK ix : ix = Head(left)
  OBVIOUS
<1>3. PICK w : w = Ledger'
  OBVIOUS
<1>4. /\ tx # NoTx /\ Execute(ix) /\ UNCHANGED <<output, lagging, outbox>>
      /\ tx' = IF Len(left) = 1 THEN NoTx ELSE [tx EXCEPT !.left = Tail(@)]
      /\ call' = IF Len(left) = 1 /\ outbox = <<>> THEN NoCall ELSE call
  BY <1>1, <1>2 DEF ExecuteNext
<1>5. /\ call # NoCall /\ call.stage = "sent" /\ IsCall(call) /\ Seen(call, Ledger)
      /\ call.minimum <= slot
      /\ IsSeq(left) /\ left # <<>> /\ 1 \in DOMAIN left /\ ix = left[1]
      /\ Planned(call, ix)
      /\ \A k \in DOMAIN left :
           Planned(call, left[k]) /\ (left[k].op # "deliver" => k = 1)
      /\ \A g \in DOMAIN outbox : \A may : IsGroup(call, Ledger, outbox[g], may)
  BY <1>1, <1>2, <1>4, TxFacts
<1>6. TypeOK
  BY DEF RelayInv, LedgerOK, Sound
<1>7. ServiceStep /\ [Next]_vars /\ UNCHANGED <<status, terms, slot>>
  BY <1>4, <1>5, <1>6, InstructionSteps
<1>8. lagging' \in Views /\ lagging'.slot < slot'
  BY <1>4, <1>7 DEF Views, RelayInv, LedgerOK
<1>9. LedgerOK' /\ Behind(Ledger, w) /\ Consistent(Ledger) /\ Consistent(w)
  BY <1>3, <1>4, <1>7, <1>8, LedgerStep DEF RelayInv
<1>10. TypeOK' /\ Seen(call, w)
  BY <1>5, <1>9, SeenLater DEF LedgerOK, Sound
<1>11. call.op \in {"settle", "deliver"} => Due(call, w)
  BY <1>1, <1>2, <1>3, <1>4, <1>9, <1>10, ExecutedDue
<1>12. ASSUME NEW g \in DOMAIN outbox, NEW may
       PROVE  IsGroup(call, w, outbox[g], may) /\ Head(outbox[g]).op = "deliver"
              /\ call.op \in {"settle", "deliver"}
  <2>1. IsGroup(call, Ledger, outbox[g], FALSE)
    BY <1>5
  <2>2. Head(outbox[g]).op = "deliver"
    BY <2>1, LaterDelivers
  <2>3. IsGroup(call, w, outbox[g], may)
    BY <1>5, <1>9, <2>1, GroupLater
  <2>4. Planned(call, Head(outbox[g]))
    BY <2>1, SeqParts DEF IsGroup
  <2> QED
    BY <2>2, <2>3, <2>4, PlannedOps DEF Delivers
<1>13. CASE Len(left) = 1 /\ outbox = <<>>
  <2>1. call' = NoCall /\ tx' = NoTx /\ outbox' = <<>>
    BY <1>4, <1>13
  <2>2. CallOK' /\ Knows(call)' /\ PlanOK' /\ \A op : ~ Begins(op)'
    BY <2>1, NoneSeq DEF CallOK, KnownCall, Knows, PlanOK, Begins
  <2>3. RefusedOnlyWhenOvertaken' /\ FailsOnlyWhenOvertaken'
    BY <2>1 DEF NoCall, RefusedOnlyWhenOvertaken, FailsOnlyWhenOvertaken
  <2> QED
    BY <1>9, <2>2, <2>3 DEF RelayInv, KnowledgeOK
<1>14. ASSUME call' = call
       PROVE  /\ CallOK' /\ Knows(call)'
              /\ RefusedOnlyWhenOvertaken' /\ FailsOnlyWhenOvertaken'
  <2>1. Seen(call, Ledger)'
    BY <1>3, <1>10, <1>14
  <2> QED
    BY <1>5, <1>7, <1>14, <2>1
       DEF CallOK, KnownCall, Remembers, Knows, RefusedOnlyWhenOvertaken,
           FailsOnlyWhenOvertaken
<1>15. CASE Len(left) = 1 /\ outbox # <<>>
  <2>1. call' = call /\ tx' = NoTx /\ outbox' = outbox
    BY <1>4, <1>15
  <2>2. IsSeq(outbox) /\ 1 \in DOMAIN outbox /\ Head(outbox) = outbox[1]
    BY <1>15, SeqParts DEF RelayInv, PlanOK
  <2>3. \A g \in DOMAIN outbox : IsGroup(call, Ledger, outbox[g], g = 1 /\ tx = NoTx)'
    BY <1>3, <1>12, <2>1
  <2>4. PlanOK'
    BY <1>5, <2>1, <2>2, <2>3 DEF PlanOK
  <2>5. \A op : Begins(op)' => op = "deliver"
    BY <1>12, <2>1, <2>2 DEF Begins
  <2>6. Due(call, Ledger)'
    BY <1>3, <1>11, <1>12, <2>1, <2>2
  <2>7. (Begins("settle") => Prepared(call, Ledger, output))'
    BY <2>5
  <2> QED
    BY <1>9, <1>14, <2>1, <2>4, <2>6, <2>7 DEF RelayInv, KnowledgeOK
<1>16. CASE Len(left) # 1
  <2>1. call' = call /\ tx' = [tx EXCEPT !.left = Tail(left)] /\ outbox' = outbox
    BY <1>1, <1>4, <1>16
  <2>2. PICK rest : rest = Tail(left)
    OBVIOUS
  <2>3. PICK t : t = tx'
    OBVIOUS
  <2>4. /\ t = [left |-> t.left, saved |-> t.saved] /\ t.left = rest
        /\ t.saved = tx.saved
    <3>1. tx = [left |-> tx.left, saved |-> tx.saved]
      BY <1>4 DEF RelayInv, PlanOK
    <3> QED
      BY <2>1, <2>2, <2>3, <3>1
  <2>5. rest # <<>> /\ \A k \in DOMAIN rest : k + 1 \in DOMAIN left
                         /\ rest[k] = left[k + 1] /\ k + 1 # 1
    BY <1>5, <1>16, <2>2, SeqParts
  <2>6. t # NoTx
    BY <2>4, <2>5 DEF NoTx
  <2>7. IsGroup(call, Ledger, left, TRUE)
    BY <1>1, <1>4 DEF RelayInv, PlanOK
  <2>8. IsGroup(call, Ledger, rest, TRUE) /\ Head(rest).op = "deliver"
    BY <2>2, <2>5, <2>7, GroupTail
  <2>9. IsGroup(call, w, rest, TRUE)
    BY <1>5, <1>9, <2>8, GroupLater
  <2>10. call.op \in {"settle", "deliver"}
    <3>1. Planned(call, Head(rest))
      BY <2>8, SeqParts DEF IsGroup
    <3> QED
      BY <2>8, <3>1, PlannedOps DEF Delivers
  <2>11. ASSUME NEW k \in DOMAIN rest,
                \/ OpenIn(tx.saved, call.seed, call.index)
                \/ OwedIn(tx.saved, call.seed, call.index, rest[k].asset)
         PROVE  /\ SettledIn(w, call.seed, call.index)
                /\ pulls'[call.seed].outcomes[rest[k].outcome].tier # DELIVERED
    <3>1. PICK j \in DOMAIN tx.left : j # 1 /\ rest[k] = tx.left[j]
      BY <1>1, <2>5
    <3>2. \/ OpenIn(tx.saved, call.seed, call.index)
          \/ OwedIn(tx.saved, call.seed, call.index, tx.left[j].asset)
      BY <2>11, <3>1
    <3>3. /\ SettledIn(w, call.seed, call.index)
          /\ pulls'[call.seed].outcomes[tx.left[j].outcome].tier # DELIVERED
      BY <1>1, <1>2, <1>3, <1>4, <1>9, <1>10, <3>1, <3>2, ExecutedOwed
    <3> QED
      BY <3>1, <3>3
  <2>12. PlanOK'
    <3>1. \A g \in DOMAIN outbox : IsGroup(call, Ledger, outbox[g], g = 1 /\ tx = NoTx)'
      BY <1>3, <1>12, <2>1
    <3>2. IsSeq(outbox') /\ call' # NoCall /\ call'.stage = "sent" /\ tx' # NoTx
      BY <1>5, <2>1, <2>3, <2>6 DEF RelayInv, PlanOK
    <3>3. /\ tx' = [left |-> tx'.left, saved |-> tx'.saved] /\ tx'.left = rest
          /\ tx'.saved = tx.saved
      BY <2>3, <2>4
    <3>4. IsGroup(call', Ledger', tx'.left, TRUE)
      BY <1>3, <2>1, <2>9, <3>3
    <3>5. SoundAt(tx.saved)'
      BY <1>4, <3>3 DEF RelayInv, PlanOK
    <3>6. /\ Behind(lagging', tx'.saved) /\ Seen(call', tx'.saved)
          /\ tx'.saved.slot = slot'
      BY <1>4, <1>7, <2>1, <3>3 DEF RelayInv, PlanOK
    <3>7. Head(tx'.left).op = "deliver"
      BY <2>8, <3>3
    <3>8. \A k \in DOMAIN tx'.left :
            \/ OpenIn(tx'.saved, call'.seed, call'.index)
            \/ OwedIn(tx'.saved, call'.seed, call'.index, tx'.left[k].asset)
            => /\ SettledIn(Ledger', call'.seed, call'.index)
               /\ pulls'[call'.seed].outcomes[tx'.left[k].outcome].tier # DELIVERED
      BY <1>3, <2>1, <2>11, <3>3
    <3>9. \A g \in DOMAIN outbox' :
            IsGroup(call', Ledger', outbox'[g], g = 1 /\ tx' = NoTx)
      BY <2>1, <3>1
    <3> QED
      BY <3>2, <3>3, <3>4, <3>5, <3>6, <3>7, <3>8, <3>9 DEF PlanOK
  <2>13. \A op : Begins(op)' => op = "deliver"
    BY <2>3, <2>4, <2>6, <2>8 DEF Begins
  <2>14. Due(call, Ledger)'
    BY <1>3, <1>11, <2>1, <2>10
  <2>15. (Begins("settle") => Prepared(call, Ledger, output))'
    BY <2>13
  <2> QED
    BY <1>9, <1>14, <2>1, <2>12, <2>14, <2>15 DEF RelayInv, KnowledgeOK
<1> QED
  BY <1>13, <1>15, <1>16

\* An open purchase that a call has seen at the head of the queue is still there.
LEMMA OpenIsHead ==
    ASSUME Sound, IsCall(call), call.stage = "sent", call.op \in {"settle", "refund"},
           Seen(call, Ledger), NEW s \in Seeds, s = call.seed, Open(s, call.index)
    PROVE  IsHead(s)
<1>1. QueueInv /\ s \in PendingSeeds /\ IsPending(s) /\ pulls[s].index = call.index
  BY SoundFacts DEF Open, PendingSeeds
<1>2. next_settle <= pulls[s].index /\ next_settle \in Nat /\ call.index \in Nat
  BY <1>1, QueueFacts DEF IsCall
<1>3. call.index <= next_settle
  BY LedgerFields DEF Seen
<1> QED
  BY <1>1, <1>2, <1>3 DEF IsHead

\* Up to the deadline the program accepts the settlement planned for it.
LEMMA PlannedSettles ==
    ASSUME LedgerOK, IsCall(call), call.stage = "sent", call.op = "settle",
           Seen(call, Ledger), Prepared(call, Ledger, output),
           NEW s \in Seeds, s = call.seed, Open(s, call.index),
           slot <= pulls[s].deadline_slot
    PROVE  CanSettleWith(s, output[s], call.draws)
<1>1. Sound /\ PledgeInv /\ IsPending(s) /\ output[s] \in VRFOutput
  BY SoundFacts DEF LedgerOK, Open
<1>2. IsHead(s) /\ s \in PendingSeeds
  BY <1>1, OpenIsHead DEF PendingSeeds
<1>3. ~ CanRefund(s)
  <2>1. slot \in Nat /\ pulls[s].deadline_slot \in Nat
    BY <1>1, <1>2, PendingNumbers, BoundAssumption DEF Sound, TypeOK
  <2> QED
    BY <2>1 DEF CanRefund, AfterDeadline
<1>4. CanSettle(s)
  BY <1>1, <1>2, <1>3, HeadPasses DEF HeadResolvable
<1>5. OpenIn(Ledger, s, call.index)
  BY PresentPurchase
<1>6. PICK d : d = call.draws
  OBVIOUS
<1>7. d = PlanDraws(Ledger, s, output[s])
  BY <1>5, <1>6 DEF Prepared
<1>8. d = ChainDraws(s, output[s]) /\ d \in Draws(s)
  BY <1>1, <1>7, PlannedDraws
<1>9. CanAward(s, d)
  BY <1>1, <1>2, <1>8, DrawsAward
<1> QED
  BY <1>4, <1>6, <1>8, <1>9 DEF CanSettleWith

\* After it, the refund.
LEMMA PlannedRefunds ==
    ASSUME Sound, IsCall(call), call.stage = "sent", call.op = "refund",
           Seen(call, Ledger), NEW s \in Seeds, s = call.seed, Open(s, call.index),
           ~ slot <= pulls[s].deadline_slot
    PROVE  CanRefund(s)
<1>1. IsHead(s)
  BY OpenIsHead
<1>2. ~ CanSettle(s)
  BY DEF CanSettle
<1> QED
  BY <1>1, <1>2, SoundFacts, HeadPasses DEF HeadResolvable

\* And the delivery of a prize that is owed.
LEMMA PlannedDelivers ==
    ASSUME Sound, IsCall(call), Due(call, Ledger), NEW ix, Delivers(call, ix),
           SettledIn(Ledger, call.seed, call.index),
           pulls[call.seed].outcomes[ix.outcome].tier # DELIVERED
    PROVE  CanExecute(ix)
<1>1. PICK s \in Seeds : s = call.seed /\ s = ix.seed
  BY DEF IsCall, Delivers
<1>2. PICK i : i = ix.outcome
  OBVIOUS
<1>3. PICK asset : asset = ix.asset
  OBVIOUS
<1>4. /\ ix.op = "deliver" /\ ix.buyer = call.buyer
      /\ \E k \in DOMAIN call.owed :
           i = call.owed[k].outcome /\ asset = call.owed[k].asset
  BY <1>2, <1>3 DEF Delivers
<1>5. IsSettled(s)
  BY <1>1, PresentPurchase
<1>6. /\ call.buyer = pulls[s].buyer /\ i \in 1 .. pulls[s].count
      /\ asset = pulls[s].outcomes[i].asset
  BY <1>1, <1>4, LedgerFields DEF Due
<1>7. owner[asset] = Pool
  <2>1. Consistent(Ledger) /\ Settled(Ledger, s)
    BY <1>5, PresentConsistent, PresentPurchase
  <2> QED
    BY <1>1, <1>2, <1>6, <2>1, LedgerFields DEF Consistent
<1>8. i <= pulls[s].count
  <2>1. pulls[s].count \in Nat
    BY <1>5, BoundAssumption DEF Sound, TypeOK, IsSettled, Pull
  <2> QED
    BY <1>6, <2>1
<1>9. CanDeliver(s, i)
  BY <1>1, <1>2, <1>5, <1>6, <1>7, <1>8 DEF CanDeliver
<1> QED
  BY <1>1, <1>2, <1>3, <1>4, <1>5, <1>6, <1>8, <1>9 DEF CanExecute

\* And a purchase that is on sale, from the buyer who signed the present stock.
LEMMA PlannedBuys ==
    ASSUME Sound, RoomToBuy, NEW s \in Seeds, NEW n \in 1 .. MaxCount, Sells(s, n)
    PROVE  CanBuy(s, n, inventory_version)
<1>1. slot + terms.deadline_slots \in Nat /\ MaxSlot \in Nat /\ MaxU64 \in Nat
  BY BoundAssumption DEF Sound, TypeOK, Term
<1>2. slot + terms.deadline_slots < MaxSlot /\ MaxSlot <= MaxU64
  BY RelayAssumption DEF RoomToBuy
<1>3. Fits(slot + terms.deadline_slots)
  BY <1>1, <1>2 DEF Fits
<1> QED
  BY <1>3 DEF CanBuy, Sells, RoomToBuy, SignedCurrent, Sound

\* What fails had been overtaken when the transaction began.
LEMMA RolledBackOvertaken ==
    ASSUME RelayInv, tx # NoTx, NEW ix, ix = Head(tx.left), ~ CanExecute(ix),
           NEW s \in Seeds, s = call.seed, NEW index, index = call.index,
           NEW old, old = tx.saved
    PROVE  \/ /\ call.op = "buy" /\ ix.op = "buy"
              /\ \/ ix.count \notin ix.offered
                 \/ old.inventory_version > ix.version
                 \/ old.next_index > ix.sold
           \/ /\ call.op = "settle" /\ ix.op = "settle"
              /\ ~ OpenIn(old, s, index) \/ slot > old.pulls[s].deadline_slot
           \/ /\ call.op = "refund"
              /\ ~ OpenIn(old, s, index) \/ slot <= old.pulls[s].deadline_slot
           \/ /\ ix.op = "deliver"
              /\ ~ OpenIn(old, s, index) /\ ~ OwedIn(old, s, index, ix.asset)
<1>1. PICK left : left = tx.left
  OBVIOUS
<1>2. /\ call.stage = "sent" /\ IsCall(call) /\ Seen(call, Ledger)
      /\ 1 \in DOMAIN left /\ ix = left[1]
      /\ Planned(call, ix) /\ Current(call, ix, Ledger)
      /\ ix.op = "settle" => Prepared(call, Ledger, output)
      /\ ix.op = "deliver" => Due(call, Ledger)
  BY <1>1, TxFacts
<1>3. LedgerOK /\ Sound
  BY DEF RelayInv, LedgerOK
<1>4. ix.op # "deliver" => old = Ledger
  BY DEF RelayInv, PlanOK
<1>5. ASSUME old = Ledger
      PROVE  /\ OpenIn(old, s, index) <=> Open(s, index)
             /\ old.pulls = pulls
  <2>1. OpenIn(Ledger, s, index) <=> Open(s, index)
    BY PresentPurchase
  <2>2. old.pulls = pulls
    BY <1>5, LedgerFields
  <2> QED
    BY <1>5, <2>1, <2>2
<1>6. ASSUME ix.op = "settle", Open(s, index), ~ slot > pulls[s].deadline_slot PROVE FALSE
  <2>1. call.op = "settle" /\ ix.draws = call.draws /\ ix.seed = s
    BY <1>2, <1>6, PlannedOps
  <2>2. slot <= pulls[s].deadline_slot
    <3>1. s \in PendingSeeds /\ slot \in Nat
      BY <1>3, <1>6, BoundAssumption DEF Open, PendingSeeds, Sound, TypeOK
    <3>2. pulls[s].deadline_slot \in Nat
      BY <1>3, <3>1, PendingNumbers DEF Sound
    <3> QED
      BY <1>6, <3>1, <3>2
  <2>3. CanSettleWith(s, output[s], call.draws)
    BY <1>2, <1>3, <1>6, <2>1, <2>2, PlannedSettles
  <2> QED
    BY <1>6, <2>1, <2>3 DEF CanExecute
<1>7. ASSUME ix.op = "refund", Open(s, index), ~ slot <= pulls[s].deadline_slot PROVE FALSE
  <2>1. call.op = "refund" /\ ix.seed = s
    BY <1>2, <1>7, PlannedOps
  <2>2. CanRefund(s)
    BY <1>2, <1>3, <1>7, <2>1, PlannedRefunds
  <2>3. OpenIn(Ledger, s, index)
    BY <1>7, PresentPurchase
  <2>4. ix.buyer = pulls[s].buyer
    BY <1>2, <1>7, <2>3, LedgerFields DEF Current
  <2> QED
    BY <1>7, <2>1, <2>2, <2>4 DEF CanExecute, Open
<1>8. ASSUME ix.op = "deliver", OpenIn(old, s, index) \/ OwedIn(old, s, index, ix.asset)
      PROVE  FALSE
  <2>1. /\ SettledIn(Ledger, call.seed, call.index)
        /\ pulls[call.seed].outcomes[ix.outcome].tier # DELIVERED
    BY <1>1, <1>2, <1>8 DEF RelayInv, PlanOK
  <2>2. Delivers(call, ix)
    BY <1>2, <1>8, PlannedOps
  <2>3. CanExecute(ix)
    BY <1>2, <1>3, <1>8, <2>1, <2>2, PlannedDelivers
  <2> QED
    BY <2>3
<1>9. ASSUME ix.op = "buy"
      PROVE  \/ ix.count \notin ix.offered
             \/ old.inventory_version > ix.version
             \/ old.next_index > ix.sold
  <2>1. old = Ledger /\ RoomToBuy
    BY <1>9 DEF RelayInv, PlanOK
  <2>2. PICK version \in Nat, sold \in Nat : version = ix.version /\ sold = ix.sold
    BY <1>2, <1>9, PlannedOps
  <2>3. inventory_version \in Nat /\ next_index \in Nat
    BY <1>3, BoundAssumption DEF Sound, TypeOK
  <2>4. version <= inventory_version /\ sold <= next_index
    BY <1>2, <1>9, <2>2, LedgerFields DEF Current
  <2>5. ASSUME ix.count \in ix.offered, version = inventory_version, sold = next_index
        PROVE  FALSE
    <3>1. ix.offered \subseteq Offers(Ledger, s) /\ ix.seed = s
      BY <1>2, <1>9, <2>2, <2>5, PlannedOps, LedgerFields DEF Current
    <3>2. PICK n \in 1 .. MaxCount : n = ix.count
      BY <1>2, <1>9, PlannedOps
    <3>3. Sells(s, n)
      BY <1>3, <2>5, <3>1, <3>2, OffersExact
    <3>4. CanBuy(s, n, version)
      BY <1>3, <2>1, <2>5, <3>3, PlannedBuys
    <3> QED
      BY <1>9, <2>2, <3>1, <3>2, <3>4 DEF CanExecute
  <2>6. /\ version # inventory_version => inventory_version > version
        /\ sold # next_index => next_index > sold
    BY <2>2, <2>3, <2>4
  <2> QED
    BY <2>1, <2>2, <2>5, <2>6, LedgerFields
<1> QED
  BY <1>2, <1>4, <1>5, <1>6, <1>7, <1>8, <1>9, PlannedOps

\* A transaction that fails leaves the ledger as it was, and the plan forgotten.
LEMMA RollBackKeeps == ASSUME RelayInv, RollBack PROVE RelayInv'
<1>1. PICK left : left = tx.left
  OBVIOUS
<1>2. PICK ix : ix = Head(tx.left)
  OBVIOUS
<1>3. PICK old : old = tx.saved
  OBVIOUS
<1>4. PICK c : c = call'
  OBVIOUS
<1>5. /\ tx # NoTx /\ ~ CanExecute(ix) /\ tx' = NoTx /\ outbox' = <<>>
      /\ UNCHANGED <<slot, output, lagging>>
      /\ c = [call EXCEPT !.stage = "failed", !.ix = ix, !.at = slot]
  BY <1>2, <1>4 DEF RollBack
<1>6. call # NoCall /\ call.stage = "sent" /\ IsCall(call) /\ call.minimum <= slot
  BY <1>1, <1>2, <1>5, TxFacts
<1>7. SoundAt(old) /\ Behind(lagging, old) /\ Seen(call, old) /\ old.slot = slot
  BY <1>3, <1>5 DEF RelayInv, PlanOK
<1>8. Ledger' = old
  <2>1. IsLedger(old)
    BY <1>7 DEF SoundAt
  <2>2. /\ status' = old.status /\ terms' = old.terms
        /\ inventory_version' = old.inventory_version
        /\ pending_draws' = old.pending_draws
        /\ next_index' = old.next_index /\ next_settle' = old.next_settle
        /\ remaining' = old.remaining /\ tags' = old.tags /\ items' = old.items
        /\ pulls' = old.pulls /\ vault' = old.vault /\ owner' = old.owner
        /\ slot' = old.slot
    BY <1>3, <1>5, <1>7 DEF RollBack
  <2> QED
    BY <2>1, <2>2 DEF IsLedger, Ledger
<1>9. slot \in Nat
  BY BoundAssumption DEF RelayInv, LedgerOK, Sound, TypeOK
<1>10. /\ IsCall(c) /\ c.stage = "failed" /\ c.op = call.op /\ c.seed = call.seed
       /\ c.minimum = call.minimum /\ c.index = call.index /\ c.ix = ix /\ c.at = slot
  BY <1>5, <1>6, <1>9 DEF IsCall, Stages
<1>11. LedgerOK'
  <2>1. Sound'
    BY <1>7, <1>8, SoundRestored
  <2>2. Behind(lagging, Ledger)' /\ Consistent(lagging)'
    BY <1>5, <1>7, <1>8 DEF RelayInv, LedgerOK
  <2> QED
    BY <1>5, <2>1, <2>2 DEF RelayInv, LedgerOK
<1>12. CallOK'
  <2>1. Seen(c, old)
    BY <1>6, <1>7, <1>10 DEF Seen
  <2>2. Seen(call, Ledger)'
    BY <1>4, <1>8, <2>1
  <2>3. Remembers(c)
    <3>1. Planned(call, ix)
      BY <1>1, <1>2, <1>5, TxFacts
    <3>2. call.op = "buy" => ix.op = "buy" /\ ix.version \in Nat /\ ix.sold \in Nat
      BY <3>1 DEF Planned
    <3> QED
      BY <1>10, <3>2 DEF Remembers
  <2> QED
    BY <1>4, <1>5, <1>6, <1>10, <2>2, <2>3 DEF CallOK, KnownCall
<1>13. PlanOK'
  BY <1>5, NoneSeq DEF PlanOK
<1>14. KnowledgeOK'
  BY <1>4, <1>5, <1>10 DEF KnowledgeOK, Knows, Begins
<1>15. RefusedOnlyWhenOvertaken'
  BY <1>4, <1>10 DEF RefusedOnlyWhenOvertaken
<1>16. FailsOnlyWhenOvertaken'
  <2>1. PICK s \in Seeds : s = call.seed
    BY <1>6 DEF IsCall
  <2>2. PICK index : index = call.index
    OBVIOUS
  <2>3. PICK asset : asset = ix.asset
    OBVIOUS
  <2>4. \/ /\ call.op = "buy"
           /\ \/ ix.count \notin ix.offered
              \/ inventory_version' > ix.version
              \/ next_index' > ix.sold
        \/ /\ call.op = "settle" /\ ix.op = "settle"
           /\ ~ OpenIn(old, s, index) \/ slot > old.pulls[s].deadline_slot
        \/ /\ call.op = "refund"
           /\ ~ OpenIn(old, s, index) \/ slot <= old.pulls[s].deadline_slot
        \/ /\ ix.op = "deliver"
           /\ ~ OpenIn(old, s, index) /\ ~ OwedIn(old, s, index, asset)
    <3>1. old.inventory_version = inventory_version' /\ old.next_index = next_index'
      BY <1>8, LedgerFieldsNext
    <3> QED
      BY <1>2, <1>3, <1>5, <2>1, <2>2, <2>3, <3>1, RolledBackOvertaken
  <2>5. /\ Open(s, index)' <=> OpenIn(old, s, index)
        /\ Owed(s, index, asset)' <=> OwedIn(old, s, index, asset)
        /\ pulls' = old.pulls
    BY <1>8, NextPurchase, LedgerFieldsNext
  <2>6. /\ Open(call.seed, call.index)' <=> Open(s, index)'
        /\ Owed(call.seed, call.index, call.ix.asset)' <=> Owed(s, index, asset)'
    BY <1>4, <1>10, <2>1, <2>2, <2>3 DEF Open, Owed, IsPending, IsSettled
  <2> QED
    BY <1>4, <1>10, <2>1, <2>2, <2>4, <2>5, <2>6 DEF FailsOnlyWhenOvertaken
<1> QED
  BY <1>11, <1>12, <1>13, <1>14, <1>15, <1>16 DEF RelayInv

-----------------------------------------------------------------------------
(* The invariant of the relayer is inductive.                              *)

\* The pool opens with no call under way.
LEMMA RelayOpens == RelayInit => RelayInv
<1> SUFFICES ASSUME RelayInit PROVE RelayInv
  OBVIOUS
<1>1. LedgerOK
  BY OpensBehind
<1>2. call = NoCall /\ outbox = <<>> /\ tx = NoTx
  BY DEF RelayInit
<1>3. CallOK /\ PlanOK
  BY <1>2, NoneSeq DEF CallOK, KnownCall, PlanOK
<1>4. KnowledgeOK
  BY <1>2 DEF KnowledgeOK, Knows, Begins
<1>5. RefusedOnlyWhenOvertaken /\ FailsOnlyWhenOvertaken
  BY <1>2 DEF NoCall, RefusedOnlyWhenOvertaken, FailsOnlyWhenOvertaken
<1> QED
  BY <1>1, <1>3, <1>4, <1>5 DEF RelayInv

\* Every answer, whichever node gives it, keeps it.
LEMMA ReadKeeps == ASSUME RelayInv, NEW v \in Views, Read(v) PROVE RelayInv'
<1>1. tx = NoTx
  BY DEF Read
<1>2. CASE \E n \in 1 .. MaxCount : ReadHeader(v, n)
  BY <1>1, <1>2, ReadHeaderKeeps
<1>3. CASE Discover(v)
  BY <1>1, <1>3, DiscoverKeeps
<1>4. CASE Snapshot(v)
  BY <1>1, <1>4, SnapshotKeeps
<1>5. CASE ReadItems(v)
  BY <1>1, <1>5, ReadItemsKeeps
<1>6. CASE ReadPull(v)
  BY <1>1, <1>6, ReadPullKeeps
<1>7. CASE ReadAssets(v)
  BY <1>1, <1>7, ReadAssetsKeeps
<1>8. CASE TooOld(v)
  BY <1>1, <1>8, TooOldKeeps
<1> QED
  BY <1>2, <1>3, <1>4, <1>5, <1>6, <1>7, <1>8 DEF Read

\* So does every step, of the relayer or of anybody else.
LEMMA RelayKeeps == RelayInv /\ [RelayNext]_relayVars => RelayInv'
<1> SUFFICES ASSUME RelayInv, [RelayNext]_relayVars PROVE RelayInv'
  OBVIOUS
<1>1. CASE \E op \in {"buy", "settle", "refund", "deliver"}, s \in Seeds : Start(op, s)
  BY <1>1, StartKeeps
<1>2. CASE \E v \in Views : Read(v)
  BY <1>2, ReadKeeps
<1>3. CASE Land
  BY <1>3, LandKeeps
<1>4. CASE ExecuteNext
  BY <1>4, ExecuteNextKeeps
<1>5. CASE RollBack
  BY <1>5, RollBackKeeps
<1>6. CASE Lose
  BY <1>6, LoseKeeps
<1>7. CASE Others
  BY <1>7, OthersKeep
<1>8. CASE NextSlot
  BY <1>8, NextSlotKeeps
<1>9. CASE UNCHANGED relayVars
  <2>1. UNCHANGED <<vars, output, lagging, call, outbox, tx>>
    BY <1>9 DEF relayVars
  <2>2. LedgerOK' /\ Ledger' = Ledger /\ slot' = slot
    BY <2>1, QuietLedger DEF RelayInv
  <2>3. pulls' = pulls
    BY <2>1 DEF vars
  <2>4. CallOK'
    BY <2>1, <2>2 DEF RelayInv, CallOK, KnownCall, Remembers
  <2>5. PlanOK'
    <3>1. tx # NoTx => SoundAt(tx.saved)'
      BY <2>1 DEF RelayInv, PlanOK
    <3>2. \A g \in DOMAIN outbox : IsGroup(call, Ledger, outbox[g], g = 1 /\ tx = NoTx)'
      BY <2>1, <2>2 DEF RelayInv, PlanOK
    <3>3. tx # NoTx => IsGroup(call, Ledger, tx.left, TRUE)'
      BY <2>1, <2>2 DEF RelayInv, PlanOK
    <3>4. RoomToBuy' <=> RoomToBuy
      BY <2>1 DEF RoomToBuy, vars, queue
    <3> QED
      BY <2>1, <2>2, <2>3, <3>1, <3>2, <3>3, <3>4 DEF RelayInv, PlanOK
  <2>6. KnowledgeOK'
    <3>1. \A op : Begins(op)' <=> Begins(op)
      BY <2>1 DEF Begins
    <3>2. Knows(call)'
      BY <2>1, <2>2 DEF RelayInv, KnowledgeOK, Knows
    <3> QED
      BY <2>1, <2>2, <3>1, <3>2 DEF RelayInv, KnowledgeOK
  <2>7. /\ \A s, index : Open(s, index)' <=> Open(s, index)
        /\ \A s, index, asset : Owed(s, index, asset)' <=> Owed(s, index, asset)
    BY <2>3 DEF Open, Owed, IsPending, IsSettled
  <2>8. RefusedOnlyWhenOvertaken' /\ FailsOnlyWhenOvertaken'
    BY <2>1, <2>3, <2>7
       DEF RelayInv, RefusedOnlyWhenOvertaken, FailsOnlyWhenOvertaken, Open, Owed,
           IsPending, IsSettled, vars, queue, stock
  <2> QED
    BY <2>2, <2>4, <2>5, <2>6, <2>8 DEF RelayInv
<1> QED
  BY <1>1, <1>2, <1>3, <1>4, <1>5, <1>6, <1>7, <1>8, <1>9 DEF RelayNext

\* In every reachable state of a relayer and everybody else the invariant holds.
THEOREM RelayInvariant == RelaySpec => []RelayInv
BY RelayOpens, RelayKeeps, PTL DEF RelaySpec

\* No read is refused behind the relayer's back: once a call has seen its purchase,
\* a lagging node cannot make it fail, only somebody who resolves the purchase or
\* delivers one of its prizes can.
THEOREM RefusalsExplained == RelaySpec => []RefusedOnlyWhenOvertaken
<1>1. RelayInv => RefusedOnlyWhenOvertaken
  BY DEF RelayInv
<1> QED
  BY <1>1, RelayInvariant, PTL

\* A planned settlement, refund or delivery fails only because of its deadline, or
\* because somebody else has done its work: however the plan is split into
\* transactions and whatever happens in between, rollbacks included.  A purchase
\* fails only if the pool as read did not offer it, or after a restock or another
\* purchase: nothing else takes away what was on sale.
THEOREM FailuresExplained == RelaySpec => []FailsOnlyWhenOvertaken
<1>1. RelayInv => FailsOnlyWhenOvertaken
  BY DEF RelayInv
<1> QED
  BY <1>1, RelayInvariant, PTL

-----------------------------------------------------------------------------
(* What a buyer signs.                                                     *)

\* A purchase that executes takes its stock as it was shown.
LEMMA BuyTakesShown ==
    ASSUME RelayInv, [RelayNext]_relayVars
    PROVE  OnlyShownIsSold
<1> SUFFICES ASSUME NEW s \in Seeds, tx # NoTx, pulls[s] = NoPull, pulls'[s] # NoPull,
                    Head(tx.left).op = "buy",
                    NEW p \in Position, p < pulls'[s].inventory_version, tags'[p] # 0
             PROVE  <<p, tags'[p]>> \in Head(tx.left).shown
  BY DEF OnlyShownIsSold
<1>1. PICK left : left = tx.left
  OBVIOUS
<1>2. PICK ix : ix = Head(left)
  OBVIOUS
<1>3. Planned(call, ix) /\ Current(call, ix, Ledger) /\ ix.op = "buy"
  BY <1>1, <1>2, TxFacts
<1>4. ExecuteNext \/ RollBack
  <2>1. ~ UNCHANGED relayVars
    BY DEF relayVars, vars
  <2> QED
    BY <2>1 DEF RelayNext, Start, Read, Land, Lose, Others, NextSlot
<1>5. ~ RollBack
  <2>1. tx.saved = Ledger
    BY <1>1, <1>2, <1>3 DEF RelayInv, PlanOK
  <2>2. RollBack => pulls' = pulls
    BY <2>1, LedgerFields DEF RollBack
  <2> QED
    BY <2>2
<1>6. Execute(ix)
  BY <1>1, <1>2, <1>4, <1>5 DEF ExecuteNext
<1>7. PICK n, version : n = ix.count /\ version = ix.version
  OBVIOUS
<1>8. Buy(ix.seed, ix.buyer, n, version)
  BY <1>3, <1>6, <1>7 DEF Execute
<1>9. pulls'[s].inventory_version = inventory_version
  BY <1>8 DEF Buy, RelayInv, LedgerOK, Sound, TypeOK
<1>10. version = inventory_version /\ tags' = tags
  BY <1>8 DEF Buy, CanBuy, SignedCurrent, stock
<1>11. p < ix.version /\ Ledger.tags[p] # 0
  BY <1>7, <1>9, <1>10, LedgerFields
<1>12. <<p, Ledger.tags[p]>> \in ix.shown
  BY <1>3, <1>11 DEF Current
<1> QED
  BY <1>1, <1>2, <1>10, <1>12, LedgerFields

\* Every prize a purchase can win when it lands was shown to its buyer, in the same
\* tier, however old the answer was that the buyer signed.
THEOREM BuyersSawTheStock == RelaySpec => SignedStock
<1>1. RelayInv /\ [RelayNext]_relayVars => [OnlyShownIsSold]_relayVars
  BY BuyTakesShown
<1> QED
  BY <1>1, RelayInvariant, PTL DEF RelaySpec, SignedStock
=============================================================================
