------------------------------- MODULE Promises -------------------------------
(***************************************************************************)
(* What a pool promises its buyers, told without queue, deadlines, tiers   *)
(* or positions.  A sale promises draws.  Until they are drawn each of     *)
(* them is backed twice: by a prize on the shelf, and by its price and a   *)
(* penalty in cash.  The pool then either pays or names the prizes, and    *)
(* what it has named it hands to the buyer, one by one, and to nobody      *)
(* else.  Nothing that anybody does may take the backing away.             *)
(***************************************************************************)
EXTENDS Integers, FiniteSets

CONSTANTS
    Seeds,      \* names of promises, used again once a promise is kept
    Assets, Wallets, Authority, Pool,
    MaxCount,   \* draws in one promise
    Supply      \* payment tokens in circulation

VARIABLES
    phase,      \* absent, open or retired
    price,      \* what a draw costs
    refund,     \* what a draw that does not take place is paid back with
    promises,   \* by seed: kept, a number of draws, or a set of prizes
    shelf,      \* the prizes that can be won
    cash,       \* the payment tokens of the pool
    owner       \* the owner of each asset

terms == <<phase, price, refund>>
pvars == <<terms, promises, shelf, cash, owner>>

\* Nothing is promised, or nothing any more.
Kept == [kind |-> "kept"]
DrawsFor(buyer, n) == [kind |-> "draws", buyer |-> buyer, count |-> n]
PrizesFor(buyer, prizes) == [kind |-> "prizes", buyer |-> buyer, prizes |-> prizes]

OwesDraws(s) == promises[s].kind = "draws"
OwesPrizes(s) == promises[s].kind = "prizes"

\* The draws promised, over all buyers.
DrawsOwed ==
    {w \in Seeds \X (1 .. MaxCount) : OwesDraws(w[1]) /\ w[2] <= promises[w[1]].count}
Owed == Cardinality(DrawsOwed)

Init ==
    /\ phase = "absent" /\ price = 0 /\ refund = 0
    /\ promises = [s \in Seeds |-> Kept]
    /\ shelf = {}
    /\ cash = 0
    /\ owner = [a \in Assets |-> Authority]

-----------------------------------------------------------------------------
(* The terms are set once; retirement is final. *)

Open ==
    /\ phase = "absent" /\ phase' = "open"
    /\ price' \in Nat \ {0}
    /\ refund' \in Nat /\ refund' > price'
    /\ UNCHANGED <<promises, shelf, cash, owner>>

Retire ==
    /\ phase = "open" /\ phase' = "retired"
    /\ UNCHANGED <<price, refund, promises, shelf, cash, owner>>

\* A sale is backed by prizes and, with its own payment, by cash.
Sell(s, buyer, n) ==
    /\ phase = "open"
    /\ promises[s] = Kept
    /\ Owed + n <= Cardinality(shelf)
    /\ refund * (Owed + n) <= cash + price * n
    /\ cash + price * n <= Supply
    /\ promises' = [promises EXCEPT ![s] = DrawsFor(buyer, n)]
    /\ cash' = cash + price * n
    /\ UNCHANGED <<terms, shelf, owner>>

PayBack(s) ==
    /\ OwesDraws(s)
    /\ cash' = cash - refund * promises[s].count
    /\ cash' >= 0
    /\ promises' = [promises EXCEPT ![s] = Kept]
    /\ UNCHANGED <<terms, shelf, owner>>

\* Every draw wins a prize of its own, which nobody else can win from now on.
Award(s, prizes) ==
    /\ OwesDraws(s)
    /\ prizes \subseteq shelf /\ Cardinality(prizes) = promises[s].count
    /\ promises' = [promises EXCEPT ![s] = PrizesFor(promises[s].buyer, prizes)]
    /\ shelf' = shelf \ prizes
    /\ UNCHANGED <<terms, cash, owner>>

Hand(s, a) ==
    /\ OwesPrizes(s) /\ a \in promises[s].prizes
    /\ owner[a] = Pool
    /\ owner' = [owner EXCEPT ![a] = promises[s].buyer]
    /\ LET left == promises[s].prizes \ {a} IN
       promises' = [promises EXCEPT ![s] =
                      IF left = {} THEN Kept ELSE PrizesFor(promises[s].buyer, left)]
    /\ UNCHANGED <<terms, shelf, cash>>

\* A prize is given, or bought with cash that backs nothing.
Restock(a) ==
    /\ phase = "open"
    /\ owner[a] \in Wallets
    /\ owner' = [owner EXCEPT ![a] = Pool]
    /\ shelf' = shelf \cup {a}
    /\ cash' \in 0 .. cash
    /\ refund * Owed <= cash'
    /\ UNCHANGED <<terms, promises>>

\* What is left over goes back once no draw is owed.
Clear(a) ==
    /\ phase = "retired" /\ DrawsOwed = {}
    /\ a \in shelf /\ owner[a] = Pool
    /\ owner' = [owner EXCEPT ![a] = Authority]
    /\ shelf' = shelf \ {a}
    /\ UNCHANGED <<terms, promises, cash>>

\* Cash comes and goes, but for what backs the draws owed.
MoveCash ==
    /\ cash' \in 0 .. Supply
    /\ refund * Owed <= cash'
    /\ UNCHANGED <<terms, promises, shelf, owner>>

\* Owners do with their assets as they like, and the pool's stay where they are.
Trade(a) ==
    /\ owner[a] \in Wallets
    /\ \E to \in Wallets \cup {Pool} : owner' = [owner EXCEPT ![a] = to]
    /\ UNCHANGED <<terms, promises, shelf, cash>>

Next ==
    \/ Open
    \/ Retire
    \/ \E s \in Seeds, b \in Wallets, n \in 1 .. MaxCount : Sell(s, b, n)
    \/ \E s \in Seeds : PayBack(s)
    \/ \E s \in Seeds : \E prizes \in SUBSET shelf : Award(s, prizes)
    \/ \E s \in Seeds, a \in Assets : Hand(s, a)
    \/ \E a \in Assets : Restock(a) \/ Clear(a) \/ Trade(a)
    \/ MoveCash

Spec == Init /\ [][Next]_pvars
=============================================================================
