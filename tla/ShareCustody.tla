---------------------------- MODULE ShareCustody ----------------------------
(***************************************************************************)
(* What the operator promises about the shares it holds, without journal,  *)
(* cycles or retries: the shares of a symbol are under at most one sell    *)
(* order at a time, never for more than is held, and only an execution of  *)
(* that order reduces the holding.                                         *)
(***************************************************************************)
EXTENDS Integers, FiniteSets

CONSTANTS
    Symbols,     \* the traded symbols
    Ids,         \* the names of sell orders
    Opening      \* the shares held at the start

VARIABLES
    held,        \* shares held of each symbol
    offers       \* the sell orders of each symbol, as [id, left]

vars == <<held, offers>>

Offers == [id : Ids, left : Nat \ {0}]

Init ==
    /\ held = Opening
    /\ offers = [s \in Symbols |-> {}]

\* An entry executes.
Acquire(s) ==
    /\ held' = [held EXCEPT ![s] = @ + 1]
    /\ UNCHANGED offers

\* A first, or a replacement, sell order: nothing else may be on offer.
Offer(s, id, n) ==
    /\ offers[s] = {}
    /\ n \in 1..held[s]
    /\ offers' = [offers EXCEPT ![s] = {[id |-> id, left |-> n]}]
    /\ UNCHANGED held

\* The broker replaces the order on offer by one of another quantity.
Amend(s, o, n) ==
    /\ o \in offers[s]
    /\ n \in 1..held[s]
    /\ offers' = [offers EXCEPT ![s] = {[o EXCEPT !.left = n]}]
    /\ UNCHANGED held

\* One share is sold.
Execute(s, o) ==
    /\ o \in offers[s]
    /\ held' = [held EXCEPT ![s] = @ - 1]
    /\ offers' = [offers EXCEPT ![s] =
                     (@ \ {o}) \cup {r \in {[o EXCEPT !.left = @ - 1]} : r.left > 0}]

\* The broker confirms that the order is over.
Withdraw(s, o) ==
    /\ o \in offers[s]
    /\ offers' = [offers EXCEPT ![s] = @ \ {o}]
    /\ UNCHANGED held

SymbolStep(s) ==
    \/ Acquire(s)
    \/ \E id \in Ids, n \in 1..held[s] : Offer(s, id, n)
    \/ \E o \in offers[s] :
           \/ Execute(s, o)
           \/ Withdraw(s, o)
           \/ \E n \in 1..held[s] : Amend(s, o, n)

\* A step changes something: stuttering is left to Spec, and recognized first.
Next == vars' # vars /\ \E s \in Symbols : SymbolStep(s)

Spec == Init /\ [][Next]_vars

-----------------------------------------------------------------------------
TypeOK ==
    /\ held \in [Symbols -> Nat]
    /\ offers \in [Symbols -> SUBSET Offers]

\* At most one sell order of a symbol is on offer, for no more than is held:
\* no execution can turn the holding negative.
OneOfferWithinHoldings ==
    \A s \in Symbols :
        /\ \A o, p \in offers[s] : o = p
        /\ \A o \in offers[s] : o.left <= held[s]

=============================================================================
