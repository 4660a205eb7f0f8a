------------------------- MODULE ExactlyOnceLedger -------------------------
(***************************************************************************)
(* What the fill ledger promises, without files, reports or processes:     *)
(* every order has executed some number of shares and the ledger has       *)
(* booked some of them, in the order in which they executed and each once. *)
(***************************************************************************)
EXTENDS Integers

CONSTANT Orders

VARIABLES
    executed,   \* shares of each order executed at the broker
    booked      \* how many of them, from the first, the ledger has booked

vars == <<executed, booked>>

Init ==
    /\ executed \in [Orders -> Nat]
    /\ booked \in [Orders -> Nat]
    /\ \A o \in Orders : booked[o] <= executed[o]

Execute(o) ==
    /\ executed' = [executed EXCEPT ![o] = @ + 1]
    /\ UNCHANGED booked

\* The ledger may be behind; it never skips a share and never repeats one.
Book(o) ==
    \E n \in booked[o] + 1 .. executed[o] :
        /\ booked' = [booked EXCEPT ![o] = n]
        /\ UNCHANGED executed

Next == \E o \in Orders : Execute(o) \/ Book(o)

Spec == Init /\ [][Next]_vars

=============================================================================
