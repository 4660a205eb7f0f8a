---------------------------- MODULE MCExecution -----------------------------
(***************************************************************************)
(* Small instances of Execution for TLC.                                   *)
(***************************************************************************)
EXTENDS Execution

CONSTANTS a, b     \* model values: the symbols

OneSymbol  == {a}
TwoSymbols == {a, b}
OneDay     == {1}
TwoDays    == {1, 2}

\* All of the first symbol's shares, the largest order, are already held.
HoldingA == [s \in Symbols |-> IF s = a THEN MaxQuantity ELSE 0]
Flat     == [s \in Symbols |-> 0]

=============================================================================
