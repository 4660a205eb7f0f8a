---------------------------- MODULE MCFillLedger ----------------------------
(***************************************************************************)
(* Instances of FillLedger for TLC: one symbol; an entry booked by the     *)
(* version without cursors, an entry, the exit of the symbol and its       *)
(* protective stop, which the broker may replace.                          *)
(***************************************************************************)
EXTENDS FillLedger, TLC

CONSTANTS s,               \* the symbol
          old, entry,      \* the BUY orders of two days
          exit, stop,      \* the SELL orders
          moved,           \* the order that replaces the stop
          oldStop,         \* a stop booked by the version without cursors
          worker, desktop  \* the synchronizing processes

CONSTANTS MaxShares,       \* the size of the entry
          StopShares       \* the size of its stop; the others have one share

MCKeyOf ==
    [o \in Orders |-> CASE o = old   -> <<s, "buy", 1>>
                        [] o = entry -> <<s, "buy", 2>>
                        [] o = oldStop -> <<s, "sell", 1>>
                        [] OTHER     -> <<s, "sell", 2>>]

MCOrderSize == [o \in Orders |-> IF o = entry THEN MaxShares
                              ELSE IF o = stop THEN StopShares ELSE 1]

ReaderSymmetry == Permutations(Readers)

=============================================================================
