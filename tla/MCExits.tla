------------------------------ MODULE MCExits -------------------------------
(***************************************************************************)
(* Execution with the protection by stops and with resets of the journal   *)
(* at any moment, kept apart so that both fit one run: the journal is      *)
(* reset beside risk and signal cycles, while no stop has been placed and  *)
(* the broker has at most an entry, an exit and a retry, and a protection  *)
(* runs while the journal knows every order of the broker.  Every other    *)
(* step is free.                                                           *)
(***************************************************************************)
EXTENDS MCExecution

ResetsApartFromStops ==
    /\ reset # "none" => /\ cycle # "protect"
                         /\ \A id \in StopIds : ~Sent(id)
                         /\ Cardinality({id \in ClientIds : Sent(id)}) <= 3
    /\ cycle = "protect" => \A id \in ClientIds : Sent(id) => Reserved(id)

=============================================================================
