----------------------------- MODULE MCLiveRisk -----------------------------
(* A small account: two values, a deposit, two reference rates.         *)
EXTENDS LiveRisk, TLC

MCAssets == {8, 10}
MCAmounts == {2}
MCRates == {4, 5}
=============================================================================
