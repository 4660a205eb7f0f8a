------------------------ MODULE MCRuntimeMigration ------------------------
(* Two checkouts of the project, a home runtime directory, and applications *)
(* that move the journals in every direction --runtime-dir allows.          *)
EXTENDS RuntimeMigration, TLC
CONSTANTS var1, var2, home, home1, swap, back

MCSource == home1 :> var1 @@ swap :> var2 @@ back :> var1
MCTarget == home1 :> home @@ swap :> var1 @@ back :> var2
=============================================================================
