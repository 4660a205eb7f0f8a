---------------------------- MODULE MCSupervisor ----------------------------
(* Two application processes, two manager and two worker slots.            *)
EXTENDS Supervisor, TLC

CONSTANTS u1, u2, m1, m2, w1, w2

MCApps == {u1, u2}
MCManagers == {m1, m2}
MCWorkers == {w1, w2}
=============================================================================
