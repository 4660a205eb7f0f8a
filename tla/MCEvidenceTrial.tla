-------------------------- MODULE MCEvidenceTrial --------------------------
(* Two sessions, two cohorts, and updates that may bring any prefix.        *)
EXTENDS EvidenceTrial
=============================================================================
