----------------------------- MODULE MCTriageRun -----------------------------
(***************************************************************************)
(* Instances of TriageRun for TLC.                                         *)
(***************************************************************************)
EXTENDS TriageRun, TLC
=============================================================================
