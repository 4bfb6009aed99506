--------------------------- MODULE MCTriageTrigger ---------------------------
(***************************************************************************)
(* Instance of TriageTrigger for TLC.                                      *)
(***************************************************************************)
EXTENDS TriageTrigger
=============================================================================
