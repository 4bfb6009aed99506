--------------------------- MODULE MCOracleWorker ---------------------------
(***************************************************************************)
(* Instances of OracleWorker for TLC.                                      *)
(***************************************************************************)
EXTENDS OracleWorker
=============================================================================
