---------------------------- MODULE MCBisectBlame ----------------------------
(***************************************************************************)
(* Instance of BisectBlame for TLC.                                        *)
(***************************************************************************)
EXTENDS BisectBlame
=============================================================================
