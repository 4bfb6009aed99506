------------------------------ MODULE MCDedupDB ------------------------------
(***************************************************************************)
(* Instances of DedupDB for TLC.                                           *)
(***************************************************************************)
EXTENDS DedupDB, TLC

(* The processes run the same program, and DedupDB only compares the       *)
(* (guilty_pass, bisect_index) pairs, and the hashes, with each other.     *)
Symmetry == Permutations(Clients) \cup Permutations(Keys) \cup Permutations(Hashes)
=============================================================================
