--------------------------- MODULE MCRunLifecycle ---------------------------
(***************************************************************************)
(* Instance of RunLifecycle for TLC.  Invocations of one script are alike. *)
(* When commands overlap a set-up, at most one stop comes, and what the    *)
(* children have started is not followed: the properties that need more    *)
(* are about the other behaviours.                                         *)
(***************************************************************************)
EXTENDS RunLifecycle, TLC

Symmetry == Permutations(Starts) \cup Permutations(Stops)

SmallOverlaps ==
    overlaps => Cardinality({q \in Stops : at[q] # "idle"}) <= 1 /\ helpers = {}
=============================================================================
