----------------------------- MODULE BisectBlame -----------------------------
(***************************************************************************)
(* bisect_blame.sh: a binary search on -opt-bisect-limit for the pass that *)
(* makes Alive2 reject the optimised witness.  Every point of the search   *)
(* runs opt and alive-tv under `timeout`, so a point may give no verdict.  *)
(***************************************************************************)
EXTENDS Integers

CONSTANTS
    MaxPasses,   \* bound: passes the pipeline runs on the witness
    PerOpt,      \* PER_OPT_TIMEOUT
    PerAlive,    \* PER_ALIVE_TIMEOUT
    Deadline     \* WHOLE_BISECT_DEADLINE

ASSUME BisectAssumption ==
    /\ MaxPasses \in Nat /\ PerOpt \in Nat /\ PerAlive \in Nat /\ Deadline \in Nat

VARIABLES
    step,      \* next step of the script; "blamed" and "failed" are its ends
    n,         \* MAX_N
    lo, hi,    \* LO and HI
    judged,    \* the last outcome at each limit
    probes,    \* iterations of the search
    elapsed    \* SECONDS - START

vars == <<step, n, lo, hi, judged, probes, elapsed>>

Limits == 0..MaxPasses
Outcomes == {"sound", "unsound", "inconclusive", "opt_failed"}

Init ==
    /\ step = "discover"
    /\ n = 0 /\ lo = 0 /\ hi = 0
    /\ judged = [i \in Limits |-> "unknown"]
    /\ probes = 0 /\ elapsed = 0

Takes(most) == \E t \in 0..most : elapsed' = elapsed + t

(* run_opt and check_sound at a limit: the outcome o is recorded.          *)
Judge(limit, o) ==
    /\ judged' = [judged EXCEPT ![limit] = o]
    /\ Takes(IF o = "opt_failed" THEN PerOpt ELSE PerOpt + PerAlive)

-----------------------------------------------------------------------------
(* Counts the passes of the full pipeline; fails without any.              *)
Discover ==
    /\ step = "discover"
    /\ Takes(PerOpt)
    /\ n' \in Limits
    /\ step' = IF n' >= 1 THEN "confirm_hi" ELSE "failed"
    /\ UNCHANGED <<lo, hi, judged, probes>>

(* Only a definite "unsound" for the full pipeline is good enough...       *)
ConfirmHi ==
    /\ step = "confirm_hi"
    /\ \E o \in Outcomes :
          /\ Judge(n, o)
          /\ step' = IF o = "unsound" THEN "confirm_lo" ELSE "failed"
    /\ UNCHANGED <<n, lo, hi, probes>>

(* ...while without any pass everything but "unsound" or no output is.     *)
LoAccepted(o) == o \in {"sound", "inconclusive"}

FirstHi == n

ConfirmLo ==
    /\ step = "confirm_lo"
    /\ \E o \in Outcomes :
          /\ Judge(0, o)
          /\ IF LoAccepted(o)
             THEN step' = "search" /\ lo' = 0 /\ hi' = FirstHi
             ELSE step' = "failed" /\ UNCHANGED <<lo, hi>>
    /\ UNCHANGED <<n, probes>>

-----------------------------------------------------------------------------
Open == lo + 1 < hi

NextToHi == hi - 1  \* mutant: a linear search
Mid == (lo + hi) \div 2

InDeadlineAlways == TRUE  \* mutant: deadline_check is not called in the loop
InDeadline == elapsed <= Deadline

(* Only "unsound" moves HI; "sound", "inconclusive" and a failed opt move  *)
(* LO.                                                                     *)
MovesHiUnlessSound(o) == o # "sound"  \* mutant: 0) LO=MID, anything else HI=MID
MovesHi(o) == o = "unsound"

Probe ==
    /\ step = "search"
    /\ Open
    /\ InDeadline
    /\ \E o \in Outcomes :
          /\ Judge(Mid, o)
          /\ IF MovesHi(o)
             THEN hi' = Mid /\ UNCHANGED lo
             ELSE lo' = Mid /\ UNCHANGED hi
    /\ probes' = probes + 1
    /\ UNCHANGED <<step, n>>

DeadlineContinues ==  \* mutant: `continue` where the script exits
    step = "search" /\ Open /\ ~InDeadline /\ UNCHANGED vars

DeadlinePassed ==
    /\ step = "search"
    /\ Open
    /\ ~InDeadline
    /\ step' = "failed"
    /\ UNCHANGED <<n, lo, hi, judged, probes, elapsed>>

(* opt runs at HI once more, and its log names the pass, or does not.      *)
Blame ==
    /\ step = "search"
    /\ ~Open
    /\ Takes(PerOpt)
    /\ step' \in {"blamed", "failed"}
    /\ UNCHANGED <<n, lo, hi, judged, probes>>

Next == Discover \/ ConfirmHi \/ ConfirmLo \/ Probe \/ DeadlinePassed \/ Blame

Spec == Init /\ [][Next]_vars
(* A single sequential process whose tools all run under a timeout.        *)
FairSpec == Spec /\ WF_vars(Next)

-----------------------------------------------------------------------------
Searching == step \in {"search", "blamed"}

(* Types of the script's variables; LO and HI are limits of the pipeline.  *)
TypeOK ==
    /\ step \in {"discover", "confirm_hi", "confirm_lo", "search", "blamed", "failed"}
    /\ n \in Limits /\ lo \in Limits /\ hi \in Limits
    /\ judged \in [Limits -> Outcomes \cup {"unknown"}]
    /\ probes \in Nat /\ elapsed \in Nat

(* What the search keeps: HI has been judged unsound, LO has been judged   *)
(* and not unsound, and nothing between them has been judged.              *)
Boundary ==
    Searching =>
        /\ lo < hi /\ hi <= n
        /\ judged[hi] = "unsound"
        /\ judged[lo] \in {"sound", "inconclusive", "opt_failed"}
        /\ \A i \in Limits : lo < i /\ i < hi => judged[i] = "unknown"

(* "so the reported guilty index has a *definite* unsound boundary": the   *)
(* blamed pass is the one between a limit that is unsound and the limit    *)
(* before it, which was judged and is not known to be unsound.             *)
BlamedIsBoundary ==
    step = "blamed" =>
        /\ hi = lo + 1
        /\ judged[hi] = "unsound"
        /\ judged[hi - 1] \in {"sound", "inconclusive", "opt_failed"}

(* The search halves: after k probes the interval is no wider than MAX_N   *)
(* divided by 2^k, rounded up.                                             *)
PowerOf2[k \in Nat] == IF k = 0 THEN 1 ELSE 2 * PowerOf2[k - 1]
Halved == Searching => (hi - lo) * PowerOf2[probes] <= n + PowerOf2[probes] - 1

(* The wall deadline holds up to the probe under way when it passes and    *)
(* the last opt, in a configuration whose deadline covers the confirmation *)
(* of both ends.                                                           *)
EndsNearDeadline ==
    Deadline >= 3 * PerOpt + 2 * PerAlive =>
        elapsed <= Deadline + 2 * PerOpt + PerAlive

(* The script always prints its row.                                       *)
Terminates == <>(step \in {"blamed", "failed"})
=============================================================================
