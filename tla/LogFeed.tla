------------------------------- MODULE LogFeed -------------------------------
(***************************************************************************)
(* What scripts/analysis/parse_centipede_log.py promises: run.log grows    *)
(* byte by byte, and its complete lines are passed on one by one, each     *)
(* once and in the order of the log, to one file per kind of row.          *)
(***************************************************************************)
EXTENDS Naturals, Sequences, SequencesExt

CONSTANTS
    Kinds,     \* the contents that make a row: a batch of statistics, an event
    NL,        \* the newline
    MaxLog     \* bound: bytes of the log

VARIABLES
    log,       \* run.log
    fed        \* kind -> rows passed on, each named by where its line ends

vars == <<log, fed>>

(* A line of one content is a row of that kind; any other line is noise.   *)
Row(l, k, end) ==
    /\ l[end] = NL
    /\ end > 1 /\ l[end - 1] = k
    /\ end = 2 \/ l[end - 2] = NL
Rows(l, k, upto) == {end \in 1..upto : Row(l, k, end)}

Init == log = <<>> /\ fed = [k \in Kinds |-> <<>>]

Grow ==
    /\ Len(log) < MaxLog
    /\ \E t \in Kinds \cup {NL} : log' = Append(log, t)
    /\ UNCHANGED fed

(* The line that ends here is next: the rows before it are passed on.      *)
Feed ==
    /\ \E end \in DOMAIN log :
         /\ log[end] = NL
         /\ \A k \in Kinds : Range(fed[k]) = Rows(log, k, end - 1)
         /\ fed' = [k \in Kinds |->
                      IF Row(log, k, end) THEN Append(fed[k], end) ELSE fed[k]]
    /\ UNCHANGED log

Next == Grow \/ Feed
Spec == Init /\ [][Next]_vars
=============================================================================
