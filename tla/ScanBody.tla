------------------------------- MODULE ScanBody -------------------------------
(***************************************************************************)
(* scan_body of extract_callgraph.py: it reads a function body token by    *)
(* token, without a parser, and gives every call the condition that        *)
(* encloses it.  Beside the scanner runs the parse it does without: the    *)
(* statements and braces that are open, from which the tokens are drawn.   *)
(*                                                                         *)
(* Lambdas are skipped and scanned as bodies of their own.  The condition  *)
(* after if, for, while or switch is skipped as a whole, calls included.   *)
(***************************************************************************)
EXTENDS Naturals, Sequences, FiniteSets, SequencesExt

CONSTANTS
    Conds,     \* bound: conditions that are open at once
    MaxNest    \* bound: statements and braces that are open at once

NoCond == "none"

ASSUME ScanAssumption == NoCond \notin Conds

VARIABLES
    nest,        \* parse: "cond" and "header" statements, "block" and "init" braces
    place,       \* parse: before a statement, in an expression, after a statement
    depth,       \* scanner: brace_depth
    pending,     \* scanner: pending_cond
    condStack,   \* scanner: cond_stack
    recorded     \* scanner: condition of the call just emitted, <<>> if none was

parse == <<nest, place>>
scanner == <<depth, pending, condStack, recorded>>
scanVars == <<parse, scanner>>

ScanInit ==
    /\ nest = <<>> /\ place = "before"
    /\ depth = 0 /\ pending = NoCond /\ condStack = <<>> /\ recorded = <<>>

Top == IF nest = <<>> THEN "body" ELSE Last(nest).what
Push(what, cond) ==
    /\ Len(nest) < MaxNest
    /\ nest' = Append(nest, [what |-> what, cond |-> cond])

InUse == {nest[i].cond : i \in DOMAIN nest} \cup {condStack[i].cond : i \in DOMAIN condStack} \cup {pending}

-----------------------------------------------------------------------------
(* if, for, while, switch: the condition waits for a brace or a semicolon. *)
Control(c) ==
    /\ place = "before" /\ c \notin InUse
    /\ Push("cond", c)
    /\ pending' = c /\ recorded' = <<>>
    /\ UNCHANGED <<place, depth, condStack>>

(* do, try, a label; also if constexpr, where no ( follows the keyword.    *)
Header ==
    /\ place = "before"
    /\ Push("header", NoCond)
    /\ recorded' = <<>>
    /\ UNCHANGED <<place, depth, pending, condStack>>

Else ==
    /\ place = "after" /\ Top = "cond"
    /\ nest' = Append(Front(nest), [what |-> "header", cond |-> NoCond])
    /\ place' = "before" /\ recorded' = <<>>
    /\ UNCHANGED <<depth, pending, condStack>>

(* A brace opens the scope of the condition that is pending.               *)
ScanOpen ==
    /\ depth' = depth + 1
    /\ condStack' = IF pending = NoCond THEN condStack
                    ELSE Append(condStack, [cond |-> pending, depth |-> depth + 1])
    /\ pending' = NoCond /\ recorded' = <<>>

(* The conditions on top whose scope is deeper than what is left go.       *)
Staying(d) == Max({0} \cup {s \in DOMAIN condStack : condStack[s].depth <= d})
ScanClose ==
    /\ depth' = depth - 1
    /\ condStack' = SubSeq(condStack, 1, Staying(depth'))
    /\ recorded' = <<>>
    /\ UNCHANGED pending

OpenBlock == place = "before" /\ Push("block", NoCond) /\ ScanOpen /\ UNCHANGED place

CloseBlock ==
    /\ place = "before" /\ Top = "block"
    /\ nest' = Front(nest) /\ place' = "after"
    /\ ScanClose

OpenInit == place = "within" /\ Push("init", NoCond) /\ ScanOpen /\ UNCHANGED place

CloseInit ==
    /\ place = "within" /\ Top = "init"
    /\ nest' = Front(nest)
    /\ ScanClose
    /\ UNCHANGED place

Call ==
    /\ place \in {"before", "within"}
    /\ place' = "within"
    /\ recorded' = <<IF condStack = <<>> THEN NoCond ELSE Last(condStack).cond>>
    /\ UNCHANGED <<nest, depth, pending, condStack>>

KeepPending(c) == c  \* mutant: a condition without braces stays pending
DropPending(c) == NoCond

Semicolon ==
    /\ place \in {"before", "within"} /\ Top # "init"
    /\ place' = "after"
    /\ pending' = DropPending(pending) /\ recorded' = <<>>
    /\ UNCHANGED <<nest, depth, condStack>>

(* No token: a statement that ends completes those it is the body of.      *)
Complete ==
    /\ place = "after"
    /\ IF Top \in {"cond", "header"} THEN nest' = Front(nest) /\ UNCHANGED place
       ELSE place' = "before" /\ UNCHANGED nest
    /\ UNCHANGED scanner

ScanNext ==
    \/ \E c \in Conds : Control(c)
    \/ Header \/ Else \/ OpenBlock \/ CloseBlock \/ OpenInit \/ CloseInit
    \/ Call \/ Semicolon \/ Complete

ScanSpec == ScanInit /\ [][ScanNext]_scanVars

-----------------------------------------------------------------------------
Braced(i) == /\ nest[i].what = "cond"
             /\ i < Len(nest) /\ nest[i + 1].what = "block"

(* Of the conditions with a block of their own a call gets no other than   *)
(* the innermost one around it, and a call without a condition is in no    *)
(* such block.  A condition without braces may be missed (that is what     *)
(* InnermostCondition is about); one that is given is open around the call.*)
ConditionEncloses ==
    recorded # <<>> =>
        IF recorded[1] = NoCond THEN \A i \in DOMAIN nest : ~Braced(i)
        ELSE \E i \in DOMAIN nest :
                /\ nest[i].what = "cond" /\ nest[i].cond = recorded[1]
                /\ \A j \in i + 1 .. Len(nest) : ~Braced(j)

(* "for every call site within each body emits [...] the text of the       *)
(* innermost enclosing if/for/while/switch condition" (module docstring).  *)
InnermostCondition ==
    LET Around == {i \in DOMAIN nest : nest[i].what = "cond"} IN
    recorded # <<>> =>
        recorded[1] = IF Around = {} THEN NoCond ELSE nest[Max(Around)].cond
=============================================================================
