------------------------------ MODULE CallGraph ------------------------------
(***************************************************************************)
(* What the coverage tools make of the static call graph: the restriction  *)
(* to what a root reaches (extract_callgraph.py --root), the frontier of   *)
(* reached code (coverage_overlay.py), and the chains of calls             *)
(* (enumerate_static_chains.py).  Each resolves the bare name of a callee  *)
(* in its own way, and the last two are fed the graph the first restricts. *)
(*                                                                         *)
(* A node is its qualified name, a sequence of components; a lambda        *)
(* "Parent::lambda@line" has the line as an own component.                 *)
(***************************************************************************)
EXTENDS Naturals, Sequences, FiniteSets, SequencesExt

CONSTANTS
    Nodes,        \* function bodies and lambdas of the source file
    Tracked,      \* classes that enumerate_static_chains.py keeps
    PassClass,    \* the one of --scope slpvectorizer-pass
    ChainLengths  \* values of --k

LambdaAt(line) == <<"lambda", line>>
IsLambda(n) == Len(n) > 2 /\ n[Len(n) - 1] = "lambda"
Within(n) == SubSeq(n, 1, Len(n) - 2)  \* of a lambda: what it is written in

(* What extract_callgraph.py lists: a lambda only with what it is in; the  *)
(* name of a function has no "lambda@" in it.                              *)
ASSUME GraphAssumption ==
    /\ IsFiniteSet(Nodes) /\ ChainLengths \subseteq Nat \ {0}
    /\ PassClass \in Tracked
    /\ \A n \in Nodes :
          /\ n \in Seq(Range(n)) /\ n # <<>>
          /\ IF IsLambda(n) THEN Within(n) \in Nodes
             ELSE \A i \in DOMAIN n : n[i] # "lambda"

Callees == {Last(n) : n \in {m \in Nodes : ~IsLambda(m)}}

(* A lambda is listed by the function or lambda it is written in.          *)
Lambdas(n) == {m \in Nodes : IsLambda(m) /\ Within(m) = n}

VARIABLES
    calls,    \* bare names called by each node
    roots,    \* nodes whose name contains the --root substring
    work,     \* stack of _restrict_to_reachable
    visited   \* its visited set

graphVars == <<calls, roots, work, visited>>

GraphInit ==
    /\ calls \in [Nodes -> SUBSET Callees]
    /\ roots \in {{n} : n \in Nodes}
    /\ work = SetToSeq(roots)
    /\ visited = {}

-----------------------------------------------------------------------------
(* _restrict_to_reachable: a callee stands for every node of that name.    *)
SomeCandidate(n, callee) ==  \* mutant: the caller's class hides the others
    LET all == {m \in Nodes : ~IsLambda(m) /\ Last(m) = callee}
        same == {m \in all : Front(m) = Front(n)}
    IN  IF same # {} THEN same ELSE all
Candidates(n, callee) == {m \in Nodes : ~IsLambda(m) /\ Last(m) = callee}

Visit ==
    /\ work # <<>>
    /\ LET n == Last(work)
           found == UNION {Candidates(n, c) : c \in calls[n]}
       IN  /\ work' = IF n \in visited THEN Front(work)
                      ELSE Front(work) \o SetToSeq(found) \o SetToSeq(Lambdas(n))
           /\ visited' = visited \cup {n}
    /\ UNCHANGED <<calls, roots>>

GraphNext == Visit

GraphSpec == GraphInit /\ [][GraphNext]_graphVars

-----------------------------------------------------------------------------
(* coverage_overlay.py: resolve_callee prefers a function of exactly that  *)
(* name, then the class of the parent; a call is covered if any node it    *)
(* may mean is.                                                            *)
Resolve(graph, callee, parent) ==
    LET named == {n \in graph : ~IsLambda(n) /\ Last(n) = callee}
        class == IF IsLambda(parent) THEN Within(parent) ELSE Front(parent)
        same == {n \in named : class # <<>> /\ IsStrictPrefix(class, n)}
    IN  IF <<callee>> \in graph THEN {<<callee>>}
        ELSE IF same # {} THEN same ELSE named

(* The edges, caller and name, from reached code to code that is not.      *)
Frontier(graph, reached) ==
    {e \in (graph \cap reached) \X Callees :
        /\ e[2] \in calls[e[1]]
        /\ Resolve(graph, e[2], e[1]) # {}
        /\ Resolve(graph, e[2], e[1]) \cap reached = {}}

-----------------------------------------------------------------------------
(* enumerate_static_chains.py: names as the probe prints them, <<>> for    *)
(* those it drops.                                                         *)
FunctionOf(n) == SubSeq(n, 1, Min({i \in DOMAIN n : n[i] = "lambda"}) - 1)
Home(n) == IF IsLambda(n) THEN FunctionOf(n) ELSE n

Normalise(n) ==
    IF IsLambda(n) THEN <<Last(FunctionOf(n)), "lambda">>
    ELSE IF n[1] \in Tracked /\ Len(n) > 1 THEN n ELSE <<>>

(* A name also finds the lambdas of the functions of that name.            *)
Adjacent(graph, n) ==
    {m \in graph \ {n} :
        /\ Normalise(m) # <<>>
        /\ \/ m \in Lambdas(n)
           \/ \E c \in calls[n] : Last(Home(m)) = c}

Steps(graph, n) == {m \in Adjacent(graph, n) : Normalise(m) # Normalise(n)}

Paths(graph, from, k) ==
    {p \in [1..k -> graph] :
        /\ p[1] \in from /\ Normalise(p[1]) # <<>>
        /\ \A i \in 1..k - 1 : p[i + 1] \in Steps(graph, p[i])}

Chains(graph, from, k) ==
    {[i \in 1..k |-> Normalise(p[i])] : p \in Paths(graph, from, k)}

(* --scope slpvectorizer-pass: the nodes of the pass and the lambdas of    *)
(* functions that have the name of one, if the graph lists that one.       *)
InPass(n) == Len(n) > 1 /\ n[1] = PassClass

PassScope(graph) ==
    {n \in graph :
        InPass(n) \/ \E f \in graph : /\ IsLambda(n) /\ ~IsLambda(f)
                                     /\ InPass(f) /\ Last(f) = Last(FunctionOf(n))}

-----------------------------------------------------------------------------
(* Lambdas of the function the graph was restricted to.                    *)
RootLambdas == {n \in Nodes : IsLambda(n) /\ \E r \in roots : FunctionOf(n) = Home(r)}

(* Restricting the graph to a root loses nothing of what the later tools   *)
(* would say of the functions it keeps, whatever a probe has reached and   *)
(* although they resolve callees differently: neither their frontier nor   *)
(* the chains they start; in the scope of the pass it loses only chains    *)
(* that start with a lambda of the root, which is kept but no longer taken *)
(* for one of the pass if nothing reached calls its function's name.       *)
RestrictionLosesNothing ==
    work = <<>> =>
        /\ \A reached \in SUBSET Nodes :
              Frontier(visited, reached) =
                  {e \in Frontier(Nodes, reached) : e[1] \in visited}
        /\ \A k \in ChainLengths : Chains(visited, visited, k) = Chains(Nodes, visited, k)
        /\ \A k \in ChainLengths :
              Chains(PassScope(visited), visited \ RootLambdas, k) =
                  Chains(PassScope(Nodes), visited \ RootLambdas, k)
=============================================================================
