---------------------------- MODULE TriageTrigger ----------------------------
(***************************************************************************)
(* From a miscompilation to its row in the dedup database: the alive_tv    *)
(* shards count what they find in a file under `flock -x 9` and start a    *)
(* triage for every TRIAGE_EVERY of them; triage_miscompilations.sh takes  *)
(* `flock -n 8`, or gives up, and backfills the database before it calls   *)
(* the agent.  A triage an operator starts by hand competes with them.     *)
(*                                                                         *)
(* flock locks belong to an open file, and a child inherits its parent's   *)
(* open files: the triage a shard starts in the background holds the       *)
(* counter's lock (descriptor 9) until the triage exits.                   *)
(***************************************************************************)
EXTENDS Naturals, FiniteSets

CONSTANTS
    Shards,        \* the alive_tv workers of the run
    TriageEvery,   \* TRIAGE_EVERY
    MaxFindings,   \* bound: miscompilations found in the run
    MaxManual,     \* bound: triages started by hand
    MaxKills       \* bound: triages that are killed, backfills that fail

Triages == {"triggered", "manual"}

ASSUME TriggerAssumption ==
    /\ Shards \cap Triages = {}
    /\ TriageEvery \in Nat \ {0}
    /\ MaxFindings \in Nat /\ MaxManual \in Nat /\ MaxKills \in Nat

Findings == 1..MaxFindings

VARIABLES
    found,        \* miscompilations found so far, numbered from 1
    shard,        \* step of each shard: idle, reduce, wait, locked
    holding,      \* the finding each shard works on (0: none)
    seen,         \* the count each shard has read under the lock
    reduced,      \* findings whose *.reduced.ll is on disk
    counted,      \* findings that went through the counter
    count,        \* .miscomp_count
    lock9,        \* processes that hold .miscomp_count.lock open
    lock8,        \* the triage that holds .triage.lock, or "none"
    triage,       \* step of each triage: off, start, backfill, agent, or
                  \* warned (the agent is called after a failed backfill)
    due,          \* findings counted when the triage was started
    backlog,      \* witnesses the triage's backfill has still to register
    registered,   \* registrations per finding
    triggers, manuals, kills   \* triages triggered, started by hand, killed

shardVars == <<found, shard, holding, seen, reduced, counted, count>>
triageVars == <<lock8, triage, due, backlog, registered>>
vars == <<shardVars, lock9, triageVars, triggers, manuals, kills>>

Registered == {f \in Findings : registered[f] > 0}

Init ==
    /\ found = 0 /\ reduced = {} /\ counted = {} /\ count = 0
    /\ shard = [s \in Shards |-> "idle"]
    /\ holding = [s \in Shards |-> 0] /\ seen = [s \in Shards |-> 0]
    /\ lock9 = {} /\ lock8 = "none"
    /\ triage = [t \in Triages |-> "off"]
    /\ due = [t \in Triages |-> {}] /\ backlog = [t \in Triages |-> {}]
    /\ registered = [f \in Findings |-> 0]
    /\ triggers = 0 /\ manuals = 0 /\ kills = 0

-----------------------------------------------------------------------------
(* alive_tv_check on a failing entry.                                      *)
Find(s) ==
    /\ shard[s] = "idle"
    /\ found < MaxFindings
    /\ found' = found + 1
    /\ holding' = [holding EXCEPT ![s] = found + 1]
    /\ shard' = [shard EXCEPT ![s] = "reduce"]
    /\ UNCHANGED <<seen, reduced, counted, count, lock9, triageVars, triggers, manuals, kills>>

(* reduce_miscompilation.sh runs to its end before the shard goes on; it   *)
(* leaves no *.reduced.ll when Alive2 does not confirm the finding.        *)
Reduce(s) ==
    /\ shard[s] = "reduce"
    /\ reduced' \in {reduced, reduced \cup {holding[s]}}
    /\ shard' = [shard EXCEPT ![s] = "wait"]
    /\ UNCHANGED <<found, holding, seen, counted, count, lock9, triageVars,
                   triggers, manuals, kills>>

LockUnchecked == TRUE  \* mutant: no flock
LockFree == lock9 = {}

Lock(s) ==
    /\ shard[s] = "wait"
    /\ LockFree
    /\ lock9' = lock9 \cup {s}
    /\ seen' = [seen EXCEPT ![s] = count]
    /\ shard' = [shard EXCEPT ![s] = "locked"]
    /\ UNCHANGED <<found, holding, reduced, counted, count, triageVars,
                   triggers, manuals, kills>>

(* The subshell that opened descriptor 9 ends; a triage it started keeps   *)
(* its copy of the descriptor.                                             *)
Close9Nowhere(holders, s) == holders  \* mutant: the shard keeps the descriptor open
Close9(holders, s) == holders \ {s}

ChildCloses9(holders) == holders  \* mutant: the triage is started with 9>&-
ChildInherits9(holders) == holders \cup {"triggered"}

Reached(c) == c >= TriageEvery

CountedNow(s) == counted \cup {holding[s]}

Store(s) ==
    LET c == seen[s] + 1 IN
    /\ shard[s] = "locked"
    /\ IF Reached(c)
       THEN /\ count' = 0
            /\ triage' = [triage EXCEPT !["triggered"] = "start"]
            /\ due' = [due EXCEPT !["triggered"] = CountedNow(s)]
            /\ lock9' = Close9(ChildInherits9(lock9), s)
            /\ triggers' = triggers + 1
       ELSE /\ count' = c
            /\ lock9' = Close9(lock9, s)
            /\ UNCHANGED <<triage, due, triggers>>
    /\ counted' = CountedNow(s)
    /\ shard' = [shard EXCEPT ![s] = "idle"]
    /\ holding' = [holding EXCEPT ![s] = 0]
    /\ seen' = [seen EXCEPT ![s] = 0]
    /\ UNCHANGED <<found, reduced, lock8, backlog, registered, manuals, kills>>

-----------------------------------------------------------------------------
(* triage_miscompilations.sh.                                              *)
StartByHand ==
    /\ triage["manual"] = "off"
    /\ manuals < MaxManual
    /\ manuals' = manuals + 1
    /\ triage' = [triage EXCEPT !["manual"] = "start"]
    /\ due' = [due EXCEPT !["manual"] = counted]
    /\ UNCHANGED <<shardVars, lock9, lock8, backlog, registered, triggers, kills>>

(* The triage process ends, however it ends: the kernel closes its files.  *)
Exit(t) ==
    /\ triage' = [triage EXCEPT ![t] = "off"]
    /\ lock9' = lock9 \ {t}
    /\ lock8' = IF lock8 = t THEN "none" ELSE lock8
    /\ due' = [due EXCEPT ![t] = {}] /\ backlog' = [backlog EXCEPT ![t] = {}]

Skip(t) ==
    /\ triage[t] = "start"
    /\ lock8 # "none"
    /\ Exit(t)
    /\ UNCHANGED <<shardVars, registered, triggers, manuals, kills>>

(* With the lock taken, cmd_migrate lists the witnesses that findings does *)
(* not have yet, and registers them one after the other.                   *)
ProceedAnyway(t) == TRUE  \* mutant: flock's status is ignored
ProceedIfLocked(t) == lock8 = "none"

Proceed(t) ==
    /\ triage[t] = "start"
    /\ ProceedIfLocked(t)
    /\ lock8' = t
    /\ triage' = [triage EXCEPT ![t] = "backfill"]
    /\ backlog' = [backlog EXCEPT ![t] = reduced \ Registered]
    /\ UNCHANGED <<shardVars, lock9, due, registered, triggers, manuals, kills>>

Register(t, f) ==
    /\ triage[t] = "backfill"
    /\ f \in backlog[t]
    /\ \A g \in backlog[t] : f <= g
    /\ registered' = [registered EXCEPT ![f] = @ + 1]
    /\ backlog' = [backlog EXCEPT ![t] = @ \ {f}]
    /\ UNCHANGED <<shardVars, lock9, lock8, triage, due, triggers, manuals, kills>>

BackfillBegun(t) == TRUE  \* mutant: the backfill is left in the background
BackfillDone(t) == backlog[t] = {}

CallAgent(t) ==
    /\ triage[t] = "backfill"
    /\ BackfillDone(t)
    /\ triage' = [triage EXCEPT ![t] = "agent"]
    /\ UNCHANGED <<shardVars, lock9, lock8, due, backlog, registered, triggers, manuals, kills>>

(* A failed backfill is a warning: the agent is called all the same.       *)
BackfillFails(t) ==
    /\ triage[t] = "backfill"
    /\ backlog[t] # {}
    /\ kills < MaxKills
    /\ kills' = kills + 1
    /\ triage' = [triage EXCEPT ![t] = "warned"]
    /\ UNCHANGED <<shardVars, lock9, lock8, due, backlog, registered, triggers, manuals>>

Finish(t) ==
    /\ triage[t] \in {"agent", "warned"}
    /\ Exit(t)
    /\ UNCHANGED <<shardVars, registered, triggers, manuals, kills>>

Kill(t) ==
    /\ triage[t] # "off"
    /\ kills < MaxKills
    /\ kills' = kills + 1
    /\ Exit(t)
    /\ UNCHANGED <<shardVars, registered, triggers, manuals>>

Work(s) == Reduce(s) \/ Lock(s) \/ Store(s)

Run(t) ==
    \/ Skip(t) \/ Proceed(t)
    \/ \E f \in Findings : Register(t, f)
    \/ CallAgent(t) \/ Finish(t)

Next ==
    \/ \E s \in Shards : Find(s) \/ Work(s)
    \/ StartByHand
    \/ \E t \in Triages : Run(t) \/ BackfillFails(t) \/ Kill(t)

(* Shards and triages are scheduled, reductions and agents end.  The code  *)
(* puts no timeout on an agent: an agent that hangs breaks the last part.  *)
(* Shards that wait for the lock take turns: the bound on findings stands  *)
(* for the queue the kernel keeps.                                         *)
Fairness ==
    /\ \A s \in Shards : WF_vars(Work(s))
    /\ \A t \in Triages : WF_vars(Run(t))

Spec == Init /\ [][Next]_vars
FairSpec == Spec /\ Fairness

-----------------------------------------------------------------------------
(* Types of the shards, the counter, the locks and the triages.            *)
TypeOK ==
    /\ found \in 0..MaxFindings
    /\ shard \in [Shards -> {"idle", "reduce", "wait", "locked"}]
    /\ holding \in [Shards -> 0..MaxFindings]
    /\ \A s \in Shards : (holding[s] = 0) <=> (shard[s] = "idle")
    /\ seen \in [Shards -> Nat]
    /\ reduced \subseteq Findings /\ counted \subseteq Findings
    /\ count \in 0..TriageEvery-1
    /\ lock9 \subseteq Shards \cup Triages
    /\ lock8 \in Triages \cup {"none"}
    /\ triage \in [Triages -> {"off", "start", "backfill", "agent", "warned"}]
    /\ due \in [Triages -> SUBSET Findings]
    /\ backlog \in [Triages -> SUBSET Findings]
    /\ registered \in [Findings -> Nat]
    /\ triggers \in Nat /\ manuals \in 0..MaxManual /\ kills \in 0..MaxKills

(* No count is lost or duplicated: what the file holds and what was spent  *)
(* on triages are together the findings that were counted.                 *)
NothingUncounted == Cardinality(counted) = count + TriageEvery * triggers

(* A shard never starts a triage while one it or another shard started is  *)
(* still running: the running one holds the counter's lock.                *)
TriggersDoNotOverlap ==
    \A s \in Shards : shard[s] = "locked" => triage["triggered"] = "off"

(* "backfill the dedup database (idempotent)": no witness is registered    *)
(* twice, with triages started concurrently and killed halfway.            *)
RegisteredOnce == \A f \in Findings : registered[f] <= 1

(* When a triage calls the agent after a backfill that did not fail, every *)
(* finding that had been counted when the triage was started is in the     *)
(* database, if Alive2 ever confirms it: a count is never ahead of the     *)
(* reduction it stands for.                                                *)
TriageSeesItsFindings ==
    \A t \in Triages : triage[t] = "agent" => due[t] \cap reduced \subseteq Registered

(* A shard that waits to count a finding counts it eventually, although    *)
(* triages hold the lock it waits for.                                     *)
WaitingShardsProceed ==
    \A s \in Shards : shard[s] = "wait" ~> shard[s] = "idle"
=============================================================================
