----------------------------- MODULE HarnessStats -----------------------------
(***************************************************************************)
(* The per-mutator and fallback counters of harness/opt_fuzz_target.cc,    *)
(* one process per PID.  Centipede calls the mutator and the target in an  *)
(* order of its own; which mutator an execution is credited to goes        *)
(* through one slot.  Now and then a process appends its counters to two   *)
(* files, of which render_dashboard.py takes the last rows.  A process can *)
(* die anywhere (a crash of opt is what is looked for), and a later one    *)
(* with its PID starts the files again.                                    *)
(***************************************************************************)
EXTENDS FiniteSets, Functions

CONSTANTS
    Mutators,     \* the registry
    Pids,         \* the processes
    FlushEvery,   \* REGATONI_MUTATION_FLUSH_EVERY
    MaxCalls      \* bound: calls of the mutator or the target

NoMutator == "none"

ASSUME HarnessAssumption ==
    /\ IsFiniteSet(Mutators) /\ NoMutator \notin Mutators
    /\ FlushEvery \in Nat \ {0} /\ MaxCalls \in Nat

Stats == {"attempted", "applied", "parse_fail", "verify_fail", "too_large", "success"}
Sites == {"empty_input", "parse_fail", "none_applicable", "apply_failed",
          "verify_fail", "too_large"}
StatRows == [Mutators -> [Stats -> Nat]]
SiteRows == [Sites -> Nat]
Places == {"off", "torn", "opening", "idle", "flushing", "closing", "running"}

VARIABLES
    proc,          \* where each process is
    counters,      \* g_mutation_stats
    fallbacks,     \* g_fallback_counters
    slot,          \* g_last_mutation_id
    credited,      \* mid of the execution that runs
    sinceFlush,    \* g_inputs_since_flush
    statsFile,     \* last row of each mutator, zeros while there is none
    fallbackFile,  \* last row of each site
    harnessCalls

harness == <<counters, fallbacks, slot, credited, sinceFlush>>
statFiles == <<statsFile, fallbackFile>>
harnessVars == <<proc, harness, statFiles, harnessCalls>>

NoStats == [m \in Mutators |-> [k \in Stats |-> 0]]
NoFallbacks == [s \in Sites |-> 0]

HarnessInit ==
    /\ proc = [p \in Pids |-> "off"]
    /\ counters = [p \in Pids |-> NoStats]
    /\ fallbacks = [p \in Pids |-> NoFallbacks]
    /\ slot = [p \in Pids |-> NoMutator]
    /\ credited = [p \in Pids |-> NoMutator]
    /\ sinceFlush = [p \in Pids |-> 0]
    /\ statsFile = [p \in Pids |-> NoStats]
    /\ fallbackFile = [p \in Pids |-> NoFallbacks]
    /\ harnessCalls = 0

Move(p, from, to) == proc[p] \in from /\ proc' = [proc EXCEPT ![p] = to]
Called == harnessCalls < MaxCalls /\ harnessCalls' = harnessCalls + 1

-----------------------------------------------------------------------------
(* LLVMFuzzerInitialize: initMutationStats creates one file, then the      *)
(* other; both are truncated if an earlier process has left them.          *)
StartHarness(p) ==
    /\ Move(p, {"off", "torn"}, "opening")
    /\ statsFile' = [statsFile EXCEPT ![p] = NoStats]
    /\ UNCHANGED <<harness, fallbackFile, harnessCalls>>

OpenFallbackFile(p) ==
    /\ Move(p, {"opening"}, "idle")
    /\ fallbackFile' = [fallbackFile EXCEPT ![p] = NoFallbacks]
    /\ UNCHANGED <<harness, statsFile, harnessCalls>>

BumpStats(p, m, fields) ==
    counters' = [counters EXCEPT ![p][m] =
        [k \in Stats |-> IF k \in fields THEN counters[p][m][k] + 1
                                         ELSE counters[p][m][k]]]
BumpFallback(p, site) ==
    fallbacks' = [fallbacks EXCEPT ![p][site] = fallbacks[p][site] + 1]

-----------------------------------------------------------------------------
(* LLVMFuzzerCustomMutator: before a mutator is selected; with one that    *)
(* does not apply, breaks the module, or outgrows the buffer; and with one *)
(* that succeeds, the only case that writes the slot.                      *)
NoMutation(p) ==
    /\ \E site \in {"empty_input", "parse_fail", "none_applicable"} :
          BumpFallback(p, site)
    /\ UNCHANGED <<counters, slot>>

ApplyFails(p, m) ==
    /\ BumpStats(p, m, {"attempted"})
    /\ BumpFallback(p, "apply_failed")
    /\ UNCHANGED slot

Unusable(p, m) ==
    /\ \E why \in {"verify_fail", "too_large"} :
          /\ BumpStats(p, m, {"attempted", "applied", why})
          /\ BumpFallback(p, why)
    /\ UNCHANGED slot

Mutates(p, m) ==
    /\ BumpStats(p, m, {"attempted", "applied"})
    /\ slot' = [slot EXCEPT ![p] = m]
    /\ UNCHANGED fallbacks

CustomMutator(p) ==
    /\ Move(p, {"idle"}, "idle")
    /\ Called
    /\ \/ NoMutation(p)
       \/ \E m \in Mutators : ApplyFails(p, m) \/ Unusable(p, m) \/ Mutates(p, m)
    /\ UNCHANGED <<credited, sinceFlush, statFiles>>

-----------------------------------------------------------------------------
(* LLVMFuzzerTestOneInput takes the slot and flushes before it runs opt.   *)
KeepSlot(p) == slot  \* mutant: the slot is read and not cleared
TakeSlot(p) == [slot EXCEPT ![p] = NoMutator]

TestOneInput(p) ==
    /\ Called
    /\ credited' = [credited EXCEPT ![p] = slot[p]]
    /\ slot' = TakeSlot(p)
    /\ IF sinceFlush[p] + 1 >= FlushEvery
       THEN /\ Move(p, {"idle"}, "flushing")
            /\ sinceFlush' = [sinceFlush EXCEPT ![p] = 0]
       ELSE /\ Move(p, {"idle"}, "running")
            /\ sinceFlush' = [sinceFlush EXCEPT ![p] = @ + 1]
    /\ UNCHANGED <<counters, fallbacks, statFiles>>

(* flushMutationStats: the rows of a file reach it together, at fclose.    *)
FlushStats(p) ==
    /\ Move(p, {"flushing"}, "closing")
    /\ statsFile' = [statsFile EXCEPT ![p] = counters[p]]
    /\ UNCHANGED <<harness, fallbackFile, harnessCalls>>

NothingFlushed(p) == fallbackFile[p]  \* mutant: the second file is not written
FallbackRows(p) == fallbacks[p]
FlushFallbacks(p) ==
    /\ Move(p, {"closing"}, "running")
    /\ fallbackFile' = [fallbackFile EXCEPT ![p] = FallbackRows(p)]
    /\ UNCHANGED <<harness, statsFile, harnessCalls>>

(* The execution: an input without a mutator's credit counts nowhere.      *)
Execute(p) ==
    /\ Move(p, {"running"}, "idle")
    /\ credited' = [credited EXCEPT ![p] = NoMutator]
    /\ IF credited[p] = NoMutator THEN UNCHANGED counters
       ELSE \/ UNCHANGED counters
            \/ \E k \in {"parse_fail", "verify_fail", "success"} :
                  BumpStats(p, credited[p], {k})
    /\ UNCHANGED <<fallbacks, slot, sinceFlush, statFiles, harnessCalls>>

(* opt crashes, or Centipede ends the process: its memory is lost.         *)
Exit(p) ==
    /\ \/ Move(p, {"idle", "flushing", "running"}, "off")
       \/ Move(p, {"opening", "closing"}, "torn")
    /\ counters' = [counters EXCEPT ![p] = NoStats]
    /\ fallbacks' = [fallbacks EXCEPT ![p] = NoFallbacks]
    /\ slot' = [slot EXCEPT ![p] = NoMutator]
    /\ credited' = [credited EXCEPT ![p] = NoMutator]
    /\ sinceFlush' = [sinceFlush EXCEPT ![p] = 0]
    /\ UNCHANGED <<statFiles, harnessCalls>>

HarnessNext ==
    \E p \in Pids :
        \/ StartHarness(p) \/ OpenFallbackFile(p)
        \/ CustomMutator(p) \/ TestOneInput(p)
        \/ FlushStats(p) \/ FlushFallbacks(p) \/ Execute(p) \/ Exit(p)

HarnessSpec == HarnessInit /\ [][HarnessNext]_harnessVars

-----------------------------------------------------------------------------
(* Types of the counters and of the rows.                                  *)
HarnessTypeOK ==
    /\ proc \in [Pids -> Places]
    /\ counters \in [Pids -> StatRows]
    /\ fallbacks \in [Pids -> SiteRows]
    /\ slot \in [Pids -> Mutators \cup {NoMutator}]
    /\ credited \in [Pids -> Mutators \cup {NoMutator}]
    /\ sinceFlush \in [Pids -> Nat]
    /\ statsFile \in [Pids -> StatRows]
    /\ fallbackFile \in [Pids -> SiteRows]
    /\ harnessCalls \in 0..MaxCalls

(* The dashboard divides "success" by "attempted" and prints the failures  *)
(* next to them: the rows of every process, and so their sums, are shares  *)
(* of what was attempted, in whatever order mutations and executions were  *)
(* called and although an execution may be credited to another mutator     *)
(* than the one that made its input.                                       *)
Fit(row) ==
    /\ row["applied"] <= row["attempted"]
    /\ row["success"] + row["parse_fail"] + row["verify_fail"] + row["too_large"]
           <= row["applied"]
RatesAreShares == \A p \in Pids, m \in Mutators : Fit(statsFile[p][m])

(* The two tables of the dashboard tell the same: unless a process is, or  *)
(* has died, between its two files, the attempts that did not apply are    *)
(* the fallbacks "apply_failed", the mutants that outgrew the buffer those *)
(* of "too_large", and every fallback "verify_fail" is some mutator's.     *)
Column(table, k) == [m \in Mutators |-> table[m][k]]
NotApplied(table) == [m \in Mutators |-> table[m]["attempted"] - table[m]["applied"]]
Agree(table, sites) ==
    /\ sites["apply_failed"] = SumFunction(NotApplied(table))
    /\ sites["too_large"] = SumFunction(Column(table, "too_large"))
    /\ sites["verify_fail"] <= SumFunction(Column(table, "verify_fail"))

TablesAgree ==
    \A p \in Pids :
        proc[p] \notin {"opening", "closing", "torn"} => Agree(statsFile[p], fallbackFile[p])
=============================================================================
