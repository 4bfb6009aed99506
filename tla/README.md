# Specifications of regatoni

TLA+ models of the stateful parts of regatoni: the scripts that start and stop a fuzzing
run, the oracle workers that follow the corpus, the path from a miscompilation to a
triage, the triage itself, the blame bisection, the dedup database and its upgrades, the
log parser, the counters of the harness and the publication of the dashboard; and of two
algorithms of the coverage tools that do without a parser. TLC checks each model on a
small instance (`MC*.tla` and the `.cfg` files); TLAPS proves the theorems of the
`*_proofs.tla` modules for every value of the constants.

    tlc -workers 2 -config DedupRace.cfg MCDedupDB      # one run
    tlapm DedupDB_proofs.tla                            # one proof module

`PROJECT.json` ties the modules to the source: the lines each definition models, the
runs, the mutants that show each property can fail, the hazards and the findings.

## The system

regatoni fuzzes LLVM's `opt -O2`. One *run* is a tree of processes that communicate
through files under `runs/<RUN_ID>/` and one SQLite database; there are hardly any
pipes or sockets, so what can go wrong is mostly what two processes do to one file.

    start.sh ──spawns──> Centipede + opt_fuzz_target ──writes──> corpus/
       │                                                          │ find / inotifywait
       ├──spawns──> alive_tv.sh shards <───────────────────────────┤
       │               │ reduce, count (flock 9), trigger          │
       │               v                                           │
       │            triage_miscompilations.sh (flock 8)            │
       │               │ migrate ──> bisect_blame.sh               │
       │               v                                           │
       │            triage_buckets.py ──> dedup.py ──> dedup.db    │
       ├──spawns──> asan_opt.sh <──────────────────────────────────┘
       │               └── dedup.py register ──> dedup.db
       ├──spawns──> parse_centipede_log.py ──run.log──> *.tsv, *.jsonl
       ├──spawns──> loop of render_dashboard.py ──> publish directory
    stop.sh ──kills, finalizes──> runs/<RUN_ID>, runs/current

### Inventory

| Component (source) | State | Operations | What is hard | What makes it correct |
|---|---|---|---|---|
| Run lifecycle (`run_helpers.sh`, `start.sh`, `stop.sh`) | `runs/<id>/manifest.json`, `runs/current`, `.current.tmp`, `pids`, child processes | init, manifest_set, spawn/record, trap, stop, finalize | no lock at all: check-then-mkdir, shared temporary link, a manifest that is read, emptied and filled by several scripts, readlink-then-rm; processes below the recorded ones | a run has its own directory; current names a live run; an ended run has no child left and starts nothing; the manifest loses nothing |
| Oracle worker (`common.sh`, `alive_tv.sh`, `asan_opt.sh`) | `checked.log`, `fail/*.hash`, witnesses; the same sets in memory | first pass, poll or inotify loop, callback, record result | killed between any two writes, restarted; a file seen before it is closed; events before the watch is armed | each entry is checked once; what is logged went through its whole callback |
| Triage trigger (`alive_tv.sh`, `reduce_miscompilation.sh`, `triage_miscompilations.sh`) | `.miscomp_count` and its lock, `.triage.lock`, `*.reduced.ll` | count, trigger, skip, backfill, call the agent | the triage inherits the counter's lock; killed triages; a second triage by hand | no count lost; backfill idempotent; shards go on |
| Dedup database (`dedup.py`) | tables findings, buckets, sub_clusters, finding_sub_cluster | register, record-sub-clusters, assign-existing, migrate, schema migrations | validation before `BEGIN IMMEDIATE`, concurrent registrations, id reuse | counts and references agree; assignments stay in their bucket |
| Blame bisection (`bisect_blame.sh`) | LO, HI, clock | confirm both ends, probe, blame | timeouts and inconclusive answers at every point; deadline | the blamed index is a definite boundary; it ends in time |
| Triage orchestrator (`triage_buckets.py`) | the database; per bucket: findings read, sub-clusters read, staged findings, the agent's answer | pass A (assign to known sub-clusters), pass B (cluster, then the rest), for each selected bucket | reads between agent calls that take minutes; a failing second half; kills | a bucket that is reported done has every finding that was read in a sub-cluster |
| Log parser (`parse_centipede_log.py`) | byte offset, two output files | poll, cut at the last newline, write rows, persist the offset | killed between rows and offset; incomplete lines; stale offset | every complete line once while it lives |
| Dashboard (`render_dashboard.py`) | publish directory of pages, `.tmp` files | a pass: dashboard, index, snapshot, finding pages, bucket pages | the database grows during a pass; the pass of a killed loop meets the pass of `stop.sh`; a failed query leaves pages out silently | links lead to pages; the frozen snapshot shows the finished run |
| Coverage tools (`extract_callgraph.py`, `coverage_overlay.py`, `enumerate_static_chains.py`, ...) | none shared: a call graph as JSON between the tools | scan a body, restrict to a root, frontier, chains | C++ without a parser; three rules to resolve a bare name | a condition given to a call encloses it; restricting loses nothing |
| Harness (`opt_fuzz_target.cc`) | last mutation id, counters per mutator and per fallback, two files per PID | mutate, execute, flush, die | one slot between two callbacks whose order Centipede chooses; two files written one after the other; a PID used again | rates are shares of the attempts; the two tables agree |
| Alive2 harness (`opt_fuzz_target_alive2.cc`) | verdicts in Redis | look up, compare functions, store | verdicts outlive the configuration they were computed under | a hit replays what a miss would answer |
| Mutators, IR normaliser, seed rewriting | none or per call | pure transformations | name capture, empty choices | idempotence, no capture |
| Corpus analysis, build scripts, launcher and operator tools | none that is shared | offline or one-shot | – | not modelled |

The list of hazards, with the line where each bites and the properties that cover it,
is in `PROJECT.json`.

## The modules

### DedupDB – the database and the processes that write it

The four tables are functions from ids to rows. A `dedup.py` process is a client that
holds what it has validated with plain SELECTs (`cli`) until its transaction runs:
`RecordCheck` / `RecordCommit` for record-sub-clusters, `AssignCheckTargets`,
`AssignCheckFindings` / `AssignCommit` for assign-existing; `Register` is one
transaction. A transaction is one action because `BEGIN IMMEDIATE` takes the write
lock; it rolls back when a PRIMARY KEY or FOREIGN KEY constraint would break
(`ConstraintsHold`, foreign_keys=ON). New ids are one more than the highest id of the
table (`NextId`), which is how SQLite reuses the id of a deleted last row. A crash
between the validation and the commit drops the request. Bisection is an input: a
registration chooses one of the `Keys`.

- `dedup_race` (2 processes, 3 findings of two contents, 2 ids of sub-clusters, payloads
  of at most 2 clusters): two stale validations against each other and against
  registrations. Three findings are enough for two clusters with a rest and for two equal
  contents next to another, two ids for a deletion and a reuse. `CoveredIsStamped`: a
  bucket that both processes have covered between them is stamped by whoever is last. (The
  converse is not claimed: registrations and a `--replace` go on after the stamp.)
- `dedup_stale_assign` expects a violation: with two processes an assign-existing may
  have validated a sub-cluster that a `--replace` deletes and another bucket's
  sub-cluster then takes the id of. The docstring's "must belong to the same bucket" is
  not kept. In the pipeline the triage lock of one run prevents it; two runs share
  `dedup.db` and have one lock each. That it holds for a single process, as the lock
  intends, is proved (`SerialAssignmentsCorrect`).

Symmetry over processes, pairs and contents is sound: DedupDB only compares pairs with
pairs and hashes with hashes.

### Upgrade – connect() on an old database

Every command begins with `connect()`, so several processes find an old database at
once. Adding the column, rebuilding `buckets` without NOT NULL, listing the NULL buckets
and folding them into the sentinels are steps of each `Openers` process; a transaction is
one action, and what it does was decided by reads before it (`opening[p].nulls` is the
list). The fold is written as the code does it, finding by finding with INSERT OR IGNORE,
then the DELETE of the old bucket, which fails while sub-clusters refer to it. A process
that got through registers one finding, so that ids move on. The initial databases
(`OldDatabases`, what they must be is `UpgradeAssumption`) are those the earlier schema
versions leave: every bucket has a finding, only the NULL key repeats, and it occurs only
where the columns are nullable. Checked in `side_tools`, where the first bucket may have
two findings.

### TriageRun – triage_buckets.py (EXTENDS DedupDB)

Each client of DedupDB becomes the orchestrator of one run: `job[c]` says where it is,
which buckets are left (`todo`), what it has read and what its agent has answered;
`cli[c]` is the `dedup.py` command it waits for, with the checks and commits of DedupDB.
`Triggered` runs start triages without `--force`; others are started by hand, forced and
restricted to any set of buckets. An agent answers anything its findings allow, and
`Partitions` is the validation that follows; what does not pass is `AgentFails`. A
command that refuses, rolls back or dies fails the bucket and the loop goes on.
`Sample` is `deterministic_sample`; the products it rounds are floats, so that a half may
go either way (`Halves`). The cap is chosen at each start; one of 1 divides by zero, which
fails every larger bucket (`DividesByZero`), one of 0 leaves all to the second pass.

- `triage_run`: two orchestrators (one triggered, one by hand), three findings over the
  two sentinel buckets, caps of one and two (so that a bucket of three fails, or takes the
  sampled first pass, the rest pass and the existing sub-clusters), two troubles (a failure,
  a kill or a start by hand each). `SampleSpansBucket` does not depend on the state: in the
  initial states TLC goes through all sets of finding_ids up to 8, all smaller samples from
  2 on and all ways to round, which has picks between the ends, steps that are no integers
  and halves. `SuccessMeansTriaged` relates what was read at the start of a bucket to the
  database when it ends well, minutes later. `disturbed` excuses a bucket during which the
  other run has committed a `--replace`.

### LogFeed, LogTail – following run.log

`LogFeed` is what the parser promises: the complete lines of the log are passed on one
by one, each once and in order, a row to the file of its kind and noise to none.
`LogTail` is the parser: `Poll`, `ReadChunk` (up to the last newline), `WriteRow` per
line, `SaveOffset`, `Wake`; signals end the loop at its next turn, kills anywhere, and a
launch starts from the offset file, which may be missing or from a longer log. A row is
named by where its line ends.

- `log_tail`: a log of five bytes over two kinds of rows, noise and the newline, three
  launches. Five bytes hold two rows with their newlines and the start of a third line;
  three launches, a parser killed twice. `FeedsEveryLine` is the refinement
  (`Feed == INSTANCE LogFeed WITH fed <- [k \in Kinds |-> Distinct(files[k])]`): without
  the rows that a relaunched parser repeats, the two files always are what LogFeed has
  passed on. The abstraction forgets repetitions because a parser killed between a row and
  the offset does write the row again; that it does not go back behind the offset is
  `NothingBeforeOffsetRepeats`.

Fairness: the steps of the parser; launches, signals and kills are not due. A launch
after a kill is not promised, so `CatchesUp` allows the parser to be down for good.

### OracleWorker – one worker following the corpus

`Spawn`ed or restarted by hand, a worker loads `checked.log` and the markers, makes a
first pass with `find`, and then either polls or listens to inotify. `step` goes through
the writes of one entry in the order of the code (check, witness, marker, copy, report,
log), so `Crash` can fall between any two. `callback` tells alive_tv from asan_opt.
`file` is the fuzzer's side: an entry is open before it is closed. The code goes on behind
every command of a callback that fails: the copy of the witness, the copy into
miscompilations (`cp -n … || true`), the reduction, the registration of an ASAN finding.
`missed` keeps which command failed for which entry, and `LoggedWasHandled` says what
checked.log is worth: what a logged entry lacks, it lacks because that very command failed,
never because of a kill. It does lack it for good: a logged entry is not taken up again
(`NeverRechecked`). In the same way `MarkerHasWitness` names the one case in which a
marker has no witness, a copy that failed.

- `oracle_worker`: two entries and a skipped seed, two hashes, one crash, both callbacks,
  with and without inotify, and one entry for which any of the commands may fail. Two
  entries with equal or different hashes show every relation between a marker and a
  witness; one crash reaches every pair of writes and a second adds no new order, since a
  restarted worker starts from the files only.
- `oracle_inotify_gap` expects a violation: an entry closed during the first pass gives
  no event, and with inotify nothing looks at it again although the README has the oracle
  run "on each new corpus entry".

Fairness: the worker is a sequential process that is scheduled, its tools run under
`timeout`, and a file the fuzzer has opened is closed. A killed worker is not restarted
by anything, so no liveness is claimed across a crash.

### TriageTrigger – from a miscompilation to its row

Shards find, reduce in the foreground, count under `flock -x 9` and start the triage in
the background; `lock9` is the set of processes that hold the open file, because a flock
lasts until the last of them closes it. The triage takes `flock -n 8` or skips, lists the
witnesses the database does not have (`backlog`), registers them one by one, and calls
the agent, also after a failed backfill (`warned`). An operator may start one by hand.

- `triage_trigger`: two shards, a trigger at every second finding, four findings (two
  triggers, the second while the first triage may still run), one triage by hand, one
  kill or failed backfill.

Fairness: shards and triages are scheduled and agents end. The code sets no timeout on
an agent; if one hangs, the shards that have found something hang with it
(`WaitingShardsProceed` needs the fairness of `Run`). Shards waiting for one flock are
served in turn by the kernel; the bound on findings stands for that. A killed triage is
killed with its children; shards are not killed here.

### BisectBlame – the search for the guilty pass

One action per step of the script. What opt and alive-tv answer at a limit is chosen at
each probe; that is exact since no limit is probed twice (`Boundary`). Time advances by
up to the timeouts of the tools. `PowerOf2`, with which `Halved` is stated, is a recursive
function because the provers know nothing of `^`.

- `bisect_blame`: up to 13 passes, timeouts and deadline in the proportions of the
  defaults (30 : 30 : 300 s), so that the deadline passes in the fourth probe.

The comment over the search, "Invariant: f(lo)=sound, f(hi)=unsound", says more of LO than
the code: inconclusive checks and failed opt runs are accepted at, and move, LO. `Boundary`
claims what remains, that LO was not judged unsound.

Fairness: a sequential script whose tools run under `timeout`.

### RunLifecycle – creating, launching and ending a run

Each file operation of `run_helpers.sh`, `start.sh` and `stop.sh` is an action, so that
the scripts interleave at every one. Writing a manifest is two of them, as `open(path,
"w")` and what json.dump leaves there when the file is closed are (`Truncate`, `Dump`): a
script that reads in between finds an empty file, fails and, under errexit, ends
(`Readable`); one that has opened the file too writes over what it finds (`Overwritten`),
and the tail of a longer text stays. Ids are numbers in the order of the `_2`, `_3`
suffixes. `rid` is the RUN_ID of a script and `dir` its RUN_DIR, which start.sh takes from
runs/current. `ln -s` onto an existing `.current.tmp` makes its link inside the directory
that points to; `mv` without one fails and, under errexit, ends the script. One child
stands for the fuzzer and one for all others. `stop.sh` and the trap signal the recorded
children (`KillRecorded`); what those have started themselves (`Fork`: a pass of the
dashboard loop, an alive-tv, a triage under nohup) is in `helpers` and ends on its own.
`overlaps` tells whether commands are given while a run is being set up.

- `run_lifecycle`: two starts and two stops. `overlaps` is chosen at the start of a
  behaviour. Without it commands wait until nothing is being set up: two stops and the
  trap may still finalize one run at the same time, and two runs may live next to each
  other; `EndedRunsAreOver`, `CurrentIsNotOver` and `ManifestGrows` are about these
  behaviours. An ended run may still have processes below its children; what
  `EndedRunsAreOver` says is that no child is left and nothing new is started. What a
  manifest has, for `ManifestGrows`, is in the file or in the memory of the script that has
  emptied it (`Has`). With `overlaps` commands come at any time; then only the first half of
  `CurrentHasManifest` holds, that there is a manifest, since a stop.sh during
  manifest_set may empty it for good or lose the flags. The constraint
  `SmallOverlaps` leaves the second stop and `helpers` out there.
- `run_two_starts` expects a violation of "each fuzzing run gets its own directory".

Two scripts are enough for every race here: each race is between one script's test and
another's write.

### Publish – the pages of a run

A pass of `render_dashboard.py` goes through its stages in the order of `main`
(`RenderPlain` ... `RenderBuckets`), each computing pages from the database as it is then
and writing them one by one through `.tmp` (`WriteTmp`, `Replace`). A page is the set of
its links, and for a dashboard whether it shows the finished run. The renderers are the
loop of `start.sh`, whose pass survives the kill of the loop, and `stop.sh` (which
publishes the plain page). Oracles register findings at any time, also after the end.

The links that are dead by design are named in `MayBeDead`: those to runs without a
snapshot, to a representative of another run, to findings that came after the finding
pages, and the asan link of a run without asan findings. `LinksResolve` says that there
are no others once a pass has run alone and lost nothing. A query that fails is taken for
one without rows (`LoseFindings`, `LoseBuckets`): the pass goes on and ends well although
the dashboard links to pages it has not written. `lost` remembers it, and `PagesAppear`
says that a later pass of the loop writes them.

Fairness: a pass is a sequential process (`Pass` per renderer) and a command that has
killed the loop finalizes the run; that a run is ever stopped is not assumed.

### CallGraph, ScanBody – the coverage tools

`ScanBody` runs `scan_body` of `extract_callgraph.py` beside the parse it does without:
`nest` holds the statements and braces that are open, the tokens are those that can come
next, and `ConditionEncloses` compares the condition the scanner gives a call with what is
open around it, as far as braces go. `CallGraph` is `_restrict_to_reachable` with its
stack, and the readings of the later tools as operators (`Frontier`, `Chains`, `PassScope`
for `--scope slpvectorizer-pass`); `RestrictionLosesNothing` compares these on the
restricted and on the whole graph for every set of reached nodes. In the scope of the pass
it has an exception: a lambda counts as one of the pass if the graph lists a function of
the pass with the name of the function around it, and the restriction to `X::f` keeps the
lambdas of `X::f` while `SLPVectorizerPass::f` may go. Chains that start with such a
lambda (`RootLambdas`) are lost; no others are.

- `scan_innermost` expects a violation: the docstring of `extract_callgraph.py` has every
  call come with its innermost enclosing condition, but in `if (a) f();` the call gets none
  and `coverage_overlay.py` prints "(unconditional)"; in `if (a) { if (b) f(); }` it gets a.

### HarnessStats – the counters of the fuzz target

One process per PID. Centipede calls the mutator and the target in an order of its own;
the credit of a mutation passes through one slot (`slot`), which the next execution takes
and clears, so that an execution may be credited to another mutator than made its input.
The credited mutator is held (`credited`) until the execution has ended. `FlushStats` and
`FlushFallbacks` replace the rows the dashboard reads last; `Exit` is the death of the
process at any point, and `StartHarness`, `OpenFallbackFile` are a later process that
truncates the two files of the same PID. `RatesAreShares` is what makes the rates of the
dashboard rates; `TablesAgree` relates its two tables.

### SideTools – one run for the five tools

Publish, Upgrade, CallGraph, ScanBody and HarnessStats share no variable. `SideTools` is
their disjoint sum: a behaviour picks a `tool` and is one of its specification, the others
rest. No property relates two of them; the composition only makes one run of five.

- `side_tools`: two findings and two buckets with an older finding of another run, one
  dying pass or failing query, and passes that meet (not combined with those or a second
  finding: `OneFault`); three openers of every old database, so that one lists, one folds
  and one registers in between; every call graph over five nodes (two methods of one name,
  a method and a function of one name, a lambda) and each of them as the root; every body
  with at most six statements and braces open at once and three conditions; one PID used
  again and again, two mutators, five calls and a flush at every second input, which is
  enough for a credit to reach the wrong mutator and for a flush with credits pending.

## What is proved

Every invariant and every action property of the passing runs is a theorem, for any
number of processes, shards, scripts, findings, passes, mutators, bytes and nested
braces. The theorems assume nothing but what the modules name (`SentinelAssumption`,
`BoundAssumption`, `SampleAssumption`, `TriggeredAssumption`, `UpgradeAssumption`,
`TriggerAssumption`, `BisectAssumption`, `ParameterAssumption`, `LifecycleAssumption`,
`LogAssumption`, `GraphAssumption`, `ScanAssumption`, `HarnessAssumption`), which TLC
evaluates in the runs; `EndsNearDeadline` is stated for a deadline that covers both
confirmations.

- **DedupDB_proofs**: TypeOK, CountsAgree, BucketedByBlame, NoDanglingReference,
  RepresentativeIsMember, OnlyReplaceReassigns, InstancesAgree and CoveredIsStamped. The
  invariant adds that every key has at most one bucket (`KeysAgree`, otherwise two
  registrations could each believe theirs was the first) and that what a process holds
  stays about existing rows. The argument for the triage commands is that the constraints
  checked in the transaction, not the validation before it, protect the tables. Fresh ids
  rest on the lemma that a finite set of ids has a largest element; InstancesAgree on
  exactly one fresh finding per hash (`OneIsFresh`) and a bijection.
  `SerialAssignmentsCorrect` proves `AssignedInBucket` for one process: what
  assign-existing has checked still stands at its commit (`TargetsStand`), because only
  registrations come in between and they do not touch sub-clusters. For two processes it
  is false, as `dedup_stale_assign` shows.
- **TriageRun_proofs**: every step of TriageRun is a step of DedupDB or leaves its
  variables alone (`TriageImplementsDedupDB`), so what is proved of DedupDB holds of
  triages; in particular a single orchestrator keeps assignments in their bucket.
  `SuccessMeansTriaged` follows from `JobsOK`: the command in flight is the one the
  orchestrator waits for (`Waiting`), the agent's answer covers what it was shown, and a
  first pass only ends a bucket when that was all that was read (`Planned`), and in the
  second pass what is not before the agent is in a sub-cluster (`Covering`). The last part
  is what another run's `--replace` undoes, hence `disturbed`. `SampleSpansBucket` rests
  on arithmetic: the quotients Python rounds are more than one apart, so that two picks
  never meet, whichever way halves go (`RoundSeparates`); a sample from a bucket that is
  larger than it has its size and includes the first and the last finding. (The comment
  "round-collisions are possible" and the top-up after it guard against what cannot
  happen: `NothingToAdd`.)
- **TriageTrigger_proofs**: TypeOK, NothingUncounted, TriggersDoNotOverlap,
  RegisteredOnce and TriageSeesItsFindings. The invariant adds who holds the two locks:
  with a shard locked, lock9 is that shard alone; a triage past the lock holds lock8;
  the witnesses in a backlog have no row; the findings in the shards' hands are distinct
  and not yet counted.
- **BisectBlame_proofs**: TypeOK, Boundary, BlamedIsBoundary, EndsNearDeadline and Halved.
  The invariant adds what the two confirmations leave behind (`Prepared`) and that a
  blamed interval is closed; a second invariant bounds the clock at each step, a third
  keeps the width of the interval times the power of two below MAX_N plus that power. From
  it `FewProbes`: two to the number of probes is at most 2 (MAX_N - 1).
- **OracleWorker_proofs**: TypeOK, MarkerHasWitness, LoggedWasHandled and
  NeverRechecked. The two statements about files are not inductive: `CallbackInv` adds
  what the callback has written, or failed to write, by the time it is at each of its steps,
  and `EntryInv`
  that the entry in work is not in the log, because the names in memory are those of
  checked.log while the worker is up.
- **RunLifecycle_proofs**: TypeOK and CurrentHasManifest for all behaviours. `Behind` says
  what each script has behind it at each step. All starts share one `.current.tmp`, so a
  script may move another's link; the argument is that whoever links has made its manifest
  and that no step takes a directory or a manifest away (`Grows`). EndedRunsAreOver,
  CurrentIsNotOver, ManifestGrows and the second half of CurrentHasManifest hold while
  commands do not overlap a run being set up. They share the invariant `Serial`. Its
  `Orderly`: no two starts set up at once or have one RUN_ID (`Apart`), the children of a
  start are in its pids file by the time anybody can stop it (`HasChildren`), and whoever
  finalizes a run has seen to it that it is over (`Ending`). `Whole` and `Agree` are about
  the rewrites of the manifest that nothing protects: an empty file has somebody who is
  about to fill it, and all who have read one run's manifest hold the same, which has
  everything that is or was in the file. So the order in which several finalizers read,
  empty and fill it does not matter (`StartRewrites`, `FinRewrites`).
- **LogTail_proofs**: TypeOK, OffsetIsCovered, NothingBeforeOffsetRepeats, and
  `ImplementsLogFeed`: every step of the parser is a step of LogFeed or a stutter. The
  invariant (`IInv`) says that the files hold exactly the rows up to some line
  (`Reaches`), and that this line is at or after the offset on disk, the one in memory and
  every line of the chunk that has been taken. Writing a line beyond it is a step of
  LogFeed, writing one before it only repeats a row.
- **SideTools_proofs**, one part per tool:
  - *ScanBody*: ConditionEncloses. The invariant relates the scanner's stack to the parse:
    entries belong to braces that are open, in their order, at the depth the scanner
    recorded, and each open brace with a condition has its entry (`Levels`, `Scopes`).
  - *CallGraph*: RestrictionLosesNothing. All that a visited function may call, whatever
    a callee is taken for, and the lambdas in it are visited or in work (`GraphInv`), so at
    the end the visited functions are closed under everything the later tools follow. For
    the scope of the pass the invariant adds that a node is found because it is in
    the root's function or because something visited calls the name of the function it is in
    (`AllReached`), and then all functions of that name are visited.
  - *HarnessStats*: HarnessTypeOK, RatesAreShares and TablesAgree. The outcomes a
    mutator has, plus those still to come because it is in the slot or credited with the
    execution that runs, never exceed what it applied (`Covered`). A slot that is not
    cleared, or that a failed mutation writes, breaks exactly this. TablesAgree rests on
    sums over the mutators that change by their one changed summand, and on the file written
    first holding what the second will hold (`FilesFollow`).
  - *Upgrade*: UpgradedIsSound and OnlyNullsAreFolded. The danger is a list of NULL
    buckets that is out of date when its holder gets the lock, since SQLite hands out the id
    of a deleted last row again. It is harmless because what is gone from the list was
    folded into a sentinel bucket with a higher id that stays, so the id is not free for
    reuse (`Spent`). The fold itself keeps counters and representatives true after every
    single move, also of a bucket being emptied.
  - *Publish*: SnapshotIsFinal and LinksResolve. Every file on the site, in a `.tmp` or
    still to be written is fit to be put in place, and stays so while the database and the
    site grow (`FilesFine`); a pass has put in place, or still holds, what earlier stages
    may have linked to (`Owes`, `AloneOK`), unless one of its queries failed; after a pass
    that ran alone to its end and lost nothing the site is `Settled`; what stop.sh's pass
    renders, it renders after the end of the run (`StopOK`), and only a pass that overlaps
    can put an older snapshot over it.
  - *SideTools*: each step of the sum is a step of one tool and leaves the others alone, so
    the invariants hold of the specification that `side_tools` explores (`ToolsCorrect`).

Only model-checked: liveness under fairness (`DeliveredIsChecked`, `PollingChecksAll`,
`WaitingShardsProceed`, `Terminates`, `CatchesUp`, `PagesAppear`), which is out of the
prover's reach. `FewProbes` bounds the probes of a bisection for every number of passes,
but that it ends is `Terminates`. The four runs that expect a violation show what is false
and has no theorem: `AssignedInBucket` for two processes, `EveryEntryChecked`,
`InnermostCondition` and `OwnDirectory`.

## What is not modelled

- What LLVM, Alive2, Centipede, Redis and the agents compute: their answers are chosen.
- Power loss, and a disk so full that a line of a log or an empty marker is not written; a
  crash is the death of a process. The commands that copy a witness, keep, reduce or
  register a finding may fail.
- Partial content of a corpus file that is judged before it is closed: the worker model
  delivers open files but does not compare contents. Likewise rows of the statistics
  files that the dashboard reads while they are written.
- Oracle shards killed inside the counter's critical section.
- A stop.sh killed, or a second Ctrl-C in the trap of start.sh, between emptying and filling
  a manifest: the manifest stays empty, and no document says otherwise.
- The contents of pages and reports: statistics, charts, tables, limits on their length.
- `coverage_diff.py`: it calls `scan_report` with one argument and unpacks four results,
  while `pass_coverage.scan_report` takes three and returns five, so as it stands it ends
  in a TypeError whenever it is run; there is no behaviour to model.
- The IR normaliser and the mutators: transformations of text and of LLVM's data
  structures whose models would be the transformations over again.
- The components marked `not_modelled` in `PROJECT.json`, for the reasons given there.

Some things that look like oversights are in the models because the code does them:
a run ended by the trap of start.sh gets no snapshot; the asan bucket's page is not
written for a run without asan findings although the dashboard links to it; a representative
of a sub-cluster may belong to a run whose pages are not there. `MayBeDead` of Publish
names the dead links.

## Plan

Done in this order: DedupDB, OracleWorker, TriageTrigger, BisectBlame, RunLifecycle;
TriageRun on DedupDB; LogTail against LogFeed; Publish, Upgrade, CallGraph, ScanBody and
HarnessStats in SideTools; the proofs above. What is left, most valuable first:

1. An abstract triage: the buckets of a run as sets of findings that are triaged or not,
   implemented by TriageRun over DedupDB, so that `SuccessMeansTriaged` becomes a
   refinement of its own.
2. OracleWorker against an abstract set of entries that are delivered and judged, as
   LogTail against LogFeed.
3. VerdictCache: the Alive2 harness over one Redis with a changing configuration, if the
   repository comes to promise something about it.
