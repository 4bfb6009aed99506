------------------------------ MODULE TriageRun ------------------------------
(***************************************************************************)
(* scripts/analysis/triage_buckets.py over the database of DedupDB.  Every *)
(* client is the orchestrator of one run (.triage.lock admits one per run, *)
(* and the runs share dedup.db); cli[c] is the dedup.py command it waits   *)
(* for.  A bucket is read in several commands and the agents are called    *)
(* between them, so that registrations and the other run's triage come in  *)
(* between any two steps.                                                  *)
(***************************************************************************)
EXTENDS DedupDB

CONSTANTS
    Triggered,     \* the runs whose oracles start triages; the others by hand
    Caps,          \* the values of --max-per-bucket: larger buckets are sampled
    MaxSampled,    \* bound: the buckets that SampleSpansBucket goes through
    MaxTrouble     \* bound: failures, kills and starts by hand in a behaviour

ASSUME SampleAssumption == Caps \subseteq Nat /\ MaxSampled \in Nat
ASSUME TriggeredAssumption == Triggered \subseteq Clients /\ MaxTrouble \in Nat

VARIABLES
    job,           \* what each orchestrator is doing
    trouble        \* what has gone wrong or been done by hand, counted

triageVars == <<vars, job, trouble>>

NoJob == [at |-> "none"]
Bucket(c) == Head(job[c].todo)
At(c, at) == job[c].at = at
Trouble == trouble < MaxTrouble /\ trouble' = trouble + 1

-----------------------------------------------------------------------------
(* deterministic_sample: n evenly spaced members of the sorted findings,   *)
(* then a top-up if some of them met.  i * step is a float: where it should*)
(* be half an integer it is one or falls beside it, and round() goes down  *)
(* or up, by half[i].                                                      *)
Round(num, den, half) ==
    LET q == num \div den  r == num % den IN
    IF 2 * r = den THEN q + half ELSE IF 2 * r > den THEN q + 1 ELSE q

Picks(n) == 0..(n - 1)
Halves(n) == [Picks(n) -> 0..1]
Rank(f, S) == Cardinality({g \in S : g < f})
SpacedByLength(S, n, half) ==  \* mutant: the step is len // n
    {f \in S : \E i \in Picks(n) : Rank(f, S) = i * (Cardinality(S) \div n)}
Spaced(S, n, half) ==
    {f \in S : \E i \in Picks(n) :
        Rank(f, S) = Round(i * (Cardinality(S) - 1), n - 1, half[i])}
TopUp(T, S, n) ==
    T \cup {f \in S \ T : Rank(f, S \ T) < n - Cardinality(T)}
Sample(S, n, half) ==
    IF Cardinality(S) <= n THEN S ELSE TopUp(Spaced(S, n, half), S, n)

(* A cap of 1 divides by len - 1 over 0: an exception that main catches.   *)
DividesByZero(S, n) == Cardinality(S) > n /\ n = 1

-----------------------------------------------------------------------------
(* main selects the buckets once: all of them with --force, otherwise      *)
(* those with an untriaged finding; --bucket restricts either.             *)
Selected(force) == {b \in DOMAIN buckets : force \/ Untriaged(b) # {}}

Ascending(S) ==
    CHOOSE s \in [1..Cardinality(S) -> S] :
        \A i, j \in DOMAIN s : i < j => s[i] < s[j]

(* findings: read at the start; existing: sub-clusters read; staged: what  *)
(* the agent is shown; to, new: its answer; disturbed: another --replace   *)
(* has been committed since the bucket was begun (history).                *)
Begin(cap, force, todo, failures) ==
    IF todo = <<>> THEN [at |-> "exit", failures |-> failures, disturbed |-> FALSE]
    ELSE [at |-> "findings", cap |-> cap, force |-> force, todo |-> todo,
          failures |-> failures, findings |-> {},
          existing |-> {}, staged |-> {}, assigning |-> FALSE,
          to |-> <<>>, new |-> <<>>, disturbed |-> FALSE]

Start(c) ==
    /\ c \in Triggered
    /\ At(c, "none") /\ cli[c] = Idle
    /\ Selected(FALSE) # {}
    /\ \E cap \in Caps :
         job' = [job EXCEPT ![c] = Begin(cap, FALSE, Ascending(Selected(FALSE)), 0)]
    /\ UNCHANGED <<vars, trouble>>

StartByHand(c, force, only) ==
    /\ At(c, "none") /\ cli[c] = Idle
    /\ Selected(force) \cap only # {}
    /\ Trouble
    /\ \E cap \in Caps :
         job' = [job EXCEPT ![c] =
                   Begin(cap, force, Ascending(Selected(force) \cap only), 0)]
    /\ UNCHANGED vars

(* The loop of main: whatever becomes of a bucket, the next one follows,   *)
(* and the failures are the exit status.                                   *)
Done(j) == Begin(j.cap, j.force, Tail(j.todo), j.failures)
Failed(j) == Begin(j.cap, j.force, Tail(j.todo), j.failures + 1)
Succeed(c) == job' = [job EXCEPT ![c] = Done(@)]
Fail(c) == job' = [job EXCEPT ![c] = Failed(@)]

Exit(c) ==
    /\ At(c, "exit")
    /\ job' = [job EXCEPT ![c] = NoJob]
    /\ UNCHANGED <<vars, trouble>>

-----------------------------------------------------------------------------
(* findings-in-bucket, then bucket-info, which answers for every bucket.   *)
FindingsInBucket(b) == InBucket(b)
BucketInfo(b) == b \in DOMAIN buckets
ReadFindings(c) ==
    LET S == FindingsInBucket(Bucket(c)) IN
    /\ At(c, "findings")
    /\ IF S = {} THEN Succeed(c)
       ELSE IF ~BucketInfo(Bucket(c)) THEN Fail(c)
       ELSE job' = [job EXCEPT ![c].at = "subs", ![c].findings = S]
    /\ UNCHANGED <<vars, trouble>>

(* The working directory of an agent: the findings it is asked about, and  *)
(* the sub-clusters it may assign them to.  A witness whose file is        *)
(* missing is staged as a comment and does not stop the bucket.            *)
Stage(j, S, known) ==
    [j EXCEPT !.at = "agent", !.staged = S, !.existing = known]

(* sub-clusters-since the epoch, filtered by bucket.  A triaged bucket     *)
(* that is not forced gets new members only; the others are clustered.     *)
SubClustersSince(b) == SubClustersOf(b)
ReadSubClusters(c) ==
    LET j == job[c]
        known == SubClustersSince(Bucket(c))
    IN /\ At(c, "subs")
       /\ IF known # {} /\ ~j.force
          THEN job' = [job EXCEPT ![c] = [j EXCEPT !.at = "untriaged", !.existing = known]]
          ELSE IF DividesByZero(j.findings, j.cap) THEN Fail(c)
          ELSE \E half \in Halves(j.cap) :
                 job' = [job EXCEPT ![c] = Stage(j, Sample(j.findings, j.cap, half), known)]
       /\ UNCHANGED <<vars, trouble>>

(* untriaged-in-bucket, before assign_pass.  Findings that came after the  *)
(* first read are left to the next triage.                                 *)
ReadUntriaged(c) ==
    /\ At(c, "untriaged")
    /\ IF Untriaged(Bucket(c)) = {} THEN Succeed(c)
       ELSE job' = [job EXCEPT ![c] =
              Stage([@ EXCEPT !.assigning = TRUE],
                    @.findings \cap Untriaged(Bucket(c)), @.existing)]
    /\ UNCHANGED <<vars, trouble>>

(* After the first pass over a sample: untriaged-in-bucket, then           *)
(* sub-clusters-since.                                                     *)
ReadRest(c) ==
    /\ At(c, "rest")
    /\ IF Untriaged(Bucket(c)) = {} THEN Succeed(c)
       ELSE job' = [job EXCEPT ![c].at = "restSubs", ![c].assigning = TRUE,
              ![c].staged = job[c].findings \cap Untriaged(Bucket(c))]
    /\ UNCHANGED <<vars, trouble>>

ReadRestSubClusters(c) ==
    /\ At(c, "restSubs")
    /\ job' = [job EXCEPT ![c] =
                 Stage(@, @.staged, SubClustersSince(Bucket(c)))]
    /\ UNCHANGED <<vars, trouble>>

-----------------------------------------------------------------------------
(* What an agent may write to sub_clusters.json about the findings S:      *)
(* findings for known sub-clusters and lists of new ones, overlapping or   *)
(* incomplete.  What is not a list of such entries is an AgentFails.       *)
Answers(S, known) ==
    {[to |-> to, new |-> new] :
        to \in UNION {[F -> known] : F \in SUBSET S},
        new \in UNION {[1..n -> Clusters(S)] : n \in 0..MaxClusters}}

OnlyKnown(a, S) ==  \* mutant: what the agent left out is not noticed
    /\ DOMAIN a.to \cap Members(a.new) = {}
    /\ \A i, k \in DOMAIN a.new :
         i # k => a.new[i].members \cap a.new[k].members = {}
Partitions(a, S) ==
    /\ DOMAIN a.to \cup Members(a.new) = S
    /\ DOMAIN a.to \cap Members(a.new) = {}
    /\ \A i, k \in DOMAIN a.new :
         i # k => a.new[i].members \cap a.new[k].members = {}

(* assign-existing comes before record-sub-clusters; an assign_pass leaves *)
(* out either when it has nothing to do.                                   *)
AfterAssign(j) ==
    IF j.assigning /\ j.new = <<>> THEN Done(j) ELSE [j EXCEPT !.at = "record"]

AgentAnswers(c) ==
    LET j == job[c] IN
    /\ At(c, "agent")
    /\ \E a \in Answers(j.staged, IF j.assigning THEN j.existing ELSE {}) :
         /\ Partitions(a, j.staged)
         /\ job' = [job EXCEPT ![c] =
              LET told == [j EXCEPT !.to = a.to, !.new = a.new] IN
              IF a.to # <<>> THEN [told EXCEPT !.at = "assign"] ELSE AfterAssign(told)]
    /\ UNCHANGED <<vars, trouble>>

AgentFails(c) ==
    LET j == job[c] IN
    /\ At(c, "agent")
    /\ Trouble
    /\ Fail(c)
    /\ UNCHANGED vars

-----------------------------------------------------------------------------
(* The commands.  Each is one of DedupDB's, on this orchestrator's payload;*)
(* a command that refuses, rolls back or dies fails the bucket.            *)
TargetsMatch(to) ==
    \A f \in DOMAIN to :
        /\ to[f] \in DOMAIN subClusters
        /\ subClusters[to[f]].bucket = findings[f].bucket

AssignExisting(c) ==
    /\ At(c, "assign") /\ cli[c] = Idle
    /\ AssignCheckTargets(c) /\ cli'[c].to = job[c].to
    /\ UNCHANGED <<job, trouble>>

AssignRefused(c) ==
    /\ At(c, "assign") /\ cli[c] = Idle
    /\ ~TargetsMatch(job[c].to)
    /\ Fail(c)
    /\ UNCHANGED <<vars, trouble>>

AssignChecked(c) ==
    /\ At(c, "assign")
    /\ AssignCheckFindings(c)
    /\ IF cli'[c] = Idle THEN Fail(c) ELSE UNCHANGED job
    /\ UNCHANGED trouble

Assigned(c) ==
    /\ At(c, "assign")
    /\ AssignCommit(c)
    /\ job' = [job EXCEPT ![c] = AfterAssign(@)]
    /\ UNCHANGED trouble

ReplaceForced(j) == j.force /\ ~j.assigning /\ j.existing # {}

RecordSubClusters(c) ==
    /\ At(c, "record") /\ cli[c] = Idle
    /\ RecordCheck(c, Bucket(c), ReplaceForced(job[c]))
    /\ cli'[c].payload = job[c].new
    /\ UNCHANGED <<job, trouble>>

RecordRefused(c) ==
    /\ At(c, "record") /\ cli[c] = Idle
    /\ ~ReplaceForced(job[c])
    /\ ~(Members(job[c].new) \subseteq Untriaged(Bucket(c)))
    /\ Fail(c)
    /\ UNCHANGED <<vars, trouble>>

(* A first pass over a sample is followed by one over the rest.            *)
AfterRecord(j) ==
    IF ~j.assigning /\ j.staged # j.findings
    THEN [j EXCEPT !.at = "rest", !.new = <<>>]
    ELSE Done(j)

Disturb(jobs, c) ==
    [d \in Clients |->
        IF d # c /\ jobs[d].at # "none" /\ cli[c].replace
        THEN [jobs[d] EXCEPT !.disturbed = TRUE] ELSE jobs[d]]

Recorded(c) ==
    /\ RecordCommit(c)
    /\ job' = Disturb(IF At(c, "record")
                      THEN [job EXCEPT ![c] = AfterRecord(@)] ELSE job, c)
    /\ UNCHANGED trouble

RolledBack(c) ==
    /\ RecordRollback(c) \/ AssignRollback(c)
    /\ IF At(c, "none") THEN UNCHANGED job ELSE Fail(c)
    /\ UNCHANGED trouble

(* dedup.py dies or finds the database locked for 30 s.                    *)
CommandDies(c) ==
    /\ Crash(c)
    /\ Trouble
    /\ IF At(c, "none") THEN UNCHANGED job ELSE Fail(c)

(* The orchestrator is killed; the command it has started goes on.         *)
Kill(c) ==
    /\ ~At(c, "none")
    /\ Trouble
    /\ job' = [job EXCEPT ![c] = NoJob]
    /\ UNCHANGED vars

OrphanAssigns(c) ==
    /\ At(c, "none")
    /\ AssignCheckFindings(c) \/ AssignCommit(c)
    /\ UNCHANGED <<job, trouble>>

-----------------------------------------------------------------------------
TriageInit == Init /\ job = [c \in Clients |-> NoJob] /\ trouble = 0

Step(c) ==
    \/ ReadFindings(c) \/ ReadSubClusters(c) \/ ReadUntriaged(c)
    \/ ReadRest(c) \/ ReadRestSubClusters(c)
    \/ AgentAnswers(c)
    \/ AssignExisting(c) \/ AssignRefused(c) \/ AssignChecked(c) \/ Assigned(c)
    \/ RecordSubClusters(c) \/ RecordRefused(c) \/ Recorded(c) \/ RolledBack(c)
    \/ Exit(c)

TriageNext ==
    \/ \E key \in Keys, hash \in Hashes, path \in Paths :
         Register(key, hash, path) /\ UNCHANGED <<job, trouble>>
    \/ \E c \in Clients :
         \/ Start(c)
         \/ \E force \in BOOLEAN, only \in SUBSET DOMAIN buckets :
              StartByHand(c, force, only)
         \/ Step(c)
         \/ AgentFails(c) \/ CommandDies(c) \/ Kill(c) \/ OrphanAssigns(c)

TriageSpec == TriageInit /\ [][TriageNext]_triageVars

-----------------------------------------------------------------------------
(* "take n evenly-spaced indices": of every larger bucket the picks are n  *)
(* different findings, from the first to the last, whichever way the halves*)
(* are rounded.  No two picks ever meet, and the top-up adds nothing.      *)
EverySampleSpans ==
    \A S \in SUBSET (1..MaxSampled) : \A n \in 2..(Cardinality(S) - 1) :
        \A half \in Halves(n) :
            LET T == Spaced(S, n, half) IN
            /\ Cardinality(T) = n
            /\ \A f \in S : \E g, h \in T : g <= f /\ f <= h

(* It is a fact about the sampling alone: TLC looks at it in one state.    *)
SampleSpansBucket == TriageInit => EverySampleSpans

EndsWell(c) ==
    /\ job[c].at \notin {"none", "exit", "findings"}
    /\ job'[c].at \in {"exit", "findings"}
    /\ job'[c].failures = job[c].failures

(* "Returns (success, note)": when a bucket ends well, every finding that  *)
(* was read for it is in a sub-cluster, whether the agent saw all of them  *)
(* or a sample and whatever was registered or triaged meanwhile; only a    *)
(* --replace of another orchestrator can have undone it.                   *)
SuccessMeansTriaged ==
    [][\A c \in Clients :
          (EndsWell(c) /\ ~job[c].disturbed)
          => job[c].findings \subseteq DOMAIN assigned']_triageVars
=============================================================================
