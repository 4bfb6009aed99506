----------------------------- MODULE RunLifecycle -----------------------------
(***************************************************************************)
(* The life of a fuzzing run: start.sh picks a RUN_ID, makes runs/<RUN_ID>,*)
(* points runs/current at it, starts processes and records their PIDs;     *)
(* stop.sh, and the trap of start.sh, kill what is recorded and finalize   *)
(* the run.  They share the files of runs/ without a lock.                 *)
(*                                                                         *)
(* Both scripts run under `set -e`, which env.sh switches on: a command    *)
(* that fails ends them.                                                   *)
(***************************************************************************)
EXTENDS Naturals, FiniteSets

CONSTANTS
    Starts,     \* bound: invocations of start.sh
    Stops       \* bound: invocations of stop.sh

ASSUME LifecycleAssumption ==
    /\ IsFiniteSet(Starts) /\ IsFiniteSet(Stops)
    /\ Starts \cap Stops = {}

Scripts == Starts \cup Stops
Ids == 1..Cardinality(Starts)   \* <date>_<sha>, <date>_<sha>_2, ...
NoId == 0
Kinds == {"fuzzer", "worker"}   \* worker: oracles, log parser, dashboard loop
Children == Starts \X Kinds

(* A manifest.json: whether there is a file, whether it parses, and whether *)
(* it has centipede_flags and end_time.  open(path, "w") leaves an empty    *)
(* file for json.dump to fill.                                              *)
NoManifest == [made |-> FALSE, whole |-> FALSE, flags |-> FALSE, ended |-> FALSE]
Empty == [NoManifest EXCEPT !.made = TRUE]
FreshManifest == [Empty EXCEPT !.whole = TRUE]

VARIABLES
    dirs,      \* ids with a directory under runs/
    manifest,  \* manifest.json of each id
    current,   \* what runs/current points at, or NoId
    tmp,       \* what runs/.current.tmp points at, or NoId
    pidsFile,  \* ids whose directory has a pids file
    pids,      \* the PIDs in it
    alive,     \* children of the starts that run
    helpers,   \* starts below whose children other processes run: a pass of the
               \* dashboard, an alive-tv, a triage under nohup
    at,        \* step of each script
    rid,       \* RUN_ID of each script
    dir,       \* RUN_DIR of each script, as the id it ends in
    read,      \* the manifest a script has in memory and is about to write
    overlaps   \* whether commands are given while a run is being set up

files == <<dirs, manifest, current, tmp>>
children == <<pidsFile, pids, alive, helpers>>
scripts == <<at, rid, dir, read>>
vars == <<files, children, scripts, overlaps>>

Init ==
    /\ dirs = {} /\ manifest = [i \in Ids |-> NoManifest]
    /\ current = NoId /\ tmp = NoId
    /\ pidsFile = {} /\ pids = [i \in Ids |-> {}]
    /\ alive = {} /\ helpers = {}
    /\ at = [p \in Scripts |-> "idle"]
    /\ rid = [p \in Scripts |-> NoId] /\ dir = [p \in Scripts |-> NoId]
    /\ read = [p \in Scripts |-> NoManifest]
    /\ overlaps \in BOOLEAN

Step(p, from, to) == at[p] = from /\ at' = [at EXCEPT ![p] = to]

SetUp == {"picked", "made", "manifesting", "manifested", "linking", "swapping", "resolving",
          "checking", "armed", "flagging", "dumping", "launching", "fuzzer_up", "sleeping",
          "worker_up"}
Finalizing == {"fin_read", "fin_write", "fin_dump", "fin_look", "fin_rm", "fin_pids"}

(* What a careful operator waits for before the next command.              *)
NoSetUp == \A p \in Starts : at[p] \notin SetUp
NoFinalizing == \A p \in Scripts : at[p] \notin Finalizing \cup {"found"}
MayStart == overlaps \/ (NoSetUp /\ NoFinalizing)
MayStop == overlaps \/ NoSetUp

-----------------------------------------------------------------------------
(* A manifest is rewritten in place: the file is emptied first, and what   *)
(* json.dump makes arrives when the file is closed.  Whoever has opened    *)
(* the file too may have filled it meanwhile; what is longer leaves its    *)
(* tail, and the file no longer parses.                                    *)
Longer(m, n) == (m.flags /\ ~n.flags) \/ (m.flags = n.flags /\ m.ended /\ ~n.ended)

NothingWritten(old, new) == old  \* mutant: the file is closed without a dump
Overwritten(old, new) == IF Longer(old, new) THEN [old EXCEPT !.whole = FALSE] ELSE new

Truncate(p, from, to) ==
    /\ Step(p, from, to)
    /\ manifest' = [manifest EXCEPT ![rid[p]] = Empty]
    /\ UNCHANGED <<dirs, current, tmp, children, rid, dir, read>>

Dump(p, from, to) ==
    /\ Step(p, from, to)
    /\ manifest' = [manifest EXCEPT ![rid[p]] = Overwritten(@, read[p])]
    /\ read' = [read EXCEPT ![p] = NoManifest]
    /\ UNCHANGED <<dirs, current, tmp, children, rid, dir>>

(* json.load of no file, or of half a one, raises and ends the script.     *)
AnyFile(i) == manifest[i].made  \* mutant: an empty file is an empty manifest
Readable(i) == manifest[i].made /\ manifest[i].whole

-----------------------------------------------------------------------------
(* regatoni_init_run_dir.                                                  *)
FirstFree(i) == i \in Ids \ dirs /\ \A j \in Ids \ dirs : i <= j

Pick(p) ==
    /\ MayStart
    /\ Step(p, "idle", "picked")
    /\ \E i \in Ids : FirstFree(i) /\ rid' = [rid EXCEPT ![p] = i]
    /\ UNCHANGED <<files, children, dir, read>>

(* mkdir -p does not mind that the directory exists.                       *)
MakeDir(p) ==
    /\ Step(p, "picked", "made")
    /\ dirs' = dirs \cup {rid[p]}
    /\ read' = [read EXCEPT ![p] = FreshManifest]
    /\ UNCHANGED <<manifest, current, tmp, children, rid, dir>>

CreateManifest(p) == Truncate(p, "made", "manifesting")
WriteManifest(p) == Dump(p, "manifesting", "manifested")

RemoveTmp(p) ==
    /\ Step(p, "manifested", "linking")
    /\ tmp' = NoId
    /\ UNCHANGED <<dirs, manifest, current, children, rid, dir, read>>

(* With a .current.tmp that already points at a directory, ln makes its    *)
(* link inside that directory.                                             *)
LinkTmp(p) ==
    /\ Step(p, "linking", "swapping")
    /\ tmp' = IF tmp = NoId THEN rid[p] ELSE tmp
    /\ UNCHANGED <<dirs, manifest, current, children, rid, dir, read>>

(* mv moves whatever .current.tmp is now, and fails without one.           *)
Swap(p) ==
    \/ /\ tmp # NoId
       /\ Step(p, "swapping", "resolving")
       /\ current' = tmp /\ tmp' = NoId
       /\ UNCHANGED <<dirs, manifest, children, rid, dir, read>>
    \/ /\ tmp = NoId
       /\ Step(p, "swapping", "exited")
       /\ UNCHANGED <<files, children, rid, dir, read>>

-----------------------------------------------------------------------------
(* start.sh: RUN_DIR is what runs/current points at by now, and its pids   *)
(* file is emptied.                                                        *)
Resolves == current # NoId

Resolve(p) ==
    \/ /\ Resolves
       /\ Step(p, "resolving", "checking")
       /\ dir' = [dir EXCEPT ![p] = current]
       /\ pidsFile' = pidsFile \cup {current}
       /\ pids' = [pids EXCEPT ![current] = {}]
       /\ UNCHANGED <<files, alive, helpers, rid, read>>
    \/ /\ ~Resolves
       /\ Step(p, "resolving", "exited")
       /\ UNCHANGED <<files, children, rid, dir, read>>

(* Missing binaries end the script; then the trap is set; a dry run ends   *)
(* with a finalized run.                                                   *)
CheckBinaries(p) ==
    /\ \/ Step(p, "checking", "exited")
       \/ Step(p, "checking", "armed")
    /\ UNCHANGED <<files, children, rid, dir, read>>

DryRun(p) ==
    /\ Step(p, "armed", "fin_read")
    /\ UNCHANGED <<files, children, rid, dir, read>>

(* regatoni_manifest_set centipede_flags.                                  *)
ReadManifest(p) ==
    /\ \/ /\ Step(p, "armed", "flagging")
          /\ Readable(rid[p])
          /\ read' = [read EXCEPT ![p] = [manifest[rid[p]] EXCEPT !.flags = TRUE]]
       \/ /\ Step(p, "armed", "exited")
          /\ ~Readable(rid[p])
          /\ UNCHANGED read
    /\ UNCHANGED <<files, children, rid, dir>>

OpenForFlags(p) == Truncate(p, "flagging", "dumping")
WriteFlags(p) == Dump(p, "dumping", "launching")

Spawn(p, kind) ==
    /\ alive' = alive \cup {<<p, kind>>}
    /\ UNCHANGED <<files, pidsFile, pids, helpers, rid, dir, read>>

(* record_pid appends to the file, or creates it.                          *)
RecordNothing(p, kind) == pids  \* mutant: the child is not recorded
Recorded(p, kind) == [pids EXCEPT ![dir[p]] = @ \cup {<<p, kind>>}]

Record(p, kind) ==
    /\ pidsFile' = pidsFile \cup {dir[p]}
    /\ pids' = Recorded(p, kind)
    /\ UNCHANGED <<files, alive, helpers, rid, dir, read>>

SpawnFuzzer(p) == Step(p, "launching", "fuzzer_up") /\ Spawn(p, "fuzzer")
RecordFuzzer(p) == Step(p, "fuzzer_up", "sleeping") /\ Record(p, "fuzzer")

FuzzerGone(p) ==
    /\ <<p, "fuzzer">> \notin alive
    /\ Step(p, "sleeping", "exited")
    /\ UNCHANGED <<files, children, rid, dir, read>>

SpawnWorker(p) ==
    /\ <<p, "fuzzer">> \in alive
    /\ Step(p, "sleeping", "worker_up")
    /\ Spawn(p, "worker")

RecordWorker(p) == Step(p, "worker_up", "running") /\ Record(p, "worker")

(* `wait` returns when the script has no child left.                       *)
WaitEnds(p) ==
    /\ \A k \in Kinds : <<p, k>> \notin alive
    /\ Step(p, "running", "exited")
    /\ UNCHANGED <<files, children, rid, dir, read>>

Die(c) ==
    /\ c \in alive
    /\ alive' = alive \ {c}
    /\ UNCHANGED <<files, pidsFile, pids, helpers, at, rid, dir, read>>

(* A child starts processes of its own.  Nobody records them, they outlive *)
(* it, and they end when they are done.                                    *)
Fork(p) ==
    /\ \E k \in Kinds : <<p, k>> \in alive
    /\ helpers' = helpers \cup {p}
    /\ UNCHANGED <<files, pidsFile, pids, alive, scripts>>

HelpersEnd(p) ==
    /\ helpers' = helpers \ {p}
    /\ UNCHANGED <<files, pidsFile, pids, alive, scripts>>

-----------------------------------------------------------------------------
(* The PIDs in the file are sent SIGTERM, and SIGKILL if they linger; the  *)
(* processes below them are not.                                           *)
KillRecorded(i) ==
    /\ alive' = alive \ pids[i]
    /\ UNCHANGED <<pidsFile, pids, helpers>>

Interruptible == IF overlaps THEN {"armed", "flagging", "dumping", "launching", "fuzzer_up",
                                   "sleeping", "worker_up", "running"}
                 ELSE {"running"}

(* The INT and TERM trap of start.sh: shutdown.  A Ctrl-C also ends the    *)
(* command in the foreground, half-way through a manifest for instance.    *)
Shutdown(p) ==
    /\ at[p] \in Interruptible
    /\ at' = [at EXCEPT ![p] = "fin_read"]
    /\ KillRecorded(dir[p])
    /\ read' = [read EXCEPT ![p] = NoManifest]
    /\ UNCHANGED <<files, rid, dir>>

(* stop.sh [RUN_ID].                                                       *)
Locate(q) ==
    /\ MayStop
    /\ \/ /\ Step(q, "idle", "found")
          /\ \E i \in dirs \cup ({current} \ {NoId}) :
                rid' = [rid EXCEPT ![q] = i] /\ dir' = [dir EXCEPT ![q] = i]
       \/ /\ current = NoId
          /\ Step(q, "idle", "exited")
          /\ UNCHANGED <<rid, dir>>
    /\ UNCHANGED <<files, children, read>>

StopChildren(q) ==
    \/ /\ rid[q] \in pidsFile
       /\ Step(q, "found", "fin_read")
       /\ KillRecorded(rid[q])
       /\ UNCHANGED <<files, rid, dir, read>>
    \/ /\ rid[q] \notin pidsFile
       /\ Step(q, "found", "exited")
       /\ UNCHANGED <<files, children, rid, dir, read>>

(* regatoni_finalize_run_dir, by stop.sh and by start.sh.                  *)
FinRead(p) ==
    /\ \/ /\ Step(p, "fin_read", "fin_write")
          /\ Readable(rid[p])
          /\ read' = [read EXCEPT ![p] = [manifest[rid[p]] EXCEPT !.ended = TRUE]]
       \/ /\ Step(p, "fin_read", "exited")
          /\ ~Readable(rid[p])
          /\ UNCHANGED read
    /\ UNCHANGED <<files, children, rid, dir>>

FinOpen(p) == Truncate(p, "fin_write", "fin_dump")
FinWrite(p) == Dump(p, "fin_dump", "fin_look")

NoRun(p) == FALSE  \* mutant: readlink's absolute path never equals the RUN_ID
PointsAt(p) == current = rid[p]

AfterFinalize(p) == IF p \in Stops THEN "fin_pids" ELSE "exited"

FinLook(p) ==
    /\ IF current # NoId /\ PointsAt(p) THEN Step(p, "fin_look", "fin_rm")
       ELSE Step(p, "fin_look", AfterFinalize(p))
    /\ UNCHANGED <<files, children, rid, dir, read>>

FinRm(p) ==
    /\ Step(p, "fin_rm", AfterFinalize(p))
    /\ current' = NoId
    /\ UNCHANGED <<dirs, manifest, tmp, children, rid, dir, read>>

RemovePids(q) ==
    /\ Step(q, "fin_pids", "exited")
    /\ pidsFile' = pidsFile \ {rid[q]}
    /\ pids' = [pids EXCEPT ![rid[q]] = {}]
    /\ UNCHANGED <<files, alive, helpers, rid, dir, read>>

-----------------------------------------------------------------------------
StartRun(p) ==
    \/ Pick(p) \/ MakeDir(p) \/ CreateManifest(p) \/ WriteManifest(p)
    \/ RemoveTmp(p) \/ LinkTmp(p) \/ Swap(p) \/ Resolve(p)
    \/ CheckBinaries(p) \/ DryRun(p) \/ ReadManifest(p) \/ OpenForFlags(p) \/ WriteFlags(p)
    \/ SpawnFuzzer(p) \/ RecordFuzzer(p) \/ FuzzerGone(p)
    \/ SpawnWorker(p) \/ RecordWorker(p) \/ WaitEnds(p) \/ Shutdown(p)

StopRun(q) == Locate(q) \/ StopChildren(q) \/ RemovePids(q)

Finalize(p) == FinRead(p) \/ FinOpen(p) \/ FinWrite(p) \/ FinLook(p) \/ FinRm(p)

Next ==
    /\ \/ \E p \in Starts : StartRun(p)
       \/ \E q \in Stops : StopRun(q)
       \/ \E p \in Scripts : Finalize(p)
       \/ \E c \in Children : Die(c)
       \/ \E p \in Starts : Fork(p) \/ HelpersEnd(p)
    /\ UNCHANGED overlaps

Spec == Init /\ [][Next]_vars

-----------------------------------------------------------------------------
(* Types of the files, the processes and the scripts.                      *)
Manifests == [made : BOOLEAN, whole : BOOLEAN, flags : BOOLEAN, ended : BOOLEAN]

TypeOK ==
    /\ dirs \subseteq Ids
    /\ manifest \in [Ids -> Manifests]
    /\ current \in Ids \cup {NoId} /\ tmp \in Ids \cup {NoId}
    /\ pidsFile \subseteq Ids /\ pids \in [Ids -> SUBSET Children]
    /\ alive \subseteq Children /\ helpers \subseteq Starts
    /\ at \in [Scripts -> {"idle", "exited", "found", "running"} \cup SetUp \cup Finalizing]
    /\ rid \in [Scripts -> Ids \cup {NoId}] /\ dir \in [Scripts -> Ids \cup {NoId}]
    /\ read \in [Scripts -> Manifests]
    /\ overlaps \in BOOLEAN

(* What a manifest has, or has in the memory of whoever emptied the file   *)
(* and is about to fill it.                                                *)
Has(i, field) ==
    \/ manifest[i][field]
    \/ \E p \in Scripts : /\ rid[p] = i /\ at[p] \in {"manifesting", "dumping", "fin_dump"}
                          /\ read[p][field]

(* "Atomic symlink swap": runs/current, and what is about to be moved onto *)
(* it, never names a run without directory and manifest, however commands  *)
(* overlap; when none meets a run being set up, the manifest parses or is  *)
(* being rewritten.                                                        *)
CurrentHasManifest ==
    \A i \in {current, tmp} \ {NoId} :
        i \in dirs /\ manifest[i].made /\ (~overlaps => Has(i, "whole"))

(* When no command meets a run being set up, a run whose end is stamped    *)
(* has no child left, recorded or not, and starts nothing any more: what   *)
(* its children had started may still run, and only ends.                  *)
EndedRunsAreOver ==
    [][~overlaps => \A p \in Starts :
         rid[p] # NoId /\ manifest[rid[p]].ended =>
            /\ \A k \in Kinds : <<p, k>> \notin alive
            /\ p \in helpers' => p \in helpers]_vars

(* When no command meets a run being set up, runs/current names a run that *)
(* has ended only while a script is on its way to remove it.               *)
CurrentIsNotOver ==
    ~overlaps /\ current # NoId /\ manifest[current].ended =>
        \E p \in Scripts : rid[p] = current /\ at[p] \in {"fin_look", "fin_rm"}

(* "The run directory is preserved as the artifact": as long as no command *)
(* meets a run being set up, a manifest that parses, its flags and its end *)
(* are not lost, although several stops and the trap of start.sh may read, *)
(* empty and fill the file in any order; while it is empty, whoever        *)
(* emptied it is going to write them.                                      *)
ManifestGrows ==
    [][~overlaps =>
         \A i \in Ids, field \in {"whole", "flags", "ended"} :
             Has(i, field) => Has(i, field)']_vars

(* "Each fuzzing run gets its own directory containing all of its state"   *)
(* (run_helpers.sh:4).                                                     *)
OwnDirectory ==
    \A p, r \in Starts : p # r /\ dir[p] # NoId => dir[p] # dir[r]
=============================================================================
