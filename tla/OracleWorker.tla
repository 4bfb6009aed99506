----------------------------- MODULE OracleWorker -----------------------------
(***************************************************************************)
(* One oracle worker (scripts/oracles/common.sh with the callback of       *)
(* alive_tv.sh or asan_opt.sh) following the corpus directory the fuzzer   *)
(* writes.  The worker keeps checked names and failure hashes in memory    *)
(* and mirrors them in checked.log and fail/<hash>.hash; it can be killed  *)
(* between any two of its writes and started again by hand.                *)
(***************************************************************************)
EXTENDS Naturals, FiniteSets

CONSTANTS
    Entries,     \* files that may appear in the corpus directory
    Skipped,     \* those this worker ignores: *.ll seeds, other shards' entries
    Seeds,       \* the *.ll seeds, which start.sh copies before anything runs
    Hashes,      \* hashes of the first five lines of a failure's output
    Callbacks,   \* the oracles: subset of {"alive_tv", "asan_opt"}
    Inotify,     \* what `command -v inotifywait` may answer: subset of BOOLEAN
    MaxCrashes,  \* bound: times the worker is killed
    MaxMissed    \* bound: entries for which a command of the callback fails

None == "none"

ASSUME ParameterAssumption ==
    /\ Seeds \subseteq Skipped /\ Skipped \subseteq Entries /\ None \notin Entries \cup Hashes
    /\ Callbacks \subseteq {"alive_tv", "asan_opt"} /\ Inotify \subseteq BOOLEAN
    /\ MaxCrashes \in Nat /\ MaxMissed \in Nat

VARIABLES
    file,        \* the fuzzer's side: "absent", "open" (being written), "closed"
    callback,    \* the oracle this worker runs
    checkedLog,  \* checked.log
    witness,     \* fail/<base> with its .log: pairs of an entry and a hash
    hashFile,    \* fail/<hash>.hash
    miscomp,     \* the run's miscompilations directory
    reported,    \* entries reduced (alive_tv) or registered in the database (asan_opt)
    missed,      \* the commands of a callback that failed: pairs of one and an entry
    verdict,     \* the last verdict the callback reached on an entry
    phase,       \* where oracle_watch_corpus is
    step,        \* where _oracle_process_one and its callback are
    cur, hash,   \* the entry being processed, the hash of its failure
    todo,        \* what the running find has still to deliver
    events,      \* close_write events inotifywait has still to deliver
    checked,     \* ORACLE_CHECKED
    failHashes,  \* ORACLE_FAIL_HASHES
    crashes      \* times the worker was killed so far

disk == <<checkedLog, witness, hashFile, miscomp, reported, missed, verdict>>
memory == <<phase, step, cur, hash, todo, events, checked, failHashes>>
vars == <<file, callback, disk, memory, crashes>>

Existing == {e \in Entries : file[e] # "absent"}

Init ==
    /\ file \in {f \in [Entries -> {"absent", "closed"}] : \A e \in Seeds : f[e] = "closed"}
    /\ callback \in Callbacks
    /\ checkedLog = {} /\ witness = {} /\ hashFile = {}
    /\ miscomp = {} /\ reported = {} /\ missed = {}
    /\ verdict = [e \in Entries |-> None]
    /\ phase = "down" /\ step = None /\ cur = None /\ hash = None
    /\ todo = {} /\ events = {} /\ checked = {} /\ failHashes = {}
    /\ crashes = 0

-----------------------------------------------------------------------------
(* The fuzzer creates an entry and closes it when it is written.  A find   *)
(* that is under way may or may not still come across a new entry; a       *)
(* close is an event only while inotifywait is listening.                  *)
Create(e) ==
    /\ file[e] = "absent"
    /\ file' = [file EXCEPT ![e] = "open"]
    /\ todo' \in IF phase \in {"scan", "poll"} THEN {todo, todo \cup {e}} ELSE {todo}
    /\ UNCHANGED <<callback, disk, phase, step, cur, hash, events, checked, failHashes, crashes>>

Close(e) ==
    /\ file[e] = "open"
    /\ file' = [file EXCEPT ![e] = "closed"]
    /\ events' = IF phase = "watch" THEN events \cup {e} ELSE events
    /\ UNCHANGED <<callback, disk, phase, step, cur, hash, todo, checked, failHashes, crashes>>

-----------------------------------------------------------------------------
(* oracle_init reloads the log and the hashes; oracle_watch_corpus then    *)
(* goes once over the directory.                                           *)
ForgetChecked == {}   \* mutant: checked.log is not read back
LoadChecked == checkedLog

Launch ==
    /\ phase = "down"
    /\ phase' = "scan"
    /\ todo' = Existing
    /\ checked' = LoadChecked
    /\ failHashes' = hashFile
    /\ UNCHANGED <<file, callback, disk, step, cur, hash, events, crashes>>

(* Only when the first pass is over does the worker start inotifywait; if  *)
(* there is none it goes over the directory again every ten seconds.       *)
FirstPassDone ==
    /\ phase = "scan" /\ step = None /\ todo = {}
    /\ \E installed \in Inotify : phase' = IF installed THEN "arming" ELSE "sleep"
    /\ UNCHANGED <<file, callback, disk, step, cur, hash, todo, events, checked, failHashes, crashes>>

Listen ==
    /\ phase = "arming"
    /\ phase' = "watch"
    /\ UNCHANGED <<file, callback, disk, step, cur, hash, todo, events, checked, failHashes, crashes>>

PollOpen == {e \in Existing : file[e] = "open"}  \* mutant: only what is being written
PollAll == Existing

Wake ==
    /\ phase = "sleep"
    /\ phase' = "poll"
    /\ todo' = PollAll
    /\ UNCHANGED <<file, callback, disk, step, cur, hash, events, checked, failHashes, crashes>>

PollDone ==
    /\ phase = "poll" /\ step = None /\ todo = {}
    /\ phase' = "sleep"
    /\ UNCHANGED <<file, callback, disk, step, cur, hash, todo, events, checked, failHashes, crashes>>

(* _oracle_process_one up to its early returns.                            *)
Delivered(e) ==
    \/ phase \in {"scan", "poll"} /\ e \in todo
    \/ phase = "watch" /\ e \in events

IgnoredIfOpen(e) == e \in Skipped \cup checked \/ file[e] = "open"  \* mutant
Ignored(e) == e \in Skipped \cup checked

Take(e) ==
    /\ step = None
    /\ Delivered(e)
    /\ todo' = todo \ {e} /\ events' = events \ {e}
    /\ IF Ignored(e)
       THEN UNCHANGED <<step, cur>>
       ELSE step' = "check" /\ cur' = e
    /\ UNCHANGED <<file, callback, disk, phase, hash, checked, failHashes, crashes>>

(* The callback runs the tool on the file as it is now and records the     *)
(* verdict: a failure, or one of pass, timeout and error.  A failure whose *)
(* hash is known leaves no new witness; a new hash is entered in memory    *)
(* before anything of it is on disk.                                       *)
NotAFailure ==
    /\ step = "check"
    /\ verdict' = [verdict EXCEPT ![cur] = "no_failure"]
    /\ step' = "log"
    /\ UNCHANGED <<file, callback, checkedLog, witness, hashFile, miscomp, reported, missed,
                   phase, cur, hash, todo, events, checked, failHashes, crashes>>

AfterRecording == IF callback = "alive_tv" THEN "keep" ELSE "report"

FailureOncePerHash(h) ==  \* mutant: a known hash ends the whole callback
    /\ step = "check"
    /\ verdict' = [verdict EXCEPT ![cur] = "fail"]
    /\ hash' = h
    /\ failHashes' = failHashes \cup {h}
    /\ step' = IF h \in failHashes THEN "log" ELSE "witness"
    /\ UNCHANGED <<file, callback, checkedLog, witness, hashFile, miscomp, reported, missed,
                   phase, cur, todo, events, checked, crashes>>

Failure(h) ==
    /\ step = "check"
    /\ verdict' = [verdict EXCEPT ![cur] = "fail"]
    /\ hash' = h
    /\ failHashes' = failHashes \cup {h}
    /\ step' = IF h \in failHashes THEN AfterRecording ELSE "witness"
    /\ UNCHANGED <<file, callback, checkedLog, witness, hashFile, miscomp, reported, missed,
                   phase, cur, todo, events, checked, crashes>>

(* cp of the witness and its log, and only then the .hash marker.  No      *)
(* command of a callback is checked, but for an error message: when one    *)
(* fails the callback goes on behind it.                                   *)
Miss(command) ==
    /\ Cardinality({m[2] : m \in missed} \cup {cur}) <= MaxMissed
    /\ missed' = missed \cup {<<command, cur>>}

SaveMarkerFirst ==  \* mutant: the marker is written before the witness
    /\ step = "witness"
    /\ \/ /\ hash \notin hashFile
          /\ hashFile' = hashFile \cup {hash}
          /\ UNCHANGED <<witness, step>>
       \/ /\ hash \in hashFile
          /\ witness' = witness \cup {<<cur, hash>>}
          /\ step' = AfterRecording
          /\ UNCHANGED hashFile
    /\ UNCHANGED <<file, callback, checkedLog, miscomp, reported, missed, verdict,
                   phase, cur, hash, todo, events, checked, failHashes, crashes>>

SaveWitness ==
    /\ step = "witness"
    /\ \/ witness' = witness \cup {<<cur, hash>>} /\ UNCHANGED missed
       \/ Miss("witness") /\ UNCHANGED witness
    /\ step' = "marker"
    /\ UNCHANGED <<file, callback, checkedLog, hashFile, miscomp, reported, verdict,
                   phase, cur, hash, todo, events, checked, failHashes, crashes>>

WriteMarker ==
    /\ step = "marker"
    /\ hashFile' = hashFile \cup {hash}
    /\ step' = AfterRecording
    /\ UNCHANGED <<file, callback, checkedLog, witness, miscomp, reported, missed, verdict,
                   phase, cur, hash, todo, events, checked, failHashes, crashes>>

(* alive_tv_check copies every failing entry, known hash or not (cp -n ||  *)
(* true), then reduces the copy in the foreground: reduce_miscompilation   *)
(* gives up without one, and when the test or llvm-reduce fails.           *)
(* asan_check registers the entry itself; a failure is a line of the log.  *)
KeepMiscompilation ==
    /\ step = "keep"
    /\ \/ miscomp' = miscomp \cup {cur} /\ UNCHANGED missed
       \/ Miss("keep") /\ UNCHANGED miscomp
    /\ step' = "report"
    /\ UNCHANGED <<file, callback, checkedLog, witness, hashFile, reported, verdict,
                   phase, cur, hash, todo, events, checked, failHashes, crashes>>

Report ==
    /\ step = "report"
    /\ \/ /\ callback = "alive_tv" => cur \in miscomp
          /\ reported' = reported \cup {cur}
          /\ UNCHANGED missed
       \/ Miss("report") /\ UNCHANGED reported
    /\ step' = "log"
    /\ UNCHANGED <<file, callback, checkedLog, witness, hashFile, miscomp, verdict,
                   phase, cur, hash, todo, events, checked, failHashes, crashes>>

(* After the callback: ORACLE_CHECKED and checked.log.                     *)
LogChecked ==
    /\ step = "log"
    /\ checked' = checked \cup {cur}
    /\ checkedLog' = checkedLog \cup {cur}
    /\ step' = None /\ cur' = None /\ hash' = None
    /\ UNCHANGED <<file, callback, witness, hashFile, miscomp, reported, missed, verdict,
                   phase, todo, events, failHashes, crashes>>

Crash ==
    /\ phase # "down"
    /\ crashes < MaxCrashes
    /\ crashes' = crashes + 1
    /\ phase' = "down" /\ step' = None /\ cur' = None /\ hash' = None
    /\ todo' = {} /\ events' = {} /\ checked' = {} /\ failHashes' = {}
    /\ UNCHANGED <<file, callback, disk>>

Fuzzer == \E e \in Entries : Create(e) \/ Close(e)

Callback ==
    \/ NotAFailure
    \/ \E h \in Hashes : Failure(h)
    \/ SaveWitness \/ WriteMarker \/ KeepMiscompilation \/ Report
    \/ LogChecked

Worker ==
    \/ FirstPassDone \/ Listen \/ Wake \/ PollDone
    \/ \E e \in Entries : Take(e)
    \/ Callback

Next == Fuzzer \/ Launch \/ Worker \/ Crash

(* A running worker keeps running, every entry find or inotifywait has     *)
(* delivered is read in turn, and a file that was opened is closed; no one *)
(* has to start a worker again or to write more entries.                   *)
Fairness ==
    /\ WF_vars(Worker)
    /\ \A e \in Entries : WF_vars(Close(e))

Spec == Init /\ [][Next]_vars
FairSpec == Spec /\ Fairness

-----------------------------------------------------------------------------
(* Types of the corpus, of the results directory and of the worker.        *)
TypeOK ==
    /\ file \in [Entries -> {"absent", "open", "closed"}]
    /\ callback \in Callbacks
    /\ checkedLog \subseteq Entries \ Skipped
    /\ witness \subseteq (Entries \X Hashes) /\ hashFile \subseteq Hashes
    /\ miscomp \subseteq Entries /\ reported \subseteq Entries
    /\ missed \subseteq {"witness", "keep", "report"} \X Entries
    /\ verdict \in [Entries -> {None, "no_failure", "fail"}]
    /\ phase \in {"down", "scan", "arming", "watch", "sleep", "poll"}
    /\ step \in {None, "check", "witness", "marker", "keep", "report", "log"}
    /\ cur \in Entries \cup {None} /\ hash \in Hashes \cup {None}
    /\ (step = None) <=> (cur = None)
    /\ todo \subseteq Entries /\ events \subseteq Entries
    /\ checked \subseteq Entries /\ failHashes \subseteq Hashes
    /\ crashes \in 0..MaxCrashes

(* A .hash marker stands for a saved witness: after any crash, a failure   *)
(* that the restarted worker will drop as known has a witness on disk,     *)
(* unless the copy itself failed; a kill alone never costs one.            *)
MarkerHasWitness ==
    \A h \in hashFile : \E e \in Entries :
        <<e, h>> \in witness \/ <<"witness", e>> \in missed

(* An entry in checked.log went through its whole callback: it has a       *)
(* verdict, and a failing one was kept and reduced (alive_tv) or           *)
(* registered (asan_opt), or that very command failed.  Nothing a kill has *)
(* left out is logged; what a failed command has left out is.              *)
Handled(e) ==
    /\ e \in reported \/ <<"report", e>> \in missed
    /\ callback = "alive_tv" => e \in miscomp \/ <<"keep", e>> \in missed

LoggedWasHandled ==
    \A e \in checkedLog : verdict[e] # None /\ (verdict[e] = "fail" => Handled(e))

(* An entry in checked.log is never checked again, by a restarted worker   *)
(* or on a second event or pass.                                           *)
NeverRechecked ==
    [][\A e \in checkedLog : cur' = e => cur = e]_vars

Checked(e) == e \in checkedLog \/ phase = "down"

(* What find or inotifywait has delivered is eventually checked, however   *)
(* the entry changes meanwhile, unless the worker is killed.               *)
DeliveredIsChecked ==
    \A e \in Entries \ Skipped : Delivered(e) ~> Checked(e)

(* A worker that polls eventually checks every entry of the corpus.        *)
PollingChecksAll ==
    \A e \in Entries \ Skipped :
        (file[e] # "absent" /\ phase = "sleep") ~> Checked(e)

(* README: "The alive-tv oracle invokes Alive2's compareFunctions on each  *)
(* new corpus entry": while the worker runs, an entry the fuzzer has       *)
(* written is eventually checked.                                          *)
EveryEntryChecked ==
    \A e \in Entries \ Skipped :
        (file[e] = "closed" /\ phase # "down") ~> Checked(e)
=============================================================================
