-------------------------- MODULE OracleWorker_proofs --------------------------
(***************************************************************************)
(* Proofs about OracleWorker: what checked.log and the .hash markers say   *)
(* is true, for any corpus, any shard and any number of crashes.           *)
(***************************************************************************)
EXTENDS OracleWorker, TLAPS

(* What the callback has done by the time it is at each of its steps, for  *)
(* the entry it is at.                                                     *)
Failed == verdict[cur] = "fail"
CallbackInv ==
    /\ step \in {"witness", "marker"} => hash \in Hashes
    /\ step = "marker" => <<cur, hash>> \in witness \/ <<"witness", cur>> \in missed
    /\ step \in {"witness", "marker", "keep", "report"} => Failed
    /\ step = "report" /\ callback = "alive_tv" =>
          cur \in miscomp \/ <<"keep", cur>> \in missed
    /\ step = "log" => verdict[cur] # None /\ (Failed => Handled(cur))

(* The entry in work is not in the log: the names in memory are those of   *)
(* checked.log while the worker is up, and Take looks at them.             *)
EntryInv ==
    /\ phase # "down" => checked = checkedLog
    /\ step # None => phase # "down" /\ cur \in Entries \ (Skipped \cup checkedLog)

Inv == TypeOK /\ CallbackInv /\ EntryInv /\ MarkerHasWitness /\ LoggedWasHandled

-----------------------------------------------------------------------------
(* An idle worker, an empty log and no marker.                             *)
LEMMA InitEstablishes == Init => Inv
  BY ParameterAssumption
  DEF Init, Inv, TypeOK, CallbackInv, EntryInv, MarkerHasWitness, LoggedWasHandled, None

(* Every step keeps the types.                                             *)
LEMMA NextKeepsTypes == TypeOK /\ EntryInv /\ CallbackInv /\ [Next]_vars => TypeOK'
<1> SUFFICES ASSUME TypeOK, EntryInv, CallbackInv, [Next]_vars PROVE TypeOK'
  OBVIOUS
<1> USE ParameterAssumption DEF TypeOK, None, disk, memory
<1>1. CASE UNCHANGED vars
  BY <1>1 DEF vars
<1>2. ASSUME NEW e \in Entries, Create(e) \/ Close(e) PROVE TypeOK'
  BY <1>2 DEF Create, Close
<1>3. CASE Launch
  BY <1>3 DEF Launch, LoadChecked, Existing
<1>4. CASE FirstPassDone \/ Listen \/ PollDone
  BY <1>4 DEF FirstPassDone, Listen, PollDone
<1>5. CASE Wake
  BY <1>5 DEF Wake, PollAll, Existing
<1>6. ASSUME NEW e \in Entries, Take(e) PROVE TypeOK'
  BY <1>6 DEF Take
<1>7. CASE NotAFailure
  BY <1>7 DEF NotAFailure, EntryInv
<1>8. ASSUME NEW h \in Hashes, Failure(h) PROVE TypeOK'
  BY <1>8 DEF Failure, AfterRecording, EntryInv
<1>9. CASE SaveWitness \/ WriteMarker \/ KeepMiscompilation \/ Report
  BY <1>9 DEF SaveWitness, WriteMarker, KeepMiscompilation, Report, Miss, AfterRecording,
              EntryInv, CallbackInv
<1>10. CASE LogChecked
  BY <1>10 DEF LogChecked, EntryInv
<1>11. CASE Crash
  BY <1>11 DEF Crash
<1> QED
  BY <1>1, <1>2, <1>3, <1>4, <1>5, <1>6, <1>7, <1>8, <1>9, <1>10, <1>11
  DEF Next, Fuzzer, Worker, Callback

(* The worker never takes up an entry of the log.                          *)
LEMMA NextKeepsEntry == Inv /\ [Next]_vars => EntryInv'
<1> SUFFICES ASSUME Inv, [Next]_vars PROVE EntryInv'
  OBVIOUS
<1> USE ParameterAssumption DEF Inv, TypeOK, EntryInv, None, disk, memory
<1>1. CASE UNCHANGED vars
  BY <1>1 DEF vars
<1>2. ASSUME NEW e \in Entries, Create(e) \/ Close(e) PROVE EntryInv'
  BY <1>2 DEF Create, Close
<1>3. CASE Launch
  BY <1>3 DEF Launch, LoadChecked
<1>4. CASE FirstPassDone \/ Listen \/ PollDone \/ Wake
  BY <1>4 DEF FirstPassDone, Listen, PollDone, Wake
<1>5. ASSUME NEW e \in Entries, Take(e) PROVE EntryInv'
  BY <1>5 DEF Take, Delivered, Ignored
<1>6. ASSUME NEW h \in Hashes, Failure(h) PROVE EntryInv'
  BY <1>6 DEF Failure
<1>7. CASE NotAFailure \/ SaveWitness \/ WriteMarker \/ KeepMiscompilation \/ Report
  BY <1>7 DEF NotAFailure, SaveWitness, WriteMarker, KeepMiscompilation, Report
<1>8. CASE LogChecked
  BY <1>8 DEF LogChecked
<1>9. CASE Crash
  BY <1>9 DEF Crash
<1> QED
  BY <1>1, <1>2, <1>3, <1>4, <1>5, <1>6, <1>7, <1>8, <1>9
  DEF Next, Fuzzer, Worker, Callback

-----------------------------------------------------------------------------
(* Each step of the callback leaves what the next one counts on.           *)
LEMMA NextKeepsCallback == Inv /\ [Next]_vars => CallbackInv'
<1> SUFFICES ASSUME Inv, [Next]_vars PROVE CallbackInv'
  OBVIOUS
<1> USE ParameterAssumption
    DEF Inv, TypeOK, EntryInv, CallbackInv, Failed, Handled, None, disk, memory
<1>1. CASE UNCHANGED vars
  BY <1>1 DEF vars
<1>2. ASSUME NEW e \in Entries, Create(e) \/ Close(e) PROVE CallbackInv'
  BY <1>2 DEF Create, Close
<1>3. CASE Launch \/ FirstPassDone \/ Listen \/ PollDone \/ Wake
  BY <1>3 DEF Launch, FirstPassDone, Listen, PollDone, Wake
<1>4. ASSUME NEW e \in Entries, Take(e) PROVE CallbackInv'
  BY <1>4 DEF Take
<1>5. CASE NotAFailure
  BY <1>5 DEF NotAFailure
<1>6. ASSUME NEW h \in Hashes, Failure(h) PROVE CallbackInv'
  BY <1>6 DEF Failure, AfterRecording
<1>7. CASE SaveWitness
  BY <1>7 DEF SaveWitness, Miss
<1>8. CASE WriteMarker
  BY <1>8 DEF WriteMarker, AfterRecording
<1>9. CASE KeepMiscompilation \/ Report
  BY <1>9 DEF KeepMiscompilation, Report, Miss
<1>10. CASE LogChecked \/ Crash
  BY <1>10 DEF LogChecked, Crash
<1> QED
  BY <1>1, <1>2, <1>3, <1>4, <1>5, <1>6, <1>7, <1>8, <1>9, <1>10
  DEF Next, Fuzzer, Worker, Callback

(* Markers are written after their witness, and witnesses and the memory   *)
(* of a failed copy stay.                                                  *)
LEMMA NextKeepsMarkers == Inv /\ [Next]_vars => MarkerHasWitness'
<1> SUFFICES ASSUME Inv, [Next]_vars PROVE MarkerHasWitness'
  OBVIOUS
<1> USE DEF Inv, MarkerHasWitness, disk, memory
<1>1. CASE UNCHANGED <<witness, hashFile, missed>>
  BY <1>1
<1>2. CASE SaveWitness \/ KeepMiscompilation \/ Report
  <2>1. hashFile' = hashFile /\ witness \subseteq witness' /\ missed \subseteq missed'
    BY <1>2 DEF SaveWitness, KeepMiscompilation, Report, Miss
  <2> QED
    BY <2>1
<1>3. CASE WriteMarker
  <2>1. cur \in Entries /\ (<<cur, hash>> \in witness \/ <<"witness", cur>> \in missed)
    BY <1>3 DEF WriteMarker, CallbackInv, EntryInv, None
  <2> QED
    BY <1>3, <2>1 DEF WriteMarker
<1> QED
  BY <1>1, <1>2, <1>3
  DEF Next, vars, Fuzzer, Create, Close, Launch, Worker, FirstPassDone, Listen, Wake,
      PollDone, Take, Callback, NotAFailure, Failure, LogChecked, Crash

(* What was kept and reported stays so; a verdict is only written for the  *)
(* entry in work, which is not in the log.                                 *)
LEMMA NextKeepsLogged == Inv /\ [Next]_vars => LoggedWasHandled'
<1> SUFFICES ASSUME Inv, [Next]_vars PROVE LoggedWasHandled'
  OBVIOUS
<1> USE DEF Inv, LoggedWasHandled, Handled, disk, memory
<1>1. CASE UNCHANGED <<callback, checkedLog, miscomp, reported, missed, verdict>>
  BY <1>1
<1>2. ASSUME NEW h \in Hashes, Failure(h) PROVE LoggedWasHandled'
  <2>1. cur \in Entries \ checkedLog
    BY <1>2 DEF Failure, EntryInv, None
  <2>2. UNCHANGED <<callback, checkedLog, miscomp, reported, missed>>
    BY <1>2 DEF Failure
  <2>3. \A e \in checkedLog : verdict'[e] = verdict[e]
    BY <1>2, <2>1 DEF Failure, TypeOK
  <2> QED
    BY <2>2, <2>3
<1>3. CASE NotAFailure
  <2>1. cur \in Entries \ checkedLog
    BY <1>3 DEF NotAFailure, EntryInv, None
  <2>2. UNCHANGED <<callback, checkedLog, miscomp, reported, missed>>
    BY <1>3 DEF NotAFailure
  <2>3. \A e \in checkedLog : verdict'[e] = verdict[e]
    BY <1>3, <2>1 DEF NotAFailure, TypeOK
  <2> QED
    BY <2>2, <2>3
<1>4. CASE SaveWitness \/ KeepMiscompilation \/ Report
  <2>1. /\ UNCHANGED <<callback, checkedLog, verdict>>
        /\ miscomp \subseteq miscomp' /\ reported \subseteq reported'
        /\ missed \subseteq missed'
    BY <1>4 DEF SaveWitness, KeepMiscompilation, Report, Miss
  <2> QED
    BY <2>1
<1>5. CASE LogChecked
  BY <1>5 DEF LogChecked, CallbackInv, Failed
<1> QED
  BY <1>1, <1>2, <1>3, <1>4, <1>5
  DEF Next, vars, Fuzzer, Create, Close, Launch, Worker, FirstPassDone, Listen, Wake,
      PollDone, Take, Callback, WriteMarker, Crash

(* The invariant holds in every reachable state.                           *)
LEMMA InvHolds == Spec => []Inv
<1>1. Inv /\ [Next]_vars => Inv'
  BY NextKeepsTypes, NextKeepsEntry, NextKeepsCallback, NextKeepsMarkers,
     NextKeepsLogged DEF Inv
<1> QED
  BY InitEstablishes, <1>1, PTL DEF Spec

-----------------------------------------------------------------------------
(* Types of the corpus, of the results directory and of the worker.        *)
THEOREM TypeCorrect == Spec => []TypeOK
  BY InvHolds, PTL DEF Inv

(* A restarted worker only drops as known what has a witness on disk, or   *)
(* whose copy failed: the callback saves the witness before its marker     *)
(* (common.sh).                                                            *)
THEOREM MarkersCorrect == Spec => []MarkerHasWitness
  BY InvHolds, PTL DEF Inv

(* checked.log tells what was handled, wherever the worker was killed: the *)
(* entry is logged after its callback, and what the callback has left out  *)
(* it has left out because that command failed.                            *)
THEOREM LogCorrect == Spec => []LoggedWasHandled
  BY InvHolds, PTL DEF Inv

(* A logged entry is never in work again, also not by a worker that was    *)
(* started again: oracle_init reads the log back before the first find.    *)
THEOREM LogRespected == Spec => NeverRechecked
<1>1. Inv /\ [Next]_vars => [\A e \in checkedLog : cur' = e => cur = e]_vars
  <2> SUFFICES ASSUME Inv, Next, NEW e \in checkedLog, cur' = e PROVE cur = e
    OBVIOUS
  <2> USE ParameterAssumption DEF Inv, TypeOK, EntryInv, None, disk, memory
  <2>1. ASSUME NEW f \in Entries, Take(f) PROVE cur = e
    BY <2>1 DEF Take, Delivered, Ignored
  <2>2. CASE LogChecked \/ Crash
    BY <2>2 DEF LogChecked, Crash
  <2> QED
    BY <2>1, <2>2
    DEF Next, Fuzzer, Create, Close, Launch, Worker, FirstPassDone, Listen, Wake,
        PollDone, Callback, NotAFailure, Failure, SaveWitness, WriteMarker,
        KeepMiscompilation, Report
<1> QED
  BY InvHolds, <1>1, PTL DEF Spec, NeverRechecked
=============================================================================
