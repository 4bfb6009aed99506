------------------------- MODULE RunLifecycle_proofs -------------------------
(***************************************************************************)
(* Proofs about RunLifecycle, for any number of starts and stops: what     *)
(* runs/current points at has a directory and a manifest however the       *)
(* scripts interleave; and when commands do not overlap a run being set    *)
(* up, ended runs are over and manifests grow.                             *)
(***************************************************************************)
EXTENDS RunLifecycle, TLAPS

Resolved == {"checking", "armed", "flagging", "dumping", "launching", "fuzzer_up", "sleeping",
             "worker_up", "running"}
Manifested == {"manifesting", "manifested", "linking", "swapping", "resolving"} \cup (Resolved \ {"running"})

(* What a script has behind it: a RUN_ID, a RUN_DIR, its own directory and *)
(* manifest, and in memory a manifest that was there.                      *)
Behind(p) ==
    /\ at[p] \notin {"idle", "exited"} => rid[p] \in Ids
    /\ at[p] \in Resolved => dir[p] \in Ids
    /\ at[p] \in {"made"} \cup Manifested => rid[p] \in dirs
    /\ at[p] \in Manifested \cup {"fin_dump"} => manifest[rid[p]].made
    /\ at[p] \in {"made", "manifesting", "flagging", "dumping", "fin_write", "fin_dump"} =>
          read[p].made

(* What the links name is there.                                           *)
LinksHold == \A i \in {current, tmp} \ {NoId} : i \in dirs /\ manifest[i].made

Inv == TypeOK /\ (\A p \in Scripts : Behind(p)) /\ LinksHold

(* What no step takes away: directories and manifests.                     *)
Grows ==
    /\ dirs \subseteq dirs'
    /\ \A i \in Ids : manifest[i].made => manifest'[i].made

(* A step of p leaves the variables of the other scripts alone.            *)
OnlyOf(p) ==
    \A q \in Scripts \ {p} :
        at'[q] = at[q] /\ rid'[q] = rid[q] /\ dir'[q] = dir[q] /\ read'[q] = read[q]

-----------------------------------------------------------------------------
Steps == {"idle", "exited", "found", "running"} \cup SetUp \cup Finalizing

(* NoId is no id.                                                          *)
LEMMA NoIdIsNone == NoId \notin Ids
  BY DEF NoId, Ids

(* Nothing runs in the beginning.                                          *)
LEMMA InitEstablishes == Init => Inv
<1>1. NoManifest \in Manifests
  BY DEF NoManifest, Manifests
<1>2. Init => TypeOK
  BY <1>1 DEF Init, TypeOK
<1> QED
  BY <1>2, NoIdIsNone DEF Init, Inv, Behind, LinksHold, Resolved, Manifested

(* Where nothing is taken away, what the other scripts have behind them    *)
(* stays behind them.                                                      *)
LEMMA OthersKeep ==
  ASSUME Inv, NEW p \in Scripts, Grows, OnlyOf(p), Behind(p)'
  PROVE  (\A q \in Scripts : Behind(q))'
<1>1. ASSUME NEW q \in Scripts, q # p PROVE Behind(q)'
  <2>1. Behind(q) /\ rid'[q] = rid[q] /\ at'[q] = at[q] /\ dir'[q] = dir[q] /\ read'[q] = read[q]
    BY <1>1 DEF Inv, OnlyOf
  <2> QED
    BY <2>1 DEF Behind, Grows, Resolved, Manifested
<1> QED
  BY <1>1

(* And what the links name keeps its directory and manifest.               *)
LEMMA LinksKeep ==
  ASSUME Inv, Grows,
         {current', tmp'} \subseteq {current, tmp, NoId}
  PROVE  LinksHold'
  BY NoIdIsNone DEF Inv, TypeOK, Grows, LinksHold

(* What is written is a manifest, and there is a file after it.            *)
LEMMA ManifestTypes ==
  /\ NoManifest \in Manifests /\ Empty \in Manifests /\ FreshManifest \in Manifests
  /\ Empty.made /\ FreshManifest.made
  /\ Empty.whole = FALSE /\ Empty.flags = FALSE /\ Empty.ended = FALSE
  /\ FreshManifest.whole /\ ~FreshManifest.flags /\ ~FreshManifest.ended
  BY DEF NoManifest, Empty, FreshManifest, Manifests

LEMMA FieldsSet ==
  ASSUME NEW m \in Manifests
  PROVE  /\ [m EXCEPT !.flags = TRUE] \in Manifests /\ [m EXCEPT !.ended = TRUE] \in Manifests
         /\ [m EXCEPT !.flags = TRUE].made = m.made /\ [m EXCEPT !.ended = TRUE].made = m.made
  BY DEF Manifests

LEMMA OverwrittenIs ==
  ASSUME NEW m \in Manifests, NEW n \in Manifests, m.made, n.made
  PROVE  Overwritten(m, n) \in Manifests /\ Overwritten(m, n).made
<1>1. [m EXCEPT !.whole = FALSE] \in Manifests /\ [m EXCEPT !.whole = FALSE].made = m.made
  BY DEF Manifests
<1> QED
  BY <1>1 DEF Overwritten

(* Emptying the file, and filling it.                                      *)
LEMMA Truncated ==
  ASSUME Inv, NEW p \in Scripts, NEW from, NEW to \in Steps, Truncate(p, from, to),
         rid[p] \in Ids, overlaps' = overlaps
  PROVE  /\ TypeOK' /\ Grows /\ OnlyOf(p)
         /\ manifest'[rid[p]] = Empty
         /\ \A i \in Ids \ {rid[p]} : manifest'[i] = manifest[i]
         /\ at[p] = from /\ at'[p] = to /\ read' = read
<1> USE DEF Truncate, Step, Inv, TypeOK, files, children
<1>1. manifest' \in [Ids -> Manifests] /\ manifest'[rid[p]] = Empty
  BY ManifestTypes
<1>2. \A i \in Ids \ {rid[p]} : manifest'[i] = manifest[i]
  OBVIOUS
<1>3. at' \in [Scripts -> Steps]
  BY DEF Steps
<1>4. Grows
  BY <1>1, <1>2, ManifestTypes DEF Grows
<1>5. OnlyOf(p) /\ at[p] = from /\ at'[p] = to
  BY DEF OnlyOf
<1> QED
  BY <1>1, <1>2, <1>3, <1>4, <1>5 DEF Steps

LEMMA Dumped ==
  ASSUME Inv, NEW p \in Scripts, NEW from, NEW to \in Steps, Dump(p, from, to),
         rid[p] \in Ids, manifest[rid[p]].made, read[p].made, overlaps' = overlaps
  PROVE  /\ TypeOK' /\ Grows /\ OnlyOf(p)
         /\ manifest'[rid[p]] = Overwritten(manifest[rid[p]], read[p])
         /\ \A i \in Ids \ {rid[p]} : manifest'[i] = manifest[i]
         /\ at[p] = from /\ at'[p] = to
<1> USE DEF Dump, Step, Inv, TypeOK, files, children
<1>1. Overwritten(manifest[rid[p]], read[p]) \in Manifests
      /\ Overwritten(manifest[rid[p]], read[p]).made
  BY OverwrittenIs
<1>2. /\ manifest' \in [Ids -> Manifests]
      /\ manifest'[rid[p]] = Overwritten(manifest[rid[p]], read[p])
  BY <1>1
<1>3. \A i \in Ids \ {rid[p]} : manifest'[i] = manifest[i]
  OBVIOUS
<1>4. at' \in [Scripts -> Steps]
  BY DEF Steps
<1>5. read' \in [Scripts -> Manifests]
  BY ManifestTypes
<1>6. Grows
  BY <1>1, <1>2, <1>3 DEF Grows
<1>7. OnlyOf(p) /\ at[p] = from /\ at'[p] = to
  BY DEF OnlyOf
<1> QED
  BY <1>2, <1>3, <1>4, <1>5, <1>6, <1>7 DEF Steps

-----------------------------------------------------------------------------
(* Every step keeps the types.                                             *)
LEMMA StartKeepsTypes ==
  ASSUME Inv, NEW p \in Starts, StartRun(p), overlaps' = overlaps
  PROVE  TypeOK'
<1> p \in Scripts
  BY DEF Scripts
<1> Behind(p)
  BY DEF Inv
<1> USE NoIdIsNone DEF Inv, TypeOK, files, children, Step, SetUp, Finalizing
<1>1. CASE Pick(p)
  BY <1>1 DEF Pick, FirstFree
<1>2. CASE MakeDir(p)
  BY <1>2, ManifestTypes DEF MakeDir, Behind
<1>3. CASE CreateManifest(p) \/ OpenForFlags(p)
  <2>1. rid[p] \in Ids
    BY <1>3 DEF CreateManifest, OpenForFlags, Truncate, Behind
  <2> QED
    BY <1>3, <2>1, Truncated DEF CreateManifest, OpenForFlags, Steps
<1>4. CASE RemoveTmp(p)
  BY <1>4 DEF RemoveTmp
<1>5. CASE LinkTmp(p)
  BY <1>5 DEF LinkTmp, Behind, Manifested
<1>6. CASE Swap(p)
  BY <1>6 DEF Swap
<1>7. CASE Resolve(p)
  <2>1. CASE Resolves
    <3>1. current \in Ids
      BY <2>1 DEF Resolves
    <3>2. pidsFile' \subseteq Ids /\ pids' \in [Ids -> SUBSET Children]
      BY <1>7, <2>1, <3>1 DEF Resolve
    <3>3. /\ at' \in [Scripts -> {"idle", "exited", "found", "running"} \cup SetUp \cup Finalizing]
          /\ dir' \in [Scripts -> Ids \cup {NoId}]
      BY <1>7, <2>1, <3>1, SMTT(20) DEF Resolve
    <3> QED
      BY <1>7, <2>1, <3>2, <3>3 DEF Resolve
  <2>2. CASE ~Resolves
    BY <1>7, <2>2 DEF Resolve
  <2> QED
    BY <2>1, <2>2
<1>8. CASE CheckBinaries(p) \/ DryRun(p)
  BY <1>8 DEF CheckBinaries, DryRun
<1>9. CASE FuzzerGone(p) \/ WaitEnds(p)
  BY <1>9 DEF FuzzerGone, WaitEnds
<1>10. CASE ReadManifest(p)
  <2>1. rid[p] \in Ids
    BY <1>10 DEF ReadManifest, Behind
  <2>2. [manifest[rid[p]] EXCEPT !.flags = TRUE] \in Manifests
    BY <2>1, FieldsSet
  <2>3. read' \in [Scripts -> Manifests]
    BY <1>10, <2>2 DEF ReadManifest
  <2>4. at' \in [Scripts -> {"idle", "exited", "found", "running"} \cup SetUp \cup Finalizing]
    BY <1>10 DEF ReadManifest
  <2> QED
    BY <1>10, <2>3, <2>4 DEF ReadManifest
<1>11. CASE WriteManifest(p) \/ WriteFlags(p)
  <2>1. rid[p] \in Ids /\ manifest[rid[p]].made /\ read[p].made
    BY <1>11 DEF WriteManifest, WriteFlags, Dump, Behind, Manifested, Resolved
  <2> QED
    BY <1>11, <2>1, Dumped DEF WriteManifest, WriteFlags, Steps
<1>12. CASE SpawnFuzzer(p) \/ SpawnWorker(p)
  <2>1. <<p, "fuzzer">> \in Children /\ <<p, "worker">> \in Children
    BY DEF Children, Kinds
  <2>2. alive' \subseteq Children
    BY <1>12, <2>1 DEF SpawnFuzzer, SpawnWorker, Spawn
  <2>3. at' \in [Scripts -> {"idle", "exited", "found", "running"} \cup SetUp \cup Finalizing]
    BY <1>12 DEF SpawnFuzzer, SpawnWorker
  <2> QED
    BY <1>12, <2>2, <2>3 DEF SpawnFuzzer, SpawnWorker, Spawn
<1>13. CASE RecordFuzzer(p) \/ RecordWorker(p)
  <2>1. <<p, "fuzzer">> \in Children /\ <<p, "worker">> \in Children
    BY DEF Children, Kinds
  <2>2. dir[p] \in Ids
    BY <1>13 DEF RecordFuzzer, RecordWorker, Behind, Resolved
  <2>3. pidsFile' \subseteq Ids /\ pids' \in [Ids -> SUBSET Children]
    <3>1. PICK k \in Kinds : Record(p, k)
      BY <1>13 DEF RecordFuzzer, RecordWorker, Kinds
    <3>2. <<p, k>> \in Children
      BY DEF Children
    <3> QED
      BY <2>2, <3>1, <3>2 DEF Record, Recorded
  <2>4. at' \in [Scripts -> {"idle", "exited", "found", "running"} \cup SetUp \cup Finalizing]
    BY <1>13 DEF RecordFuzzer, RecordWorker
  <2> QED
    BY <1>13, <2>3, <2>4 DEF RecordFuzzer, RecordWorker, Record
<1>14. CASE Shutdown(p)
  BY <1>14, ManifestTypes DEF Shutdown, Interruptible, KillRecorded
<1> QED
  BY <1>1, <1>2, <1>3, <1>4, <1>5, <1>6, <1>7, <1>8, <1>9, <1>10, <1>11, <1>12, <1>13, <1>14
  DEF StartRun

LEMMA StopKeepsTypes ==
  ASSUME Inv, NEW q \in Stops, StopRun(q), overlaps' = overlaps
  PROVE  TypeOK'
<1> q \in Scripts
  BY DEF Scripts
<1> USE NoIdIsNone DEF Inv, TypeOK, files, children, Step, SetUp, Finalizing
<1>1. CASE Locate(q)
  <2>1. /\ at' \in [Scripts -> {"idle", "exited", "found", "running"} \cup SetUp \cup Finalizing]
        /\ UNCHANGED <<files, children, read>>
    BY <1>1 DEF Locate
  <2>2. rid' \in [Scripts -> Ids \cup {NoId}] /\ dir' \in [Scripts -> Ids \cup {NoId}]
    <3>1. ASSUME NEW i \in dirs \cup ({current} \ {NoId}),
                 rid' = [rid EXCEPT ![q] = i], dir' = [dir EXCEPT ![q] = i]
          PROVE  rid' \in [Scripts -> Ids \cup {NoId}] /\ dir' \in [Scripts -> Ids \cup {NoId}]
      <4>1. i \in Ids \cup {NoId}
        OBVIOUS
      <4> QED
        BY <3>1, <4>1
    <3>2. CASE UNCHANGED <<rid, dir>>
      BY <3>2
    <3> QED
      BY <1>1, <3>1, <3>2 DEF Locate
  <2> QED
    BY <2>1, <2>2
<1>2. CASE StopChildren(q)
  BY <1>2 DEF StopChildren, KillRecorded
<1>3. CASE RemovePids(q)
  BY <1>3 DEF RemovePids
<1> QED
  BY <1>1, <1>2, <1>3
  DEF StopRun

LEMMA FinalizeKeepsTypes ==
  ASSUME Inv, NEW p \in Scripts, Finalize(p), overlaps' = overlaps
  PROVE  TypeOK'
<1> Behind(p)
  BY DEF Inv
<1> USE NoIdIsNone DEF Inv, TypeOK, files, children, Step, SetUp, Finalizing
<1>1. CASE FinRead(p)
  <2>1. rid[p] \in Ids
    BY <1>1 DEF FinRead, Behind
  <2>2. [manifest[rid[p]] EXCEPT !.ended = TRUE] \in Manifests
    BY <2>1, FieldsSet
  <2>3. read' \in [Scripts -> Manifests]
    BY <1>1, <2>2 DEF FinRead
  <2>4. at' \in [Scripts -> {"idle", "exited", "found", "running"} \cup SetUp \cup Finalizing]
    BY <1>1 DEF FinRead
  <2> QED
    BY <1>1, <2>3, <2>4 DEF FinRead
<1>2. CASE FinOpen(p) \/ FinWrite(p)
  <2>1. rid[p] \in Ids
    BY <1>2 DEF FinOpen, FinWrite, Truncate, Dump, Behind
  <2>2. at[p] = "fin_dump" => manifest[rid[p]].made /\ read[p].made
    BY DEF Behind
  <2>3. CASE FinOpen(p)
    BY <2>1, <2>3, Truncated DEF FinOpen, Steps
  <2>4. CASE FinWrite(p)
    <3>1. manifest[rid[p]].made /\ read[p].made
      BY <2>2, <2>4 DEF FinWrite, Dump
    <3> QED
      BY <2>1, <2>4, <3>1, Dumped DEF FinWrite, Steps
  <2> QED
    BY <1>2, <2>3, <2>4
<1>3. CASE FinLook(p)
  BY <1>3 DEF FinLook, AfterFinalize
<1>4. CASE FinRm(p)
  BY <1>4 DEF FinRm, AfterFinalize
<1> QED
  BY <1>1, <1>2, <1>3, <1>4
  DEF Finalize

-----------------------------------------------------------------------------
(* The steps of start.sh keep what the scripts have behind them.           *)
LEMMA StartKeepsBehind ==
  ASSUME Inv, NEW p \in Starts, StartRun(p), overlaps' = overlaps
  PROVE  (\A r \in Scripts : Behind(r))' /\ LinksHold'
<1> p \in Scripts
  BY DEF Scripts
<1> Behind(p) /\ TypeOK /\ LinksHold
  BY DEF Inv
<1> USE NoIdIsNone DEF TypeOK, files, children, Step, SetUp, Finalizing
<1>1. CASE Pick(p)
  <2>1. Grows
    BY <1>1 DEF Grows, Pick, FirstFree
  <2>2. OnlyOf(p)
    BY <1>1 DEF OnlyOf, Pick, FirstFree
  <2>3. Behind(p)'
    BY <1>1 DEF Behind, Resolved, Manifested, Pick, FirstFree
  <2>4. {current', tmp'} \subseteq {current, tmp, NoId}
    BY <1>1 DEF Pick, FirstFree
  <2> QED
    BY <2>1, <2>2, <2>3, <2>4, OthersKeep, LinksKeep
<1>2. CASE MakeDir(p)
  <2>1. Grows
    BY <1>2 DEF Grows, MakeDir
  <2>2. OnlyOf(p)
    BY <1>2 DEF OnlyOf, MakeDir
  <2>3. Behind(p)'
    BY <1>2, ManifestTypes DEF Behind, Resolved, Manifested, MakeDir
  <2>4. {current', tmp'} \subseteq {current, tmp, NoId}
    BY <1>2 DEF MakeDir
  <2> QED
    BY <2>1, <2>2, <2>3, <2>4, OthersKeep, LinksKeep
<1>3. CASE CreateManifest(p) \/ OpenForFlags(p)
  <2>1. rid[p] \in Ids
    BY <1>3 DEF CreateManifest, OpenForFlags, Truncate, Behind
  <2>2. Grows /\ OnlyOf(p) /\ manifest'[rid[p]] = Empty /\ read' = read
    BY <1>3, <2>1, Truncated DEF CreateManifest, OpenForFlags, Steps
  <2>3. Behind(p)'
    BY <1>3, <2>2, ManifestTypes
    DEF Behind, Resolved, Manifested, CreateManifest, OpenForFlags, Truncate
  <2>4. {current', tmp'} \subseteq {current, tmp, NoId}
    BY <1>3 DEF CreateManifest, OpenForFlags, Truncate
  <2> QED
    BY <2>2, <2>3, <2>4, OthersKeep, LinksKeep
<1>4. CASE RemoveTmp(p)
  <2>1. Grows
    BY <1>4 DEF Grows, RemoveTmp
  <2>2. OnlyOf(p)
    BY <1>4 DEF OnlyOf, RemoveTmp
  <2>3. Behind(p)'
    BY <1>4 DEF Behind, Resolved, Manifested, RemoveTmp
  <2>4. {current', tmp'} \subseteq {current, tmp, NoId}
    BY <1>4 DEF RemoveTmp
  <2> QED
    BY <2>1, <2>2, <2>3, <2>4, OthersKeep, LinksKeep
<1>5. CASE LinkTmp(p)
  <2>1. Grows
    BY <1>5 DEF Grows, LinkTmp, Manifested
  <2>2. OnlyOf(p)
    BY <1>5 DEF OnlyOf, LinkTmp, Manifested
  <2>3. Behind(p)'
    BY <1>5 DEF Behind, Resolved, Manifested, LinkTmp, Manifested
  <2>4. LinksHold'
    BY <1>5, <2>1 DEF Grows, LinksHold, Behind, Manifested, LinkTmp, Manifested
  <2> QED
    BY <2>1, <2>2, <2>3, <2>4, OthersKeep, LinksKeep
<1>6. CASE Swap(p)
  <2>1. Grows
    BY <1>6 DEF Grows, Swap
  <2>2. OnlyOf(p)
    BY <1>6 DEF OnlyOf, Swap
  <2>3. Behind(p)'
    BY <1>6 DEF Behind, Resolved, Manifested, Swap
  <2>4. {current', tmp'} \subseteq {current, tmp, NoId}
    BY <1>6 DEF Swap
  <2> QED
    BY <2>1, <2>2, <2>3, <2>4, OthersKeep, LinksKeep
<1>7. CASE Resolve(p)
  <2>1. Grows
    BY <1>7 DEF Grows, Resolve, Resolves
  <2>2. OnlyOf(p)
    BY <1>7 DEF OnlyOf, Resolve, Resolves
  <2>3. Behind(p)'
    BY <1>7 DEF Behind, Resolved, Manifested, Resolve, Resolves
  <2>4. {current', tmp'} \subseteq {current, tmp, NoId}
    BY <1>7 DEF Resolve, Resolves
  <2> QED
    BY <2>1, <2>2, <2>3, <2>4, OthersKeep, LinksKeep
<1>8. CASE CheckBinaries(p) \/ DryRun(p)
  <2>1. Grows
    BY <1>8 DEF Grows, CheckBinaries, DryRun
  <2>2. OnlyOf(p)
    BY <1>8 DEF OnlyOf, CheckBinaries, DryRun
  <2>3. Behind(p)'
    BY <1>8 DEF Behind, Resolved, Manifested, CheckBinaries, DryRun
  <2>4. {current', tmp'} \subseteq {current, tmp, NoId}
    BY <1>8 DEF CheckBinaries, DryRun
  <2> QED
    BY <2>1, <2>2, <2>3, <2>4, OthersKeep, LinksKeep
<1>9. CASE FuzzerGone(p) \/ WaitEnds(p)
  <2>1. Grows
    BY <1>9 DEF Grows, FuzzerGone, WaitEnds
  <2>2. OnlyOf(p)
    BY <1>9 DEF OnlyOf, FuzzerGone, WaitEnds
  <2>3. Behind(p)'
    BY <1>9 DEF Behind, Resolved, Manifested, FuzzerGone, WaitEnds
  <2>4. {current', tmp'} \subseteq {current, tmp, NoId}
    BY <1>9 DEF FuzzerGone, WaitEnds
  <2> QED
    BY <2>1, <2>2, <2>3, <2>4, OthersKeep, LinksKeep
<1>10. CASE ReadManifest(p)
  <2>1. Grows
    BY <1>10 DEF Grows, ReadManifest
  <2>2. OnlyOf(p)
    BY <1>10 DEF OnlyOf, ReadManifest
  <2>3. Behind(p)'
    <3>1. rid[p] \in Ids /\ manifest[rid[p]].made
      BY <1>10 DEF Behind, Resolved, Manifested, ReadManifest
    <3>2. [manifest[rid[p]] EXCEPT !.flags = TRUE].made
      BY <3>1, FieldsSet
    <3> QED
      BY <1>10, <3>2 DEF Behind, Resolved, Manifested, ReadManifest
  <2>4. {current', tmp'} \subseteq {current, tmp, NoId}
    BY <1>10 DEF ReadManifest
  <2> QED
    BY <2>1, <2>2, <2>3, <2>4, OthersKeep, LinksKeep
<1>11. CASE WriteManifest(p) \/ WriteFlags(p)
  <2>1. rid[p] \in Ids /\ manifest[rid[p]].made /\ read[p].made
    BY <1>11 DEF WriteManifest, WriteFlags, Dump, Behind, Manifested, Resolved
  <2>2. Grows /\ OnlyOf(p)
    BY <1>11, <2>1, Dumped DEF WriteManifest, WriteFlags, Steps
  <2>3. Behind(p)'
    BY <1>11, <2>1, <2>2
    DEF Behind, Grows, Resolved, Manifested, WriteManifest, WriteFlags, Dump
  <2>4. {current', tmp'} \subseteq {current, tmp, NoId}
    BY <1>11 DEF WriteManifest, WriteFlags, Dump
  <2> QED
    BY <2>2, <2>3, <2>4, OthersKeep, LinksKeep
<1>12. CASE SpawnFuzzer(p) \/ SpawnWorker(p)
  <2>1. Grows
    BY <1>12 DEF Grows, SpawnFuzzer, SpawnWorker, Spawn, Children, Kinds
  <2>2. OnlyOf(p)
    BY <1>12 DEF OnlyOf, SpawnFuzzer, SpawnWorker, Spawn, Children, Kinds
  <2>3. Behind(p)'
    BY <1>12 DEF Behind, Resolved, Manifested, SpawnFuzzer, SpawnWorker, Spawn, Children, Kinds
  <2>4. {current', tmp'} \subseteq {current, tmp, NoId}
    BY <1>12 DEF SpawnFuzzer, SpawnWorker, Spawn, Children, Kinds
  <2> QED
    BY <2>1, <2>2, <2>3, <2>4, OthersKeep, LinksKeep
<1>13. CASE RecordFuzzer(p) \/ RecordWorker(p)
  <2>1. Grows
    BY <1>13 DEF Grows, RecordFuzzer, RecordWorker, Record, Recorded, Resolved, Children, Kinds
  <2>2. OnlyOf(p)
    BY <1>13 DEF OnlyOf, RecordFuzzer, RecordWorker, Record, Recorded, Resolved, Children, Kinds
  <2>3. Behind(p)'
    BY <1>13 DEF Behind, Resolved, Manifested, RecordFuzzer, RecordWorker, Record, Recorded, Resolved, Children, Kinds
  <2>4. {current', tmp'} \subseteq {current, tmp, NoId}
    BY <1>13 DEF RecordFuzzer, RecordWorker, Record, Recorded, Resolved, Children, Kinds
  <2> QED
    BY <2>1, <2>2, <2>3, <2>4, OthersKeep, LinksKeep
<1>14. CASE Shutdown(p)
  <2>1. Grows
    BY <1>14 DEF Grows, Shutdown, Interruptible, KillRecorded
  <2>2. OnlyOf(p)
    BY <1>14 DEF OnlyOf, Shutdown, Interruptible, KillRecorded
  <2>3. Behind(p)'
    BY <1>14 DEF Behind, Resolved, Manifested, Shutdown, Interruptible, KillRecorded
  <2>4. {current', tmp'} \subseteq {current, tmp, NoId}
    BY <1>14 DEF Shutdown, Interruptible, KillRecorded
  <2> QED
    BY <2>1, <2>2, <2>3, <2>4, OthersKeep, LinksKeep
<1> QED
  BY <1>1, <1>2, <1>3, <1>4, <1>5, <1>6, <1>7, <1>8, <1>9, <1>10, <1>11, <1>12, <1>13, <1>14
  DEF StartRun

(* So do the steps of stop.sh.                                             *)
LEMMA StopKeepsBehind ==
  ASSUME Inv, NEW q \in Stops, StopRun(q), overlaps' = overlaps
  PROVE  (\A r \in Scripts : Behind(r))' /\ LinksHold'
<1> q \in Scripts
  BY DEF Scripts
<1> Behind(q) /\ TypeOK
  BY DEF Inv
<1> USE NoIdIsNone DEF TypeOK, files, children, Step, SetUp, Finalizing
<1>1. CASE Locate(q)
  <2>1. Grows
    BY <1>1 DEF Grows, Locate
  <2>2. OnlyOf(q)
    BY <1>1 DEF OnlyOf, Locate
  <2>3. Behind(q)'
    BY <1>1 DEF Behind, Resolved, Manifested, Locate
  <2>4. {current', tmp'} \subseteq {current, tmp, NoId}
    BY <1>1 DEF Locate
  <2> QED
    BY <2>1, <2>2, <2>3, <2>4, OthersKeep, LinksKeep
<1>2. CASE StopChildren(q)
  <2>1. Grows
    BY <1>2 DEF Grows, StopChildren, KillRecorded
  <2>2. OnlyOf(q)
    BY <1>2 DEF OnlyOf, StopChildren, KillRecorded
  <2>3. Behind(q)'
    BY <1>2 DEF Behind, Resolved, Manifested, StopChildren, KillRecorded
  <2>4. {current', tmp'} \subseteq {current, tmp, NoId}
    BY <1>2 DEF StopChildren, KillRecorded
  <2> QED
    BY <2>1, <2>2, <2>3, <2>4, OthersKeep, LinksKeep
<1>3. CASE RemovePids(q)
  <2>1. Grows
    BY <1>3 DEF Grows, RemovePids
  <2>2. OnlyOf(q)
    BY <1>3 DEF OnlyOf, RemovePids
  <2>3. Behind(q)'
    BY <1>3 DEF Behind, Resolved, Manifested, RemovePids
  <2>4. {current', tmp'} \subseteq {current, tmp, NoId}
    BY <1>3 DEF RemovePids
  <2> QED
    BY <2>1, <2>2, <2>3, <2>4, OthersKeep, LinksKeep
<1> QED
  BY <1>1, <1>2, <1>3
  DEF StopRun

(* And those of finalizing, by either script.                              *)
LEMMA FinalizeKeepsBehind ==
  ASSUME Inv, NEW p \in Scripts, Finalize(p), overlaps' = overlaps
  PROVE  (\A r \in Scripts : Behind(r))' /\ LinksHold'
<1> Behind(p) /\ TypeOK
  BY DEF Inv
<1> USE NoIdIsNone DEF TypeOK, files, children, Step, SetUp, Finalizing
<1>1. CASE FinRead(p)
  <2>1. Grows
    BY <1>1 DEF Grows, FinRead
  <2>2. OnlyOf(p)
    BY <1>1 DEF OnlyOf, FinRead
  <2>3. Behind(p)'
    <3>1. rid[p] \in Ids
      BY <1>1 DEF Behind, FinRead
    <3>2. Readable(rid[p]) => [manifest[rid[p]] EXCEPT !.ended = TRUE].made
      BY <3>1, FieldsSet DEF Readable
    <3> QED
      BY <1>1, <3>1, <3>2 DEF Behind, Resolved, Manifested, FinRead
  <2>4. {current', tmp'} \subseteq {current, tmp, NoId}
    BY <1>1 DEF FinRead
  <2> QED
    BY <2>1, <2>2, <2>3, <2>4, OthersKeep, LinksKeep
<1>2. CASE FinOpen(p)
  <2>1. rid[p] \in Ids
    BY <1>2 DEF FinOpen, Truncate, Behind
  <2>2. Grows /\ OnlyOf(p) /\ manifest'[rid[p]] = Empty /\ read' = read
    BY <1>2, <2>1, Truncated DEF FinOpen, Steps
  <2>3. Behind(p)'
    BY <1>2, <2>2, ManifestTypes
    DEF Behind, Resolved, Manifested, FinOpen, Truncate
  <2>4. {current', tmp'} \subseteq {current, tmp, NoId}
    BY <1>2 DEF FinOpen, Truncate
  <2> QED
    BY <2>2, <2>3, <2>4, OthersKeep, LinksKeep
<1>3. CASE FinWrite(p)
  <2>1. rid[p] \in Ids /\ manifest[rid[p]].made /\ read[p].made
    BY <1>3 DEF FinWrite, Dump, Behind, Manifested, Resolved
  <2>2. Grows /\ OnlyOf(p)
    BY <1>3, <2>1, Dumped DEF FinWrite, Steps
  <2>3. Behind(p)'
    BY <1>3, <2>1, <2>2
    DEF Behind, Grows, Resolved, Manifested, FinWrite, Dump
  <2>4. {current', tmp'} \subseteq {current, tmp, NoId}
    BY <1>3 DEF FinWrite, Dump
  <2> QED
    BY <2>2, <2>3, <2>4, OthersKeep, LinksKeep
<1>4. CASE FinLook(p)
  <2>1. Grows
    BY <1>4 DEF Grows, FinLook, AfterFinalize
  <2>2. OnlyOf(p)
    BY <1>4 DEF OnlyOf, FinLook, AfterFinalize
  <2>3. Behind(p)'
    BY <1>4 DEF Behind, Resolved, Manifested, FinLook, AfterFinalize
  <2>4. {current', tmp'} \subseteq {current, tmp, NoId}
    BY <1>4 DEF FinLook, AfterFinalize
  <2> QED
    BY <2>1, <2>2, <2>3, <2>4, OthersKeep, LinksKeep
<1>5. CASE FinRm(p)
  <2>1. Grows
    BY <1>5 DEF Grows, FinRm, AfterFinalize
  <2>2. OnlyOf(p)
    BY <1>5 DEF OnlyOf, FinRm, AfterFinalize
  <2>3. Behind(p)'
    BY <1>5 DEF Behind, Resolved, Manifested, FinRm, AfterFinalize
  <2>4. {current', tmp'} \subseteq {current, tmp, NoId}
    BY <1>5 DEF FinRm, AfterFinalize
  <2> QED
    BY <2>1, <2>2, <2>3, <2>4, OthersKeep, LinksKeep
<1> QED
  BY <1>1, <1>2, <1>3, <1>4, <1>5
  DEF Finalize

(* The invariant holds in every reachable state.                           *)
LEMMA InvHolds == Spec => []Inv
<1>1. ASSUME Inv, Next PROVE Inv'
  <2>1. ASSUME NEW p \in Starts, StartRun(p), overlaps' = overlaps PROVE Inv'
    BY <1>1, <2>1, StartKeepsTypes, StartKeepsBehind DEF Inv
  <2>2. ASSUME NEW q \in Stops, StopRun(q), overlaps' = overlaps PROVE Inv'
    BY <1>1, <2>2, StopKeepsTypes, StopKeepsBehind DEF Inv
  <2>3. ASSUME NEW p \in Scripts, Finalize(p), overlaps' = overlaps PROVE Inv'
    BY <1>1, <2>3, FinalizeKeepsTypes, FinalizeKeepsBehind DEF Inv
  <2>4. ASSUME NEW c \in Children, Die(c), overlaps' = overlaps PROVE Inv'
    BY <1>1, <2>4 DEF Die, files, Inv, TypeOK, Behind, LinksHold
  <2>5. ASSUME NEW p \in Starts, Fork(p) \/ HelpersEnd(p), overlaps' = overlaps PROVE Inv'
    BY <1>1, <2>5 DEF Fork, HelpersEnd, files, scripts, Inv, TypeOK, Behind, LinksHold
  <2> QED
    BY <1>1, <2>1, <2>2, <2>3, <2>4, <2>5 DEF Next
<1>2. ASSUME Inv, UNCHANGED vars PROVE Inv'
  BY <1>2 DEF vars, files, children, scripts, Inv, TypeOK, Behind, LinksHold
<1> QED
  BY InitEstablishes, <1>1, <1>2, PTL DEF Spec

-----------------------------------------------------------------------------
(* Types of the files, the processes and the scripts.                      *)
THEOREM TypeCorrect == Spec => []TypeOK
  BY InvHolds, PTL DEF Inv

-----------------------------------------------------------------------------
(* Steps at which a start has no child: before it launches one, and when   *)
(* its children were killed or are gone.                                   *)
Childless == {"idle", "found", "exited"} \cup Finalizing
                \cup (SetUp \ {"fuzzer_up", "sleeping", "worker_up"})
(* The children of a start that run, and whether the pids file of its run  *)
(* tells of them. A run is over when nobody sets it up or has children in  *)
(* it.                                                                     *)
NoChild(p) == \A k \in Kinds : <<p, k>> \notin alive
OnFile(p, k) == <<p, k>> \in alive => <<p, k>> \in pids[rid[p]]
Over(i) == \A p \in Starts : rid[p] = i => at[p] \notin SetUp /\ NoChild(p)

(* Without overlaps one run is set up at a time, and every start has a     *)
(* RUN_ID of its own; stop.sh looks for a run when none is set up, and     *)
(* none is set up until it is through.                                     *)
Apart ==
    \A p, r \in Starts : p # r =>
        /\ ~(at[p] \in SetUp /\ at[r] \in SetUp)
        /\ rid[p] # NoId => rid[p] # rid[r]
StopsWait ==
    \A p \in Starts, q \in Stops :
        at[p] \in SetUp => at[q] \notin Finalizing \cup {"found"}
(* No directory, no manifest; and a run that has ended is over.            *)
Unmade == \A i \in Ids \ dirs : manifest[i] = NoManifest
Ended == \A i \in Ids : manifest[i].ended => Over(i)

(* What start.sh finds as it has left it: its id is free until it makes    *)
(* the directory, .current.tmp and runs/current are its own, and its       *)
(* manifest has no end until it is finalized.                              *)
SettingUp(p) ==
    /\ at[p] = "idle" => rid[p] = NoId
    /\ rid[p] # NoId /\ at[p] # "picked" => rid[p] \in dirs
    /\ at[p] = "picked" => rid[p] \notin dirs
    /\ at[p] = "made" => manifest[rid[p]] = NoManifest
    /\ at[p] \in {"manifesting", "dumping"} => manifest[rid[p]] = Empty
    /\ at[p] \in {"made", "manifesting"} => read[p] = FreshManifest
    /\ at[p] = "linking" => tmp = NoId
    /\ at[p] = "swapping" => tmp = rid[p]
    /\ at[p] = "resolving" => current \in {rid[p], NoId}
    /\ at[p] \in Resolved => dir[p] = rid[p]
    /\ at[p] \in SetUp => ~manifest[rid[p]].ended
    /\ at[p] \in {"flagging", "dumping"} => read[p].whole /\ read[p].flags /\ ~read[p].ended
(* Its children are on file, as soon as a stop or a trap can meet them.    *)
HasChildren(p) ==
    /\ at[p] \in Childless => NoChild(p)
    /\ at[p] \in {"fuzzer_up", "sleeping"} => <<p, "worker">> \notin alive
    /\ at[p] \in {"sleeping", "worker_up"} => OnFile(p, "fuzzer")
    /\ at[p] = "running" => \A k \in Kinds : OnFile(p, k)
(* Whoever finalizes a run has seen to it that the run is over.            *)
Ending(s) ==
    /\ at[s] \in Finalizing \cup {"found"} => rid[s] \in dirs
    /\ at[s] \in Finalizing => Over(rid[s])

(* What holds while commands do not overlap a run being set up.            *)
Orderly ==
    /\ Apart /\ StopsWait /\ Unmade /\ Ended
    /\ \A p \in Starts : SettingUp(p) /\ HasChildren(p)
    /\ \A s \in Scripts : Ending(s)

-----------------------------------------------------------------------------
(* Nothing runs in the beginning.                                          *)
LEMMA OrderlyAtFirst == Init => Orderly
<1> SUFFICES ASSUME Init PROVE Orderly
  OBVIOUS
<1> USE NoIdIsNone DEF Init
<1>1. Apart /\ StopsWait
  BY DEF Apart, StopsWait, SetUp, Finalizing, Scripts
<1>2. Unmade /\ Ended
  BY DEF Unmade, Ended, NoManifest
<1>3. ASSUME NEW p \in Starts PROVE SettingUp(p) /\ HasChildren(p)
  BY DEF SettingUp, HasChildren, NoChild, Scripts, SetUp, Resolved
<1>4. ASSUME NEW s \in Scripts PROVE Ending(s)
  BY DEF Ending, Finalizing
<1> QED
  BY <1>1, <1>2, <1>3, <1>4 DEF Orderly

(* What is over stays over: only a script that sets a run up spawns        *)
(* children.                                                               *)
LEMMA OverStays ==
  ASSUME NEW p \in Scripts, OnlyOf(p), NEW i, Over(i),
         p \in Starts => (rid'[p] = i => rid[p] = i /\ (at[p] \in SetUp \/ at'[p] \notin SetUp)),
         \A c \in alive' \ alive : c[1] = p /\ at[p] \in SetUp
  PROVE  Over(i)'
<1> SUFFICES ASSUME NEW r \in Starts, rid'[r] = i
             PROVE  at'[r] \notin SetUp /\ NoChild(r)'
  BY DEF Over
<1>1. rid[r] = i /\ at'[r] \notin SetUp /\ (r = p => at[p] \notin SetUp)
  BY DEF OnlyOf, Over, Scripts
<1>2. NoChild(r)
  BY <1>1 DEF Over
<1> QED
  BY <1>1, <1>2 DEF NoChild

(* A step of p that keeps to its own run.                                  *)
OwnRun(p) ==
    /\ OnlyOf(p)
    /\ dirs \subseteq dirs' /\ dirs' \subseteq dirs \cup {rid[p]}
    /\ \A i \in Ids \ {rid[p]} : manifest'[i] = manifest[i] /\ pids'[i] = pids[i]
    /\ \A c \in alive' \ alive : c[1] = p /\ at[p] \in SetUp
    /\ current' \in {current, NoId} \/ at[p] \in SetUp
    /\ tmp' = tmp \/ at[p] \in SetUp

(* Such a step leaves the other starts what they have.                     *)
LEMMA OtherStarts ==
  ASSUME Inv, Orderly, NEW p \in Starts, NEW r \in Starts, r # p, OwnRun(p),
         rid[p] # NoId
  PROVE  SettingUp(r)' /\ HasChildren(r)'
<1> p \in Scripts /\ r \in Scripts
  BY DEF Scripts
<1>1. rid[r] # rid[p] /\ ~(at[p] \in SetUp /\ at[r] \in SetUp)
  BY DEF Orderly, Apart
<1>2. at'[r] = at[r] /\ rid'[r] = rid[r] /\ dir'[r] = dir[r] /\ read'[r] = read[r]
  BY DEF OwnRun, OnlyOf
<1>3. SettingUp(r) /\ HasChildren(r) /\ Behind(r)
  BY DEF Orderly, Inv
<1>4. rid[r] \in Ids => manifest'[rid[r]] = manifest[rid[r]] /\ pids'[rid[r]] = pids[rid[r]]
  BY <1>1 DEF OwnRun
<1>5. at[r] # "idle" /\ at[r] # "exited" => rid[r] \in Ids
  BY <1>3 DEF Behind
<1>6. SettingUp(r)'
  BY <1>1, <1>2, <1>3, <1>4, <1>5, NoIdIsNone DEF SettingUp, OwnRun, SetUp
<1>7. \A k \in Kinds : <<r, k>> \in alive' => <<r, k>> \in alive
  BY DEF OwnRun
<1>8. HasChildren(r)'
  <2>1. at[r] \in Childless => NoChild(r)'
    BY <1>3, <1>7 DEF HasChildren, NoChild
  <2>2. at[r] \in {"fuzzer_up", "sleeping"} => <<r, "worker">> \notin alive'
    BY <1>3, <1>7 DEF HasChildren, Kinds
  <2>3. at[r] \in {"sleeping", "worker_up"} => OnFile(r, "fuzzer")'
    BY <1>2, <1>3, <1>4, <1>5, <1>7 DEF HasChildren, OnFile, Kinds
  <2>4. at[r] = "running" => \A k \in Kinds : OnFile(r, k)'
    BY <1>2, <1>3, <1>4, <1>5, <1>7 DEF HasChildren, OnFile
  <2> QED
    BY <1>2, <2>1, <2>2, <2>3, <2>4 DEF HasChildren
<1> QED
  BY <1>6, <1>8

(* So the invariant is kept if p itself has what it needs after the step.  *)
LEMMA StartOrders ==
  ASSUME Inv, Orderly, NEW p \in Starts, OwnRun(p),
         rid[p] \in Ids, rid'[p] = rid[p],
         at'[p] \in SetUp => at[p] \in SetUp,
         manifest' # manifest => at[p] \in SetUp /\ rid[p] \in dirs',
         manifest'[rid[p]].ended => manifest[rid[p]].ended,
         SettingUp(p)', HasChildren(p)', Ending(p)'
  PROVE  Orderly'
<1> p \in Scripts
  BY DEF Scripts
<1>1. OnlyOf(p)
  BY DEF OwnRun
<1>2. Apart'
  BY <1>1 DEF Orderly, Apart, OnlyOf, Scripts
<1>3. StopsWait'
  BY <1>1, LifecycleAssumption DEF Orderly, StopsWait, OnlyOf, Scripts, LifecycleAssumption
<1>4. Unmade'
  BY DEF Orderly, Unmade, OwnRun
<1>5. ASSUME NEW i \in Ids, Over(i) PROVE Over(i)'
  BY <1>1, <1>5, OverStays DEF OwnRun
<1>6. Ended'
  BY <1>5 DEF Orderly, Ended, OwnRun
<1>7. ASSUME NEW s \in Scripts, s # p PROVE Ending(s)'
  <2>1. Ending(s) /\ at'[s] = at[s] /\ rid'[s] = rid[s] /\ read'[s] = read[s]
    BY <1>1, <1>7 DEF Orderly, OnlyOf
  <2>2. rid[s] \in dirs => rid[s] \in dirs' /\ rid[s] \in Ids
    BY DEF OwnRun, Inv, TypeOK
  <2>3. at[s] \in Finalizing => Over(rid[s]) /\ Over(rid[s])'
    BY <1>5, <2>1, <2>2 DEF Ending
  <2> QED
    BY <2>1, <2>2, <2>3 DEF Ending, Finalizing
<1>8. ASSUME NEW r \in Starts PROVE SettingUp(r)' /\ HasChildren(r)'
  BY OtherStarts, NoIdIsNone
<1> QED
  BY <1>2, <1>3, <1>4, <1>6, <1>7, <1>8 DEF Orderly

(* The steps of start.sh keep the order; Pick is the one that waits for    *)
(* the others.                                                             *)
LEMMA StartKeepsOrder ==
  ASSUME Inv, Orderly, NEW p \in Starts, StartRun(p), ~overlaps, overlaps' = overlaps
  PROVE  Orderly'
<1> p \in Scripts
  BY DEF Scripts
<1> TypeOK /\ Behind(p) /\ SettingUp(p) /\ HasChildren(p) /\ Ending(p)
  BY DEF Inv, Orderly
<1> USE NoIdIsNone DEF TypeOK, files, children, Step
<1>1. CASE Pick(p)
  <2> USE <1>1 DEF Pick, SetUp, Finalizing
  <2>1. at[p] = "idle" /\ at'[p] = "picked" /\ rid'[p] \in Ids \ dirs
    BY DEF FirstFree
  <2>2. OnlyOf(p) /\ NoSetUp /\ NoFinalizing
    BY DEF OnlyOf, MayStart
  <2>3. \A r \in Scripts : rid[r] \in dirs \/ at[r] \notin Finalizing \cup {"found"}
    BY DEF Orderly, Ending
  <2>4. \A r \in Starts : r # p => rid'[r] # rid'[p]
    BY <2>1, <2>2 DEF Orderly, SettingUp, NoSetUp, OnlyOf, Scripts
  <2>5. Apart'
    BY <2>1, <2>2, <2>4 DEF Orderly, Apart, NoSetUp, OnlyOf, Scripts
  <2>6. StopsWait'
    BY <2>1, <2>2, LifecycleAssumption
    DEF StopsWait, Orderly, OnlyOf, Scripts, NoFinalizing, LifecycleAssumption
  <2>7. Unmade'
    BY DEF Orderly, Unmade
  <2>8. ASSUME NEW i \in dirs, Over(i) PROVE Over(i)'
    BY <2>1, <2>2, <2>8, OverStays
  <2>9. Ended'
    BY <2>1, <2>8 DEF Orderly, Ended, Unmade, NoManifest
  <2>10. SettingUp(p)' /\ HasChildren(p)'
    BY <2>1 DEF SettingUp, HasChildren, Childless, NoChild, Resolved, Orderly, Unmade, NoManifest
  <2>11. ASSUME NEW r \in Starts, r # p PROVE SettingUp(r)' /\ HasChildren(r)'
    <3>1. /\ SettingUp(r) /\ HasChildren(r)
          /\ at'[r] = at[r] /\ rid'[r] = rid[r] /\ dir'[r] = dir[r] /\ read'[r] = read[r]
      BY <2>2, <2>11 DEF Orderly, OnlyOf, Scripts
    <3>2. SettingUp(r)'
      BY <3>1 DEF SettingUp
    <3>3. HasChildren(r)'
      BY <3>1 DEF HasChildren, NoChild, OnFile
    <3> QED
      BY <3>2, <3>3
  <2>12. ASSUME NEW r \in Scripts PROVE Ending(r)'
    BY <2>1, <2>2, <2>12 DEF Ending, OnlyOf, NoFinalizing
  <2> QED
    BY <2>5, <2>6, <2>7, <2>9, <2>10, <2>11, <2>12 DEF Orderly
<1>2. CASE MakeDir(p)
  <2> USE <1>2 DEF MakeDir, SetUp, Finalizing
  <2>1. rid[p] \in Ids
    BY DEF Behind
  <2>2. OwnRun(p)
    BY DEF OwnRun, OnlyOf, SettingUp, Resolved
  <2>3. SettingUp(p)'
    BY <2>1 DEF SettingUp, Resolved, Orderly, Unmade, Manifested, Behind, Childless
  <2>4. HasChildren(p)'
    BY DEF HasChildren, Childless, NoChild, OnFile, Kinds, SettingUp, Resolved
  <2>5. Ending(p)'
    BY DEF Ending, SettingUp
  <2>6. manifest'[rid[p]].ended => manifest[rid[p]].ended
    BY <2>1 DEF SettingUp
  <2> QED
    BY <2>1, <2>2, <2>3, <2>4, <2>5, <2>6, StartOrders
<1>3. CASE CreateManifest(p)
  <2>0. rid[p] \in Ids /\ rid[p] \in dirs /\ manifest[rid[p]].ended = FALSE
    BY <1>3, ManifestTypes DEF CreateManifest, Truncate, Behind, SettingUp, SetUp, TypeOK, Manifests
  <2>1. manifest'[rid[p]] = Empty /\ read' = read
    BY <1>3, <2>0, Truncated DEF CreateManifest, Steps, SetUp, Inv
  <2>2. /\ OnlyOf(p) /\ rid' = rid /\ dir' = dir /\ alive' = alive /\ pids' = pids
        /\ dirs' = dirs /\ current' = current /\ tmp' = tmp
        /\ \A i \in Ids \ {rid[p]} : manifest'[i] = manifest[i]
    BY <1>3, <2>0, <2>1, Truncated DEF CreateManifest, Truncate, SetUp, Steps, Inv
  <2>3. OwnRun(p)
    BY <1>3, <2>2 DEF OwnRun, CreateManifest, Truncate, SetUp
  <2>4. SettingUp(p)'
    BY <1>3, <2>0, <2>1, <2>2, ManifestTypes DEF SettingUp, Resolved, CreateManifest, Truncate, SetUp
  <2>5. HasChildren(p)'
    BY <1>3, <2>2 DEF HasChildren, Childless, NoChild, CreateManifest, Truncate, SetUp, Finalizing
  <2>6. Ending(p)'
    BY <1>3 DEF Ending, CreateManifest, Truncate, Finalizing
  <2>7. manifest'[rid[p]].ended => manifest[rid[p]].ended
    BY <2>1, ManifestTypes
  <2>8. at[p] \in SetUp
    BY <1>3 DEF CreateManifest, Truncate, SetUp
  <2> QED
    BY <2>0, <2>2, <2>3, <2>4, <2>5, <2>6, <2>7, <2>8, StartOrders
<1>4. CASE RemoveTmp(p)
  <2> USE <1>4 DEF RemoveTmp, SetUp, Finalizing
  <2>1. rid[p] \in Ids
    BY DEF Behind
  <2>2. OwnRun(p)
    BY DEF OwnRun, OnlyOf, SettingUp, Resolved
  <2>3. SettingUp(p)'
    BY <2>1 DEF SettingUp, Resolved, Orderly, Unmade, Manifested, Behind, Childless
  <2>4. HasChildren(p)'
    BY DEF HasChildren, Childless, NoChild, OnFile, Kinds, SettingUp, Resolved
  <2>5. Ending(p)'
    BY DEF Ending, SettingUp
  <2>6. manifest'[rid[p]].ended => manifest[rid[p]].ended
    BY <2>1 DEF SettingUp
  <2> QED
    BY <2>1, <2>2, <2>3, <2>4, <2>5, <2>6, StartOrders
<1>5. CASE LinkTmp(p)
  <2> USE <1>5 DEF LinkTmp, SetUp, Finalizing
  <2>1. rid[p] \in Ids
    BY DEF Behind
  <2>2. OwnRun(p)
    BY DEF OwnRun, OnlyOf, SettingUp, Resolved
  <2>3. SettingUp(p)'
    BY <2>1 DEF SettingUp, Resolved, Orderly, Unmade, Manifested, Behind, Childless
  <2>4. HasChildren(p)'
    BY DEF HasChildren, Childless, NoChild, OnFile, Kinds, SettingUp, Resolved
  <2>5. Ending(p)'
    BY DEF Ending, SettingUp
  <2>6. manifest'[rid[p]].ended => manifest[rid[p]].ended
    BY <2>1 DEF SettingUp
  <2> QED
    BY <2>1, <2>2, <2>3, <2>4, <2>5, <2>6, StartOrders
<1>6. CASE Swap(p)
  <2> USE <1>6 DEF Swap, SetUp, Finalizing
  <2>1. rid[p] \in Ids
    BY DEF Behind
  <2>2. OwnRun(p)
    BY DEF OwnRun, OnlyOf, SettingUp, Resolved
  <2>3. SettingUp(p)'
    BY <2>1 DEF SettingUp, Resolved, Orderly, Unmade, Manifested, Behind, Childless
  <2>4. HasChildren(p)'
    BY DEF HasChildren, Childless, NoChild, OnFile, Kinds, SettingUp, Resolved
  <2>5. Ending(p)'
    BY DEF Ending, SettingUp
  <2>6. manifest'[rid[p]].ended => manifest[rid[p]].ended
    BY <2>1 DEF SettingUp
  <2> QED
    BY <2>1, <2>2, <2>3, <2>4, <2>5, <2>6, StartOrders
<1>7. CASE Resolve(p)
  <2> USE <1>7 DEF Resolve, Resolves, SetUp, Finalizing
  <2>1. rid[p] \in Ids
    BY DEF Behind
  <2>2. OwnRun(p)
    BY DEF OwnRun, OnlyOf, SettingUp, Resolved
  <2>3. SettingUp(p)'
    BY <2>1 DEF SettingUp, Resolved, Orderly, Unmade, Manifested, Behind, Childless
  <2>4. HasChildren(p)'
    BY DEF HasChildren, Childless, NoChild, OnFile, Kinds, SettingUp, Resolved
  <2>5. Ending(p)'
    BY DEF Ending, SettingUp
  <2>6. manifest'[rid[p]].ended => manifest[rid[p]].ended
    BY <2>1 DEF SettingUp
  <2> QED
    BY <2>1, <2>2, <2>3, <2>4, <2>5, <2>6, StartOrders
<1>8. CASE CheckBinaries(p)
  <2> USE <1>8 DEF CheckBinaries, SetUp, Finalizing
  <2>1. rid[p] \in Ids
    BY DEF Behind
  <2>2. OwnRun(p)
    BY DEF OwnRun, OnlyOf, SettingUp, Resolved
  <2>3. SettingUp(p)'
    BY <2>1 DEF SettingUp, Resolved, Orderly, Unmade, Manifested, Behind, Childless
  <2>4. HasChildren(p)'
    BY DEF HasChildren, Childless, NoChild, OnFile, Kinds, SettingUp, Resolved
  <2>5. Ending(p)'
    BY DEF Ending, SettingUp
  <2>6. manifest'[rid[p]].ended => manifest[rid[p]].ended
    BY <2>1 DEF SettingUp
  <2> QED
    BY <2>1, <2>2, <2>3, <2>4, <2>5, <2>6, StartOrders
<1>9. CASE DryRun(p)
  <2> USE <1>9 DEF DryRun, SetUp, Finalizing
  <2>1. rid[p] \in Ids
    BY DEF Behind
  <2>2. OwnRun(p)
    BY DEF OwnRun, OnlyOf, SettingUp, Resolved
  <2>3. SettingUp(p)'
    BY <2>1 DEF SettingUp, Resolved, Orderly, Unmade, Manifested, Behind, Childless
  <2>4. HasChildren(p)'
    BY DEF HasChildren, Childless, NoChild, OnFile, Kinds, SettingUp, Resolved
  <2>5. Ending(p)'
    <3>1. Over(rid[p])'
      BY <2>1, <2>4 DEF Orderly, Apart, Over, HasChildren, Childless
    <3> QED
      BY <2>1, <3>1 DEF Ending, SettingUp
  <2>6. manifest'[rid[p]].ended => manifest[rid[p]].ended
    BY <2>1 DEF SettingUp
  <2> QED
    BY <2>1, <2>2, <2>3, <2>4, <2>5, <2>6, StartOrders
<1>10. CASE ReadManifest(p)
  <2> USE <1>10 DEF ReadManifest, SetUp, Finalizing
  <2>1. rid[p] \in Ids
    BY DEF Behind
  <2>2. OwnRun(p)
    BY DEF OwnRun, OnlyOf, SettingUp, Resolved
  <2>3. SettingUp(p)'
    <3>1. /\ Readable(rid[p]) => [manifest[rid[p]] EXCEPT !.flags = TRUE].whole
          /\ [manifest[rid[p]] EXCEPT !.flags = TRUE].flags
          /\ [manifest[rid[p]] EXCEPT !.flags = TRUE].ended = manifest[rid[p]].ended
      BY <2>1 DEF Readable, Manifests
    <3> QED
      BY <2>1, <3>1 DEF SettingUp, Resolved
  <2>4. HasChildren(p)'
    BY DEF HasChildren, Childless, NoChild, OnFile, Kinds, SettingUp, Resolved
  <2>5. Ending(p)'
    BY DEF Ending, SettingUp
  <2>6. manifest'[rid[p]].ended => manifest[rid[p]].ended
    BY <2>1 DEF SettingUp
  <2> QED
    BY <2>1, <2>2, <2>3, <2>4, <2>5, <2>6, StartOrders
<1>11. CASE OpenForFlags(p)
  <2>0. rid[p] \in Ids /\ rid[p] \in dirs /\ manifest[rid[p]].ended = FALSE
    BY <1>11, ManifestTypes DEF OpenForFlags, Truncate, Behind, SettingUp, SetUp, TypeOK, Manifests
  <2>1. manifest'[rid[p]] = Empty /\ read' = read
    BY <1>11, <2>0, Truncated DEF OpenForFlags, Steps, SetUp, Inv
  <2>2. /\ OnlyOf(p) /\ rid' = rid /\ dir' = dir /\ alive' = alive /\ pids' = pids
        /\ dirs' = dirs /\ current' = current /\ tmp' = tmp
        /\ \A i \in Ids \ {rid[p]} : manifest'[i] = manifest[i]
    BY <1>11, <2>0, <2>1, Truncated DEF OpenForFlags, Truncate, SetUp, Steps, Inv
  <2>3. OwnRun(p)
    BY <1>11, <2>2 DEF OwnRun, OpenForFlags, Truncate, SetUp
  <2>4. SettingUp(p)'
    BY <1>11, <2>0, <2>1, <2>2, ManifestTypes DEF SettingUp, Resolved, OpenForFlags, Truncate, SetUp
  <2>5. HasChildren(p)'
    BY <1>11, <2>2 DEF HasChildren, Childless, NoChild, OpenForFlags, Truncate, SetUp, Finalizing
  <2>6. Ending(p)'
    BY <1>11 DEF Ending, OpenForFlags, Truncate, Finalizing
  <2>7. manifest'[rid[p]].ended => manifest[rid[p]].ended
    BY <2>1, ManifestTypes
  <2>8. at[p] \in SetUp
    BY <1>11 DEF OpenForFlags, Truncate, SetUp
  <2> QED
    BY <2>0, <2>2, <2>3, <2>4, <2>5, <2>6, <2>7, <2>8, StartOrders
<1>12. CASE SpawnFuzzer(p)
  <2> USE <1>12 DEF SpawnFuzzer, Spawn, SetUp, Finalizing
  <2>1. rid[p] \in Ids
    BY DEF Behind
  <2>2. OwnRun(p)
    BY DEF OwnRun, OnlyOf, SettingUp, Resolved
  <2>3. SettingUp(p)'
    BY <2>1 DEF SettingUp, Resolved, Orderly, Unmade, Manifested, Behind, Childless
  <2>4. HasChildren(p)'
    BY DEF HasChildren, Childless, NoChild, OnFile, Kinds, SettingUp, Resolved
  <2>5. Ending(p)'
    BY DEF Ending, SettingUp
  <2>6. manifest'[rid[p]].ended => manifest[rid[p]].ended
    BY <2>1 DEF SettingUp
  <2> QED
    BY <2>1, <2>2, <2>3, <2>4, <2>5, <2>6, StartOrders
<1>13. CASE RecordFuzzer(p)
  <2> USE <1>13 DEF RecordFuzzer, Record, Recorded, SetUp, Finalizing
  <2>1. rid[p] \in Ids
    BY DEF Behind
  <2>2. OwnRun(p)
    BY DEF OwnRun, OnlyOf, SettingUp, Resolved
  <2>3. SettingUp(p)'
    BY <2>1 DEF SettingUp, Resolved, Orderly, Unmade, Manifested, Behind, Childless
  <2>4. HasChildren(p)'
    <3>1. pids' = [pids EXCEPT ![rid[p]] = @ \cup {<<p, "fuzzer">>}]
      BY DEF SettingUp, Resolved
    <3>2. OnFile(p, "fuzzer")' /\ \A j \in Kinds : OnFile(p, j) => OnFile(p, j)'
      BY <2>1, <3>1 DEF OnFile
    <3> QED
      BY <3>2 DEF HasChildren, Childless, Kinds
  <2>5. Ending(p)'
    BY DEF Ending, SettingUp
  <2>6. manifest'[rid[p]].ended => manifest[rid[p]].ended
    BY <2>1 DEF SettingUp
  <2> QED
    BY <2>1, <2>2, <2>3, <2>4, <2>5, <2>6, StartOrders
<1>14. CASE FuzzerGone(p)
  <2> USE <1>14 DEF FuzzerGone, SetUp, Finalizing
  <2>1. rid[p] \in Ids
    BY DEF Behind
  <2>2. OwnRun(p)
    BY DEF OwnRun, OnlyOf, SettingUp, Resolved
  <2>3. SettingUp(p)'
    BY <2>1 DEF SettingUp, Resolved, Orderly, Unmade, Manifested, Behind, Childless
  <2>4. HasChildren(p)'
    BY DEF HasChildren, Childless, NoChild, OnFile, Kinds, SettingUp, Resolved
  <2>5. Ending(p)'
    BY DEF Ending, SettingUp
  <2>6. manifest'[rid[p]].ended => manifest[rid[p]].ended
    BY <2>1 DEF SettingUp
  <2> QED
    BY <2>1, <2>2, <2>3, <2>4, <2>5, <2>6, StartOrders
<1>15. CASE SpawnWorker(p)
  <2> USE <1>15 DEF SpawnWorker, Spawn, SetUp, Finalizing
  <2>1. rid[p] \in Ids
    BY DEF Behind
  <2>2. OwnRun(p)
    BY DEF OwnRun, OnlyOf, SettingUp, Resolved
  <2>3. SettingUp(p)'
    BY <2>1 DEF SettingUp, Resolved, Orderly, Unmade, Manifested, Behind, Childless
  <2>4. HasChildren(p)'
    BY DEF HasChildren, Childless, NoChild, OnFile, Kinds, SettingUp, Resolved
  <2>5. Ending(p)'
    BY DEF Ending, SettingUp
  <2>6. manifest'[rid[p]].ended => manifest[rid[p]].ended
    BY <2>1 DEF SettingUp
  <2> QED
    BY <2>1, <2>2, <2>3, <2>4, <2>5, <2>6, StartOrders
<1>16. CASE RecordWorker(p)
  <2> USE <1>16 DEF RecordWorker, Record, Recorded, SetUp, Finalizing
  <2>1. rid[p] \in Ids
    BY DEF Behind
  <2>2. OwnRun(p)
    BY DEF OwnRun, OnlyOf, SettingUp, Resolved
  <2>3. SettingUp(p)'
    BY <2>1 DEF SettingUp, Resolved, Orderly, Unmade, Manifested, Behind, Childless
  <2>4. HasChildren(p)'
    <3>1. pids' = [pids EXCEPT ![rid[p]] = @ \cup {<<p, "worker">>}]
      BY DEF SettingUp, Resolved
    <3>2. OnFile(p, "worker")' /\ \A j \in Kinds : OnFile(p, j) => OnFile(p, j)'
      BY <2>1, <3>1 DEF OnFile
    <3> QED
      BY <3>2 DEF HasChildren, Childless, Kinds
  <2>5. Ending(p)'
    BY DEF Ending, SettingUp
  <2>6. manifest'[rid[p]].ended => manifest[rid[p]].ended
    BY <2>1 DEF SettingUp
  <2> QED
    BY <2>1, <2>2, <2>3, <2>4, <2>5, <2>6, StartOrders
<1>17. CASE WaitEnds(p)
  <2> USE <1>17 DEF WaitEnds, SetUp, Finalizing
  <2>1. rid[p] \in Ids
    BY DEF Behind
  <2>2. OwnRun(p)
    BY DEF OwnRun, OnlyOf, SettingUp, Resolved
  <2>3. SettingUp(p)'
    BY <2>1 DEF SettingUp, Resolved, Orderly, Unmade, Manifested, Behind, Childless
  <2>4. HasChildren(p)'
    BY DEF HasChildren, Childless, NoChild, OnFile, Kinds, SettingUp, Resolved
  <2>5. Ending(p)'
    BY DEF Ending, SettingUp
  <2>6. manifest'[rid[p]].ended => manifest[rid[p]].ended
    BY <2>1 DEF SettingUp
  <2> QED
    BY <2>1, <2>2, <2>3, <2>4, <2>5, <2>6, StartOrders
<1>18. CASE Shutdown(p)
  <2> USE <1>18 DEF Shutdown, Interruptible, KillRecorded, SetUp, Finalizing
  <2>1. rid[p] \in Ids
    BY DEF Behind
  <2>2. OwnRun(p)
    BY DEF OwnRun, OnlyOf, SettingUp, Resolved
  <2>3. SettingUp(p)'
    BY <2>1 DEF SettingUp, Resolved, Orderly, Unmade, Manifested, Behind, Childless
  <2>4. HasChildren(p)'
    BY DEF HasChildren, Childless, NoChild, OnFile, Kinds, SettingUp, Resolved
  <2>5. Ending(p)'
    <3>1. Over(rid[p])'
      BY <2>1, <2>4 DEF Orderly, Apart, Over, HasChildren, Childless
    <3> QED
      BY <2>1, <3>1 DEF Ending, SettingUp
  <2>6. manifest'[rid[p]].ended => manifest[rid[p]].ended
    BY <2>1 DEF SettingUp
  <2> QED
    BY <2>1, <2>2, <2>3, <2>4, <2>5, <2>6, StartOrders
<1>19. CASE WriteManifest(p)
  <2>0. rid[p] \in Ids /\ rid[p] \in dirs /\ manifest[rid[p]].ended = FALSE
    BY <1>19, ManifestTypes DEF WriteManifest, Dump, Behind, SettingUp, SetUp, TypeOK, Manifests
  <2>1. /\ manifest[rid[p]].made /\ read[p].made
        /\ manifest'[rid[p]] = read[p] /\ ~read[p].ended /\ read[p].whole
    <3>1. manifest[rid[p]] = Empty /\ ~read[p].ended /\ read[p].whole /\ read[p].made
      BY <1>19, ManifestTypes DEF WriteManifest, Dump, SettingUp, Behind
    <3>2. Overwritten(Empty, read[p]) = read[p]
      BY ManifestTypes DEF Overwritten, Longer
    <3>3. manifest[rid[p]].made
      BY <3>1, ManifestTypes
    <3> QED
      BY <1>19, <2>0, <3>1, <3>2, <3>3, Dumped DEF WriteManifest, Steps, SetUp, Inv
  <2>2. /\ OnlyOf(p) /\ rid' = rid /\ dir' = dir /\ alive' = alive /\ pids' = pids
        /\ dirs' = dirs /\ current' = current /\ tmp' = tmp
        /\ \A i \in Ids \ {rid[p]} : manifest'[i] = manifest[i]
    BY <1>19, <2>0, <2>1, Dumped DEF WriteManifest, Dump, SetUp, Steps, Inv
  <2>3. OwnRun(p)
    BY <1>19, <2>2 DEF OwnRun, WriteManifest, Dump, SetUp
  <2>4. SettingUp(p)'
    BY <1>19, <2>0, <2>1, <2>2, ManifestTypes DEF SettingUp, Resolved, WriteManifest, Dump, SetUp
  <2>5. HasChildren(p)'
    BY <1>19, <2>2 DEF HasChildren, Childless, NoChild, WriteManifest, Dump, SetUp, Finalizing
  <2>6. Ending(p)'
    BY <1>19 DEF Ending, WriteManifest, Dump, Finalizing
  <2>7. manifest'[rid[p]].ended => manifest[rid[p]].ended
    BY <2>1, ManifestTypes
  <2>8. at[p] \in SetUp
    BY <1>19 DEF WriteManifest, Dump, SetUp
  <2> QED
    BY <2>0, <2>2, <2>3, <2>4, <2>5, <2>6, <2>7, <2>8, StartOrders
<1>20. CASE WriteFlags(p)
  <2>0. rid[p] \in Ids /\ rid[p] \in dirs /\ manifest[rid[p]].ended = FALSE
    BY <1>20, ManifestTypes DEF WriteFlags, Dump, Behind, SettingUp, SetUp, TypeOK, Manifests
  <2>1. /\ manifest[rid[p]].made /\ read[p].made
        /\ manifest'[rid[p]] = read[p] /\ ~read[p].ended /\ read[p].whole
    <3>1. manifest[rid[p]] = Empty /\ ~read[p].ended /\ read[p].whole /\ read[p].made
      BY <1>20, ManifestTypes DEF WriteFlags, Dump, SettingUp, Behind
    <3>2. Overwritten(Empty, read[p]) = read[p]
      BY ManifestTypes DEF Overwritten, Longer
    <3>3. manifest[rid[p]].made
      BY <3>1, ManifestTypes
    <3> QED
      BY <1>20, <2>0, <3>1, <3>2, <3>3, Dumped DEF WriteFlags, Steps, SetUp, Inv
  <2>2. /\ OnlyOf(p) /\ rid' = rid /\ dir' = dir /\ alive' = alive /\ pids' = pids
        /\ dirs' = dirs /\ current' = current /\ tmp' = tmp
        /\ \A i \in Ids \ {rid[p]} : manifest'[i] = manifest[i]
    BY <1>20, <2>0, <2>1, Dumped DEF WriteFlags, Dump, SetUp, Steps, Inv
  <2>3. OwnRun(p)
    BY <1>20, <2>2 DEF OwnRun, WriteFlags, Dump, SetUp
  <2>4. SettingUp(p)'
    BY <1>20, <2>0, <2>1, <2>2, ManifestTypes DEF SettingUp, Resolved, WriteFlags, Dump, SetUp
  <2>5. HasChildren(p)'
    BY <1>20, <2>2 DEF HasChildren, Childless, NoChild, WriteFlags, Dump, SetUp, Finalizing
  <2>6. Ending(p)'
    BY <1>20 DEF Ending, WriteFlags, Dump, Finalizing
  <2>7. manifest'[rid[p]].ended => manifest[rid[p]].ended
    BY <2>1, ManifestTypes
  <2>8. at[p] \in SetUp
    BY <1>20 DEF WriteFlags, Dump, SetUp
  <2> QED
    BY <2>0, <2>2, <2>3, <2>4, <2>5, <2>6, <2>7, <2>8, StartOrders
<1> QED
  BY <1>1, <1>2, <1>3, <1>4, <1>5, <1>6, <1>7, <1>8, <1>9, <1>10, <1>11, <1>12, <1>13, <1>14, <1>15,
     <1>16, <1>17, <1>18, <1>19, <1>20
  DEF StartRun

(* A step of a script that ends a run changes only what nobody uses any    *)
(* more.                                                                   *)
LEMMA EndOrders ==
  ASSUME Inv, Inv', Orderly, NEW s \in Scripts, OnlyOf(s),
         at[s] \in Finalizing \/ (at[s] = "found" /\ s \notin Starts),
         at'[s] \in Finalizing \cup {"exited"},
         dirs' = dirs, tmp' = tmp, current' \in {current, NoId}, rid' = rid, dir' = dir,
         alive' \subseteq alive,
         \A i \in Ids \ {rid[s]} : manifest'[i] = manifest[i] /\ pids'[i] = pids[i],
         Over(rid[s]) \/ (manifest' = manifest /\ pids' = pids),
         Ending(s)'
  PROVE  Orderly'
<1> USE DEF SetUp, Finalizing
<1>0. rid[s] \in dirs /\ rid[s] \in Ids /\ at[s] \notin SetUp /\ at'[s] \notin SetUp
  BY DEF Orderly, Ending, Inv, TypeOK
<1>1. Apart'
  BY <1>0 DEF Orderly, Apart, OnlyOf, Scripts
<1>2. StopsWait'
  BY <1>0 DEF Orderly, StopsWait, OnlyOf, Scripts
<1>3. Unmade'
  BY <1>0 DEF Orderly, Unmade
<1>4. \A i : Over(i) => Over(i)'
  BY <1>0, OverStays
<1>5. Ended'
  BY <1>4 DEF Orderly, Ended
<1>6. ASSUME NEW p \in Starts PROVE SettingUp(p)' /\ HasChildren(p)'
  <2>1. SettingUp(p) /\ HasChildren(p) /\ Behind(p) /\ p \in Scripts
    BY DEF Orderly, Inv, Scripts
  <2>2. CASE p = s
    <3>1. SettingUp(p)'
      BY <1>0, <2>1, <2>2 DEF SettingUp, Resolved
    <3>2. NoChild(p)'
      BY <2>1, <2>2 DEF HasChildren, Childless, NoChild
    <3> QED
      BY <2>2, <3>1, <3>2 DEF HasChildren, Childless
  <2>3. CASE p # s
    <3>1. at'[p] = at[p] /\ read'[p] = read[p]
      BY <2>1, <2>3 DEF OnlyOf
    <3>2. at[p] \in SetUp => manifest'[rid[p]] = manifest[rid[p]]
      BY <2>1 DEF Over, Behind
    <3>3. SettingUp(p)'
      BY <2>1, <3>1, <3>2 DEF SettingUp
    <3>4. \A k \in Kinds : OnFile(p, k) => at[p] \in {"idle", "exited"} \/ OnFile(p, k)'
      BY <2>1 DEF OnFile, Over, NoChild, Behind
    <3>5. HasChildren(p)'
      BY <2>1, <3>1, <3>4 DEF HasChildren, Kinds, NoChild
    <3> QED
      BY <3>3, <3>5
  <2> QED
    BY <2>2, <2>3
<1>7. ASSUME NEW r \in Scripts, r # s PROVE Ending(r)'
  <2>1. Ending(r) /\ at'[r] = at[r] /\ rid'[r] = rid[r] /\ read'[r] = read[r]
    BY <1>7 DEF Orderly, OnlyOf
  <2> QED
    BY <1>4, <2>1 DEF Ending
<1> QED
  BY <1>1, <1>2, <1>3, <1>5, <1>6, <1>7 DEF Orderly

(* The steps of finalizing keep the order.                                 *)
LEMMA FinalizeKeepsOrder ==
  ASSUME Inv, Inv', Orderly, NEW s \in Scripts, Finalize(s)
  PROVE  Orderly'
<1> TypeOK /\ Behind(s) /\ Ending(s)
  BY DEF Inv, Orderly
<1> USE NoIdIsNone DEF TypeOK, files, children, Step, Finalize, FinRead, FinLook, FinRm,
        FinOpen, FinWrite, Truncate, Dump, AfterFinalize
<1>1. /\ at[s] \in Finalizing /\ at'[s] \in Finalizing \cup {"exited"} /\ OnlyOf(s)
      /\ rid[s] \in Ids
  BY DEF Finalizing, OnlyOf, Ending
<1>2. /\ UNCHANGED <<dirs, tmp, children, rid, dir>> /\ current' \in {current, NoId}
      /\ \A i \in Ids \ {rid[s]} : manifest'[i] = manifest[i]
  OBVIOUS
<1>3. Over(rid[s]) /\ Over(rid[s])'
  <2>1. Over(rid[s])
    BY <1>1 DEF Ending
  <2> QED
    BY <1>1, <1>2, <2>1, OverStays DEF Finalizing, SetUp
<1>4. Ending(s)'
  BY <1>2, <1>3 DEF Ending, Finalizing
<1> QED
  BY <1>1, <1>2, <1>3, <1>4, EndOrders

(* The steps of stop.sh keep the order; StopChildren finds every child on  *)
(* file.                                                                   *)
LEMMA StopKeepsOrder ==
  ASSUME Inv, Inv', Orderly, NEW q \in Stops, StopRun(q), ~overlaps
  PROVE  Orderly'
<1> q \in Scripts /\ q \notin Starts
  BY LifecycleAssumption DEF Scripts, LifecycleAssumption
<1> TypeOK /\ Behind(q) /\ Ending(q)
  BY DEF Inv, Orderly
<1> USE NoIdIsNone DEF TypeOK, files, children, Step
<1>1. CASE Locate(q)
  <2> USE <1>1 DEF Locate
  <2>1. /\ OnlyOf(q) /\ UNCHANGED <<files, children, read>> /\ NoSetUp
        /\ at'[q] \in {"found", "exited"} /\ (at'[q] = "found" => rid'[q] \in dirs)
    BY DEF OnlyOf, MayStop, Inv, LinksHold
  <2>2. \A p \in Starts : at'[p] = at[p] /\ rid'[p] = rid[p] /\ dir'[p] = dir[p] /\ read'[p] = read[p]
    BY <2>1 DEF OnlyOf, Scripts
  <2>3. Apart' /\ StopsWait' /\ Unmade'
    BY <2>1, <2>2 DEF Orderly, Apart, StopsWait, Unmade, NoSetUp
  <2>4. \A i : Over(i) => Over(i)'
    BY <2>1, <2>2 DEF Over, NoChild
  <2>5. Ended'
    BY <2>1, <2>4 DEF Orderly, Ended
  <2>6. ASSUME NEW p \in Starts PROVE SettingUp(p)' /\ HasChildren(p)'
    <3>1. SettingUp(p)'
      BY <2>1, <2>2 DEF Orderly, SettingUp
    <3>2. HasChildren(p)'
      BY <2>1, <2>2 DEF Orderly, HasChildren, NoChild, OnFile
    <3> QED
      BY <3>1, <3>2
  <2>7. \A r \in Scripts : Ending(r)'
    BY <2>1, <2>4 DEF Orderly, Ending, OnlyOf, Finalizing
  <2> QED
    BY <2>3, <2>5, <2>6, <2>7 DEF Orderly
<1>2. CASE StopChildren(q)
  <2> USE <1>2 DEF StopChildren, KillRecorded
  <2>1. OnlyOf(q) /\ at[q] = "found" /\ at'[q] \in {"fin_read", "exited"} /\ rid[q] \in Ids
    BY DEF OnlyOf, Ending
  <2>2. ASSUME at'[q] = "fin_read", NEW p \in Starts, rid[p] = rid[q]
        PROVE  at[p] \notin SetUp /\ NoChild(p)'
    <3>1. at[p] \notin SetUp /\ HasChildren(p) /\ SettingUp(p) /\ p \in Scripts
      BY <2>1 DEF Orderly, StopsWait, Scripts
    <3>2. \A k \in Kinds : OnFile(p, k)
      BY <3>1 DEF HasChildren, Childless, NoChild, OnFile, Kinds, SetUp, Finalizing
    <3> QED
      BY <2>1, <2>2, <3>1, <3>2 DEF NoChild, OnFile
  <2>3. Ending(q)'
    BY <2>1, <2>2 DEF Ending, Over, Finalizing, OnlyOf, Scripts
  <2> QED
    BY <2>1, <2>3, EndOrders DEF Finalizing
<1>3. CASE RemovePids(q)
  <2> USE <1>3 DEF RemovePids
  <2>1. OnlyOf(q) /\ at[q] = "fin_pids" /\ at'[q] = "exited" /\ rid[q] \in Ids
    BY DEF OnlyOf, Ending, Finalizing
  <2>2. Over(rid[q])
    BY <2>1 DEF Ending, Finalizing
  <2> QED
    BY <2>1, <2>2, EndOrders DEF Finalizing, Ending
<1> QED
  BY <1>1, <1>2, <1>3 DEF StopRun

(* Every step keeps the order.                                             *)
LEMMA NextKeepsOrder ==
  ASSUME Inv, Inv', ~overlaps, Orderly, Next
  PROVE  Orderly'
<1>1. ASSUME NEW c \in Children, Die(c) PROVE Orderly'
  <2> USE <1>1 DEF Die, files
  <2>1. \A i : Over(i) => Over(i)'
    BY DEF Over, NoChild
  <2>2. \A p \in Starts : SettingUp(p)'
    BY DEF Orderly, SettingUp
  <2>3. \A p \in Starts : HasChildren(p)'
    BY DEF Orderly, HasChildren, NoChild, OnFile
  <2>4. \A s \in Scripts : Ending(s)'
    BY <2>1 DEF Orderly, Ending
  <2> QED
    BY <2>1, <2>2, <2>3, <2>4 DEF Orderly, Apart, StopsWait, Unmade, Ended
<1>2. ASSUME NEW p \in Starts, Fork(p) \/ HelpersEnd(p) PROVE Orderly'
  BY <1>2 DEF Fork, HelpersEnd, files, scripts, Orderly, Apart, StopsWait, Unmade, Ended,
              SettingUp, HasChildren, Ending, Over, NoChild, OnFile
<1> QED
  BY <1>1, <1>2, StartKeepsOrder, StopKeepsOrder, FinalizeKeepsOrder DEF Next

-----------------------------------------------------------------------------
(* Where a script has emptied a manifest, and where it holds in memory     *)
(* what it writes at the end of a run.                                     *)
Emptied == {"manifesting", "dumping", "fin_dump"}
AboutToEnd == {"fin_write", "fin_dump"}

(* A manifest parses, or someone who has emptied it is going to write it.  *)
Whole ==
    \A i \in Ids : /\ manifest[i].made => Has(i, "whole")
                   /\ ~manifest[i].whole => ~manifest[i].flags /\ ~manifest[i].ended
(* All who end a run are about to write the same, which is what is there   *)
(* unless the file is empty: so the flags outlive any order of theirs.     *)
Agree ==
    \A s \in Scripts : at[s] \in AboutToEnd =>
        /\ read[s].whole /\ read[s].ended
        /\ manifest[rid[s]].whole => read[s].flags = manifest[rid[s]].flags
        /\ \A r \in Scripts : rid[r] = rid[s] /\ at[r] \in AboutToEnd =>
               read[r].flags = read[s].flags

Serial == ~overlaps => Orderly /\ Whole /\ Agree

-----------------------------------------------------------------------------
(* A script is at none of these steps in the beginning.                    *)
LEMMA RewritesAtFirst == Init => Whole /\ Agree
  BY DEF Init, Whole, Agree, AboutToEnd, NoManifest

(* Nothing is lost in a step.                                              *)
Fields == {"whole", "flags", "ended"}
Kept == \A i \in Ids, field \in Fields : Has(i, field) => Has(i, field)'

(* A step away from the manifests and from whoever rewrites one.           *)
LEMMA QuietStep ==
  ASSUME Inv, Whole, Agree, manifest' = manifest,
         \A s \in Scripts :
            at[s] \in Emptied \cup AboutToEnd \/ at'[s] \in AboutToEnd =>
                at'[s] = at[s] /\ rid'[s] = rid[s] /\ read'[s] = read[s]
  PROVE  Kept /\ Whole' /\ Agree'
<1>1. ASSUME NEW i \in Ids, NEW field, Has(i, field) PROVE Has(i, field)'
  BY <1>1 DEF Has, Emptied
<1>2. Whole'
  BY <1>1 DEF Whole
<1>3. Agree'
  <2> SUFFICES ASSUME NEW s \in Scripts, at'[s] \in AboutToEnd
               PROVE  /\ read'[s].whole /\ read'[s].ended
                      /\ manifest[rid'[s]].whole => read'[s].flags = manifest[rid'[s]].flags
                      /\ \A r \in Scripts : rid'[r] = rid'[s] /\ at'[r] \in AboutToEnd =>
                             read'[r].flags = read'[s].flags
    BY DEF Agree
  <2>1. \A r \in Scripts : at'[r] \in AboutToEnd =>
            at[r] \in AboutToEnd /\ rid'[r] = rid[r] /\ read'[r] = read[r]
    OBVIOUS
  <2> QED
    BY <2>1 DEF Agree
<1> QED
  BY <1>1, <1>2, <1>3 DEF Kept

(* Reading a manifest that parses in order to end it: it agrees with the   *)
(* file, and so with all who have read it.                                 *)
LEMMA ReadStep ==
  ASSUME Inv, Whole, Agree, NEW s \in Scripts, FinRead(s), rid[s] \in Ids
  PROVE  Kept /\ Whole' /\ Agree'
<1> USE DEF FinRead, Step, files
<1>1. /\ OnlyOf(s) /\ rid' = rid /\ manifest' = manifest
      /\ at[s] = "fin_read" /\ at'[s] \in {"fin_write", "exited"}
  BY DEF OnlyOf, Inv, TypeOK
<1>2. ASSUME NEW i \in Ids, NEW field, Has(i, field) PROVE Has(i, field)'
  BY <1>1, <1>2 DEF Has, OnlyOf
<1>3. Whole'
  BY <1>1, <1>2 DEF Whole
<1>4. at'[s] = "fin_write" =>
          /\ manifest[rid[s]].whole /\ read'[s].whole /\ read'[s].ended
          /\ read'[s].flags = manifest[rid[s]].flags
  <2> SUFFICES ASSUME at'[s] = "fin_write"
               PROVE  /\ manifest[rid[s]].whole /\ read'[s].whole /\ read'[s].ended
                      /\ read'[s].flags = manifest[rid[s]].flags
    OBVIOUS
  <2>1. Readable(rid[s]) /\ read'[s] = [manifest[rid[s]] EXCEPT !.ended = TRUE]
    BY <1>1 DEF Inv, TypeOK
  <2>2. manifest[rid[s]] \in Manifests
    BY DEF Inv, TypeOK
  <2> QED
    BY <2>1, <2>2 DEF Readable, Manifests
<1>5. \A r \in Scripts \ {s} : at'[r] = at[r] /\ read'[r] = read[r]
  BY <1>1 DEF OnlyOf
<1>6. Agree'
  <2> SUFFICES ASSUME NEW t \in Scripts, at'[t] \in AboutToEnd
               PROVE  /\ read'[t].whole /\ read'[t].ended
                      /\ manifest[rid[t]].whole => read'[t].flags = manifest[rid[t]].flags
                      /\ \A r \in Scripts : rid[r] = rid[t] /\ at'[r] \in AboutToEnd =>
                             read'[r].flags = read'[t].flags
    BY <1>1 DEF Agree
  <2>1. CASE t = s
    BY <1>1, <1>4, <1>5, <2>1 DEF Agree, AboutToEnd
  <2>2. CASE t # s
    <3>1. \A r \in Scripts : rid[r] = rid[t] /\ at'[r] \in AboutToEnd =>
              read'[r].flags = read'[t].flags
      BY <1>1, <1>4, <1>5, <2>2 DEF Agree, AboutToEnd
    <3> QED
      BY <1>5, <2>2, <3>1 DEF Agree
  <2> QED
    BY <2>1, <2>2
<1> QED
  BY <1>2, <1>3, <1>6 DEF Kept

(* Emptying a file, with all it says in memory.                            *)
LEMMA EmptyStep ==
  ASSUME Inv, Whole, Agree, NEW s \in Scripts, OnlyOf(s), rid' = rid, read' = read,
         rid[s] \in Ids, manifest'[rid[s]] = Empty,
         \A i \in Ids \ {rid[s]} : manifest'[i] = manifest[i],
         at[s] \notin Emptied, at'[s] \in Emptied,
         at'[s] \in AboutToEnd => at[s] \in AboutToEnd,
         read[s].whole,
         \A field \in Fields : manifest[rid[s]][field] => read[s][field]
  PROVE  Kept /\ Whole' /\ Agree'
<1>1. \A r \in Scripts : r # s => at'[r] = at[r]
  BY DEF OnlyOf
<1>2. ASSUME NEW i \in Ids, NEW field \in Fields, Has(i, field) PROVE Has(i, field)'
  <2>1. CASE manifest[i][field] /\ i = rid[s]
    BY <2>1 DEF Has, Emptied
  <2>2. CASE manifest[i][field] /\ i # rid[s]
    BY <2>2 DEF Has
  <2>3. CASE ~manifest[i][field]
    <3>1. PICK r \in Scripts : rid[r] = i /\ at[r] \in Emptied /\ read[r][field]
      BY <1>2, <2>3 DEF Has, Emptied
    <3> QED
      BY <1>1, <3>1 DEF Has, Emptied
  <2> QED
    BY <2>1, <2>2, <2>3
<1>3. Has(rid[s], "whole")'
  BY DEF Has, Emptied
<1>4. Whole'
  BY <1>2, <1>3, ManifestTypes DEF Whole, Fields
<1>5. Agree'
  <2> SUFFICES ASSUME NEW t \in Scripts, at'[t] \in AboutToEnd
               PROVE  /\ read[t].whole /\ read[t].ended
                      /\ manifest'[rid[t]].whole => read[t].flags = manifest'[rid[t]].flags
                      /\ \A r \in Scripts : rid[r] = rid[t] /\ at'[r] \in AboutToEnd =>
                             read[r].flags = read[t].flags
    BY DEF Agree
  <2>1. \A r \in Scripts : at'[r] \in AboutToEnd => at[r] \in AboutToEnd
    BY <1>1
  <2>2. rid[t] \in Ids
    BY <2>1 DEF Inv, Behind, AboutToEnd
  <2>3. manifest'[rid[t]].whole => manifest'[rid[t]] = manifest[rid[t]]
    BY <2>2, ManifestTypes
  <2> QED
    BY <2>1, <2>3 DEF Agree
<1> QED
  BY <1>2, <1>4, <1>5 DEF Kept

(* Filling it with what is in memory, which is at least what it says.      *)
LEMMA FillStep ==
  ASSUME Inv, Whole, Agree, NEW s \in Scripts, OnlyOf(s), rid' = rid,
         rid[s] \in Ids, manifest'[rid[s]] = read[s],
         \A i \in Ids \ {rid[s]} : manifest'[i] = manifest[i],
         at'[s] \notin Emptied \cup AboutToEnd,
         read[s].whole,
         \A field \in Fields : manifest[rid[s]][field] => read[s][field],
         \A r \in Scripts : r # s /\ rid[r] = rid[s] /\ at[r] \in AboutToEnd =>
             read[r].flags = read[s].flags
  PROVE  Kept /\ Whole' /\ Agree'
<1>1. \A r \in Scripts : r # s => at'[r] = at[r] /\ read'[r] = read[r]
  BY DEF OnlyOf
<1>2. ASSUME NEW i \in Ids, NEW field \in Fields, Has(i, field) PROVE Has(i, field)'
  <2>1. CASE manifest[i][field]
    BY <2>1 DEF Has
  <2>2. CASE ~manifest[i][field]
    <3>1. PICK r \in Scripts : rid[r] = i /\ at[r] \in Emptied /\ read[r][field]
      BY <1>2, <2>2 DEF Has, Emptied
    <3>2. CASE r = s
      BY <3>1, <3>2 DEF Has
    <3>3. CASE r # s
      BY <1>1, <3>1, <3>3 DEF Has, Emptied
    <3> QED
      BY <3>2, <3>3
  <2> QED
    BY <2>1, <2>2
<1>3. Has(rid[s], "whole")'
  BY DEF Has
<1>4. Whole'
  BY <1>2, <1>3 DEF Whole, Fields
<1>5. Agree'
  <2> SUFFICES ASSUME NEW t \in Scripts, at'[t] \in AboutToEnd
               PROVE  /\ read'[t].whole /\ read'[t].ended
                      /\ manifest'[rid[t]].whole => read'[t].flags = manifest'[rid[t]].flags
                      /\ \A r \in Scripts : rid[r] = rid[t] /\ at'[r] \in AboutToEnd =>
                             read'[r].flags = read'[t].flags
    BY DEF Agree
  <2>1. t # s /\ at[t] \in AboutToEnd /\ read'[t] = read[t]
    BY <1>1
  <2>2. rid[t] \in Ids
    BY <2>1 DEF Inv, Behind, AboutToEnd
  <2>3. manifest'[rid[t]].whole => read[t].flags = manifest'[rid[t]].flags
    BY <2>1, <2>2 DEF Agree
  <2>4. \A r \in Scripts : rid[r] = rid[t] /\ at'[r] \in AboutToEnd =>
            read'[r].flags = read[t].flags
    BY <1>1, <2>1 DEF Agree
  <2> QED
    BY <2>1, <2>3, <2>4 DEF Agree
<1> QED
  BY <1>2, <1>4, <1>5 DEF Kept

(* A start is alone with the manifest of the run it sets up.               *)
LEMMA StartRewrites ==
  ASSUME Inv, Orderly, Whole, Agree, NEW p \in Starts, overlaps' = overlaps,
         CreateManifest(p) \/ OpenForFlags(p) \/ WriteManifest(p) \/ WriteFlags(p)
  PROVE  /\ Kept /\ Whole' /\ Agree'
         /\ \A i \in Ids : manifest'[i].ended => manifest[i].ended
<1> p \in Scripts
  BY DEF Scripts
<1>1. SettingUp(p) /\ Behind(p) /\ TypeOK /\ at[p] \in SetUp
  BY DEF Inv, Orderly, CreateManifest, OpenForFlags, WriteManifest, WriteFlags, Truncate, Dump,
         Step, SetUp
<1>2. rid[p] \in Ids
  BY <1>1 DEF Behind, SetUp
<1>3. \A r \in Scripts : at[r] \in AboutToEnd => rid[r] # rid[p]
  BY <1>1 DEF Orderly, Ending, Over, AboutToEnd, Finalizing
<1>4. /\ NoManifest.whole = FALSE /\ NoManifest.flags = FALSE /\ NoManifest.ended = FALSE
  BY DEF NoManifest
<1>5. CASE CreateManifest(p)
  <2>1. at[p] = "made" /\ at'[p] = "manifesting"
    BY <1>5, <1>1 DEF CreateManifest, Truncate, Step, TypeOK
  <2>2. manifest[rid[p]] = NoManifest /\ read[p].whole
    BY <1>1, <2>1, ManifestTypes DEF SettingUp
  <2>3. /\ OnlyOf(p) /\ rid' = rid /\ read' = read /\ manifest'[rid[p]] = Empty
        /\ \A i \in Ids \ {rid[p]} : manifest'[i] = manifest[i]
    BY <1>5, <1>2, Truncated DEF CreateManifest, Truncate, Steps, SetUp
  <2>4. \A field \in Fields : manifest[rid[p]][field] => read[p][field]
    BY <1>4, <2>2 DEF Fields
  <2>5. Kept /\ Whole' /\ Agree'
    BY <1>2, <2>1, <2>2, <2>3, <2>4, EmptyStep DEF Emptied, AboutToEnd
  <2> QED
    BY <2>3, <2>5, ManifestTypes
<1>6. CASE OpenForFlags(p)
  <2>1. at[p] = "flagging" /\ at'[p] = "dumping"
    BY <1>6, <1>1 DEF OpenForFlags, Truncate, Step, TypeOK
  <2>2. read[p].whole /\ read[p].flags /\ manifest[rid[p]].ended = FALSE
    BY <1>1, <1>2, <2>1 DEF SettingUp, TypeOK, Manifests
  <2>3. /\ OnlyOf(p) /\ rid' = rid /\ read' = read /\ manifest'[rid[p]] = Empty
        /\ \A i \in Ids \ {rid[p]} : manifest'[i] = manifest[i]
    BY <1>6, <1>2, Truncated DEF OpenForFlags, Truncate, Steps, SetUp
  <2>4. \A field \in Fields : manifest[rid[p]][field] => read[p][field]
    BY <2>2 DEF Fields
  <2>5. Kept /\ Whole' /\ Agree'
    BY <1>2, <2>1, <2>2, <2>3, <2>4, EmptyStep DEF Emptied, AboutToEnd
  <2> QED
    BY <2>3, <2>5, ManifestTypes
<1>7. CASE WriteManifest(p) \/ WriteFlags(p)
  <2>1. at[p] \in {"manifesting", "dumping"} /\ at'[p] \in {"manifested", "launching"}
    BY <1>7, <1>1 DEF WriteManifest, WriteFlags, Dump, Step, TypeOK
  <2>2. manifest[rid[p]] = Empty /\ read[p].made /\ read[p].whole /\ ~read[p].ended
    BY <1>1, <2>1, ManifestTypes DEF SettingUp, Behind
  <2>3. Overwritten(Empty, read[p]) = read[p] /\ manifest[rid[p]].made
    BY <2>2, ManifestTypes DEF Overwritten, Longer
  <2>4. /\ OnlyOf(p) /\ rid' = rid /\ manifest'[rid[p]] = read[p]
        /\ \A i \in Ids \ {rid[p]} : manifest'[i] = manifest[i]
    BY <1>7, <1>2, <2>2, <2>3, Dumped DEF WriteManifest, WriteFlags, Dump, Steps, SetUp
  <2>5. \A field \in Fields : manifest[rid[p]][field] => read[p][field]
    BY <2>2, ManifestTypes DEF Fields
  <2>6. Kept /\ Whole' /\ Agree'
    BY <1>2, <1>3, <2>1, <2>2, <2>4, <2>5, FillStep DEF Emptied, AboutToEnd
  <2> QED
    BY <2>2, <2>4, <2>6
<1> QED
  BY <1>5, <1>6, <1>7

(* Those who end a run write what all of them write.                       *)
LEMMA FinRewrites ==
  ASSUME Inv, Orderly, Whole, Agree, NEW s \in Scripts, overlaps' = overlaps,
         FinOpen(s) \/ FinWrite(s)
  PROVE  /\ Kept /\ Whole' /\ Agree'
         /\ \A i \in Ids : manifest'[i].ended => manifest[i].ended \/ (rid[s] = i /\ FinWrite(s))
<1>1. Behind(s) /\ TypeOK /\ at[s] \in AboutToEnd
  BY DEF Inv, FinOpen, FinWrite, Truncate, Dump, Step, AboutToEnd
<1>2. rid[s] \in Ids /\ read[s].made /\ (at[s] = "fin_dump" => manifest[rid[s]].made)
  BY <1>1 DEF Behind, AboutToEnd
<1>3. /\ read[s].whole /\ read[s].ended
      /\ manifest[rid[s]].whole => read[s].flags = manifest[rid[s]].flags
      /\ \A r \in Scripts : rid[r] = rid[s] /\ at[r] \in AboutToEnd => read[r].flags = read[s].flags
  BY <1>1 DEF Agree
<1>4. manifest[rid[s]].flags => manifest[rid[s]].whole
  BY <1>2 DEF Whole
<1>5. \A field \in Fields : manifest[rid[s]][field] => read[s][field]
  BY <1>3, <1>4 DEF Fields
<1>6. CASE FinOpen(s)
  <2>1. at[s] = "fin_write" /\ at'[s] = "fin_dump"
    BY <1>6, <1>1 DEF FinOpen, Truncate, Step, TypeOK
  <2>2. /\ OnlyOf(s) /\ rid' = rid /\ read' = read /\ manifest'[rid[s]] = Empty
        /\ \A i \in Ids \ {rid[s]} : manifest'[i] = manifest[i]
    BY <1>6, <1>2, Truncated DEF FinOpen, Truncate, Steps, Finalizing
  <2>3. Kept /\ Whole' /\ Agree'
    BY <1>2, <1>3, <1>5, <2>1, <2>2, EmptyStep DEF Emptied, AboutToEnd
  <2> QED
    BY <2>2, <2>3, ManifestTypes
<1>7. CASE FinWrite(s)
  <2>1. at[s] = "fin_dump" /\ at'[s] = "fin_look"
    BY <1>7, <1>1 DEF FinWrite, Dump, Step, TypeOK
  <2>2. Overwritten(manifest[rid[s]], read[s]) = read[s]
    BY <1>3, <1>4 DEF Overwritten, Longer
  <2>3. /\ OnlyOf(s) /\ rid' = rid /\ manifest'[rid[s]] = read[s]
        /\ \A i \in Ids \ {rid[s]} : manifest'[i] = manifest[i]
    BY <1>7, <1>2, <2>1, <2>2, Dumped DEF FinWrite, Dump, Steps, Finalizing
  <2>4. Kept /\ Whole' /\ Agree'
    BY <1>2, <1>3, <1>5, <2>1, <2>3, FillStep DEF Emptied, AboutToEnd
  <2> QED
    BY <1>7, <2>3, <2>4
<1> QED
  BY <1>6, <1>7

(* What every step does to the manifests: nothing is lost, and only who    *)
(* ends a run gives it an end.                                             *)
LEMMA ManifestStep ==
  ASSUME Inv, ~overlaps, Orderly, Whole, Agree, Next
  PROVE  /\ Kept /\ Whole' /\ Agree'
         /\ \A i \in Ids : manifest'[i].ended =>
                manifest[i].ended \/ \E s \in Scripts : rid[s] = i /\ FinWrite(s)
<1> overlaps' = overlaps /\ TypeOK
  BY DEF Next, Inv
<1>1. ASSUME NEW p \in Starts, StartRun(p)
      PROVE  /\ Kept /\ Whole' /\ Agree'
             /\ \A i \in Ids : manifest'[i].ended => manifest[i].ended
  <2> p \in Scripts
    BY DEF Scripts
  <2>1. CASE CreateManifest(p) \/ OpenForFlags(p) \/ WriteManifest(p) \/ WriteFlags(p)
    BY <2>1, StartRewrites
  <2>2. CASE ~(CreateManifest(p) \/ OpenForFlags(p) \/ WriteManifest(p) \/ WriteFlags(p))
    <3>1. /\ manifest' = manifest /\ OnlyOf(p)
          /\ at[p] \notin Emptied \cup AboutToEnd /\ at'[p] \notin AboutToEnd
      BY <1>1, <2>2
      DEF StartRun, Pick, MakeDir, RemoveTmp, LinkTmp, Swap, Resolve, CheckBinaries, DryRun,
          ReadManifest, SpawnFuzzer, SpawnWorker, Spawn, RecordFuzzer, RecordWorker, Record,
          FuzzerGone, WaitEnds, Shutdown, Interruptible, KillRecorded, Step, TypeOK, OnlyOf,
          Emptied, AboutToEnd, files
    <3> QED
      BY <3>1, QuietStep DEF OnlyOf
  <2> QED
    BY <2>1, <2>2
<1>2. ASSUME NEW s \in Scripts, manifest' = manifest, OnlyOf(s),
             at[s] \notin Emptied \cup AboutToEnd, at'[s] \notin AboutToEnd
      PROVE  Kept /\ Whole' /\ Agree'
  BY <1>2, QuietStep DEF OnlyOf
<1>3. ASSUME NEW q \in Stops, StopRun(q) PROVE manifest' = manifest /\ Kept /\ Whole' /\ Agree'
  <2>1. q \in Scripts
    BY DEF Scripts
  <2>2. /\ manifest' = manifest /\ OnlyOf(q)
        /\ at[q] \notin Emptied \cup AboutToEnd /\ at'[q] \notin AboutToEnd
    BY <1>3, <2>1
    DEF StopRun, Locate, StopChildren, RemovePids, KillRecorded, Step, TypeOK, OnlyOf, Emptied,
        AboutToEnd, files
  <2> QED
    BY <1>2, <2>1, <2>2
<1>4. ASSUME NEW s \in Scripts, FinLook(s) \/ FinRm(s)
      PROVE  manifest' = manifest /\ Kept /\ Whole' /\ Agree'
  <2>1. /\ manifest' = manifest /\ OnlyOf(s)
        /\ at[s] \notin Emptied \cup AboutToEnd /\ at'[s] \notin AboutToEnd
    BY <1>4 DEF FinLook, FinRm, AfterFinalize, Step, TypeOK, OnlyOf, Emptied, AboutToEnd, files
  <2> QED
    BY <1>2, <2>1
<1>5. ASSUME NEW s \in Scripts, FinRead(s)
      PROVE  manifest' = manifest /\ Kept /\ Whole' /\ Agree'
  <2>1. rid[s] \in Ids
    BY <1>5 DEF FinRead, Step, Inv, Behind
  <2> QED
    BY <1>5, <2>1, ReadStep DEF FinRead, files
<1>6. ASSUME manifest' = manifest, UNCHANGED scripts PROVE Kept /\ Whole' /\ Agree'
  BY <1>6, QuietStep DEF scripts
<1>7. ASSUME NEW c \in Children, Die(c) PROVE manifest' = manifest /\ Kept /\ Whole' /\ Agree'
  BY <1>6, <1>7 DEF Die, files, scripts
<1>8. ASSUME NEW p \in Starts, Fork(p) \/ HelpersEnd(p)
      PROVE  manifest' = manifest /\ Kept /\ Whole' /\ Agree'
  BY <1>6, <1>8 DEF Fork, HelpersEnd, files
<1>9. ASSUME NEW s \in Scripts, Finalize(s)
      PROVE  /\ Kept /\ Whole' /\ Agree'
             /\ \A i \in Ids : manifest'[i].ended =>
                    manifest[i].ended \/ \E r \in Scripts : rid[r] = i /\ FinWrite(r)
  BY <1>4, <1>5, <1>9, FinRewrites DEF Finalize
<1> QED
  BY <1>1, <1>3, <1>7, <1>8, <1>9 DEF Next

(* The order, and the agreement, hold in every reachable state.            *)
LEMMA SerialHolds == Spec => [](Inv /\ Serial)
<1>1. Inv /\ Inv' /\ Serial /\ [Next]_vars => Serial'
  <2> SUFFICES ASSUME Inv, Inv', ~overlaps', Serial, [Next]_vars
               PROVE  Orderly' /\ Whole' /\ Agree'
    BY DEF Serial
  <2>1. CASE Next
    <3>1. ~overlaps /\ Orderly /\ Whole /\ Agree
      BY <2>1 DEF Next, Serial
    <3> QED
      BY <2>1, <3>1, NextKeepsOrder, ManifestStep
  <2>2. CASE UNCHANGED vars
    <3>1. Orderly /\ Whole /\ Agree
      BY <2>2 DEF vars, Serial
    <3>2. Orderly'
      BY <2>2, <3>1 DEF vars, files, children, scripts, Orderly, Apart, StopsWait, Unmade,
                Ended, SettingUp, HasChildren, Ending, Over, NoChild, OnFile
    <3>3. Whole' /\ Agree'
      BY <2>2, <3>1 DEF vars, files, scripts, Whole, Agree, Has
    <3> QED
      BY <3>2, <3>3
  <2> QED
    BY <2>1, <2>2
<1>2. Init => Serial
  BY OrderlyAtFirst, RewritesAtFirst DEF Serial
<1> QED
  BY InvHolds, <1>1, <1>2, PTL DEF Spec

(* Neither runs/current nor the link about to be moved onto it ever names  *)
(* a run without directory and manifest, although all starts share one     *)
(* .current.tmp: whoever links has written its manifest, and whoever       *)
(* rewrites one leaves a file. Without overlaps it parses, or someone has  *)
(* emptied it and is going to write it.                                    *)
THEOREM CurrentCorrect == Spec => []CurrentHasManifest
<1>1. Inv /\ Serial => CurrentHasManifest
  BY DEF Inv, TypeOK, LinksHold, Serial, Whole, CurrentHasManifest
<1> QED
  BY SerialHolds, <1>1, PTL

(* No rewriting of a manifest loses its flags or its end, for any number   *)
(* of starts and stops that do not meet a run being set up: stops and the  *)
(* trap may read, empty and fill it in any order, but what they hold in    *)
(* memory agrees, and none of them takes up an empty file.                 *)
THEOREM ManifestsGrow == Spec => ManifestGrows
<1>1. Inv /\ Serial /\ [Next]_vars =>
        [~overlaps => \A i \in Ids, field \in {"whole", "flags", "ended"} :
             Has(i, field) => Has(i, field)']_vars
  BY ManifestStep DEF Serial, Kept, Fields
<1> QED
  BY SerialHolds, <1>1, PTL DEF Spec, ManifestGrows

(* A run whose end is stamped has no child left, recorded or not, and gets *)
(* no process more: the pids file names every child before a stop or a     *)
(* trap can come, and what the children had started does not depend on it. *)
THEOREM EndedOver == Spec => EndedRunsAreOver
<1>1. Inv /\ Serial /\ [Next]_vars =>
        [~overlaps => \A p \in Starts :
             rid[p] # NoId /\ manifest[rid[p]].ended =>
                /\ \A k \in Kinds : <<p, k>> \notin alive
                /\ p \in helpers' => p \in helpers]_vars
  <2> SUFFICES ASSUME Inv, Serial, Next, ~overlaps, NEW p \in Starts,
                      rid[p] # NoId, manifest[rid[p]].ended
               PROVE  NoChild(p) /\ (p \in helpers' => p \in helpers)
    BY DEF NoChild
  <2>1. rid[p] \in Ids
    BY DEF Inv, TypeOK, Scripts
  <2>2. NoChild(p)
    BY <2>1 DEF Serial, Orderly, Ended, Over
  <2>3. ASSUME p \in helpers', p \notin helpers PROVE FALSE
    <3>1. ~(\E r \in Starts : Fork(r) \/ HelpersEnd(r))
      BY <2>2, <2>3 DEF Fork, HelpersEnd, NoChild
    <3>2. ASSUME NEW r \in Starts, StartRun(r) PROVE helpers' = helpers
      BY <3>2
      DEF StartRun, Pick, MakeDir, CreateManifest, WriteManifest, OpenForFlags, WriteFlags,
          Truncate, Dump, RemoveTmp, LinkTmp, Swap, Resolve, CheckBinaries, DryRun,
          ReadManifest, SpawnFuzzer, SpawnWorker, Spawn, RecordFuzzer, RecordWorker, Record,
          FuzzerGone, WaitEnds, Shutdown, KillRecorded, children
    <3>3. ASSUME NEW q \in Stops, StopRun(q) PROVE helpers' = helpers
      BY <3>3 DEF StopRun, Locate, StopChildren, RemovePids, KillRecorded, children
    <3>4. ASSUME NEW s \in Scripts, Finalize(s) PROVE helpers' = helpers
      BY <3>4 DEF Finalize, FinRead, FinOpen, FinWrite, FinLook, FinRm, Truncate, Dump, children
    <3>5. ASSUME NEW c \in Children, Die(c) PROVE helpers' = helpers
      BY <3>5 DEF Die
    <3> QED
      BY <2>3, <3>1, <3>2, <3>3, <3>4, <3>5 DEF Next
  <2> QED
    BY <2>2, <2>3
<1> QED
  BY SerialHolds, <1>1, PTL DEF Spec, EndedRunsAreOver

(* While runs/current names a run that has ended, whoever ended it is on   *)
(* its way to the link.                                                    *)
LEMMA CurrentStep ==
  ASSUME Inv, Serial, Orderly', Next, ~overlaps, CurrentIsNotOver
  PROVE  CurrentIsNotOver'
<1> SUFFICES ASSUME current' # NoId, manifest'[current'].ended
             PROVE  \E s \in Scripts : rid'[s] = current' /\ at'[s] \in {"fin_look", "fin_rm"}
  BY DEF CurrentIsNotOver
<1> USE DEF files, Step
<1> TypeOK /\ Orderly /\ Whole /\ Agree
  BY DEF Inv, Serial
<1>1. CASE current' = current
  <2>1. current \in Ids
    BY <1>1 DEF TypeOK
  <2>2. CASE manifest[current].ended
    <3>1. PICK s \in Scripts : rid[s] = current /\ at[s] \in {"fin_look", "fin_rm"}
      BY <1>1, <2>2 DEF CurrentIsNotOver
    <3>2. CASE at'[s] = at[s] /\ rid'[s] = rid[s]
      BY <1>1, <3>1, <3>2
    <3>3. CASE at'[s] # at[s] \/ rid'[s] # rid[s]
      <4>1. ASSUME NEW p \in Starts, StartRun(p) PROVE FALSE
        <5>1. OnlyOf(p) /\ at[p] \notin {"fin_look", "fin_rm"}
          BY <4>1
          DEF OnlyOf, StartRun, Pick, MakeDir, CreateManifest, WriteManifest, RemoveTmp, LinkTmp,
              Swap, Resolve, CheckBinaries, DryRun, ReadManifest, OpenForFlags, WriteFlags,
              Truncate, Dump, SpawnFuzzer, SpawnWorker, Spawn, RecordFuzzer, RecordWorker,
              Record, FuzzerGone, WaitEnds, Shutdown, Interruptible, Scripts, TypeOK
        <5> QED
          BY <3>1, <3>3, <5>1 DEF OnlyOf
      <4>2. ASSUME NEW q \in Stops, StopRun(q) PROVE FALSE
        <5>1. OnlyOf(q) /\ at[q] \notin {"fin_look", "fin_rm"}
          BY <4>2 DEF OnlyOf, StopRun, Locate, StopChildren, RemovePids, Scripts, TypeOK
        <5> QED
          BY <3>1, <3>3, <5>1 DEF OnlyOf
      <4>3. ASSUME NEW c \in Children, Die(c) PROVE FALSE
        BY <3>3, <4>3 DEF Die
      <4>7. ASSUME NEW p \in Starts, Fork(p) \/ HelpersEnd(p) PROVE FALSE
        BY <3>3, <4>7 DEF Fork, HelpersEnd, scripts
      <4>4. ASSUME NEW r \in Scripts, Finalize(r), r # s PROVE FALSE
        BY <3>3, <4>4 DEF Finalize, FinRead, FinOpen, FinWrite, Truncate, Dump, FinLook, FinRm, TypeOK
      <4>5. ~FinRead(s) /\ ~FinOpen(s) /\ ~FinWrite(s)
        BY <3>1 DEF FinRead, FinOpen, FinWrite, Truncate, Dump
      <4>6. FinLook(s) \/ FinRm(s)
        BY <4>1, <4>2, <4>3, <4>4, <4>5, <4>7 DEF Next, Finalize
      <4> QED
        BY <1>1, <3>1, <4>6 DEF FinLook, FinRm, PointsAt, TypeOK
    <3> QED
      BY <3>2, <3>3
  <2>3. CASE ~manifest[current].ended
    <3>1. PICK s \in Scripts : rid[s] = current /\ FinWrite(s)
      BY <1>1, <2>1, <2>3, ManifestStep
    <3> QED
      BY <1>1, <3>1 DEF FinWrite, Dump, TypeOK
  <2> QED
    BY <2>2, <2>3
<1>2. CASE current' # current
  <2>1. PICK p \in Starts : Swap(p)
    BY <1>2
    DEF Next, StartRun, StopRun, Finalize, Pick, MakeDir, CreateManifest, WriteManifest,
        RemoveTmp, LinkTmp, Resolve, CheckBinaries, DryRun, ReadManifest, OpenForFlags,
        WriteFlags, Truncate, Dump, SpawnFuzzer, SpawnWorker, Spawn, RecordFuzzer, RecordWorker,
        Record, FuzzerGone, WaitEnds, Shutdown, Locate, StopChildren, RemovePids, FinRead,
        FinOpen, FinWrite, FinLook, FinRm, Die, Fork, HelpersEnd
  <2>2. at[p] = "swapping" /\ current' = tmp /\ tmp # NoId /\ at'[p] = "resolving" /\ rid'[p] = rid[p]
    BY <1>2, <2>1 DEF Swap, TypeOK, Scripts
  <2>3. tmp = rid[p] /\ ~manifest'[rid'[p]].ended
    BY <2>2 DEF Orderly, SettingUp, SetUp
  <2> QED
    BY <2>2, <2>3
<1> QED
  BY <1>1, <1>2

(* runs/current names an ended run only until the script that ended it has *)
(* looked at the link, for any number of scripts, although readlink and rm *)
(* are two steps.                                                          *)
THEOREM CurrentNotOver == Spec => []CurrentIsNotOver
<1>1. Init => CurrentIsNotOver
  BY DEF Init, CurrentIsNotOver
<1>2. /\ Inv /\ Serial /\ Inv' /\ Serial' /\ CurrentIsNotOver /\ [Next]_vars
      => CurrentIsNotOver'
  <2>1. ASSUME Inv, Serial, Serial', CurrentIsNotOver, Next PROVE CurrentIsNotOver'
    <3>1. CASE overlaps
      BY <2>1, <3>1 DEF CurrentIsNotOver, Next
    <3>2. CASE ~overlaps
      BY <2>1, <3>2, CurrentStep DEF Serial, Next
    <3> QED
      BY <3>1, <3>2
  <2>2. CASE UNCHANGED vars
    BY <2>2 DEF vars, files, scripts, CurrentIsNotOver
  <2> QED
    BY <2>1, <2>2
<1> QED
  BY SerialHolds, <1>1, <1>2, PTL DEF Spec
=============================================================================
