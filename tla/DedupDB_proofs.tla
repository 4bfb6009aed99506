---------------------------- MODULE DedupDB_proofs ----------------------------
(***************************************************************************)
(* Proofs that the dedup database keeps its tables consistent for any      *)
(* number of processes, findings, buckets and payloads.                    *)
(***************************************************************************)
EXTENDS DedupDB, FiniteSetTheorems, SequenceTheorems, TLAPS

-----------------------------------------------------------------------------
(* Ids.                                                                    *)

(* A finite set of ids has a largest element: the family of its upper      *)
(* segments has a smallest member, and that member is empty.               *)
LEMMA LargestExists ==
    ASSUME NEW S, IsFiniteSet(S), S \subseteq Nat, S # {}
    PROVE  \E n \in S : \A i \in S : i <= n
<1> DEFINE Above(x) == {y \in S : y > x}
           Segments == {Above(x) : x \in S}
           R == StrictSubsetOrdering(S)
<1>1. Segments \subseteq FiniteSubsetsOf(S)
  <2>1. \A x \in S : Above(x) \in SUBSET S
    OBVIOUS
  <2>2. \A x \in S : IsFiniteSet(Above(x))
    BY <2>1, FS_Subset
  <2> QED BY <2>1, <2>2 DEF FiniteSubsetsOf
<1>2. Segments # {}
  OBVIOUS
<1>3. IsWellFoundedOn(R, FiniteSubsetsOf(S))
  BY FS_StrictSubsetOrderingWellFounded
<1>4. PICK T \in Segments : \A U \in Segments : <<U, T>> \notin R
  <2> HIDE DEF R, Segments
  <2> QED BY <1>1, <1>2, <1>3, WFMin
<1>5. PICK x \in S : T = Above(x)
  OBVIOUS
<1>6. Above(x) = {}
  <2>1. SUFFICES ASSUME NEW y \in Above(x) PROVE FALSE
    OBVIOUS
  <2>2. Above(y) \subseteq Above(x) /\ Above(y) # Above(x)
    <3>1. y \in S /\ y \in Nat /\ x \in Nat /\ y > x
      OBVIOUS
    <3>2. \A z \in Above(y) : z \in S /\ z \in Nat /\ z > x
      BY <3>1
    <3>3. y \in Above(x) /\ y \notin Above(y)
      BY <3>1
    <3> QED BY <3>2, <3>3
  <2>3. Above(y) \in SUBSET S /\ Above(x) \in SUBSET S /\ y \in S
    OBVIOUS
  <2>4. <<Above(y), Above(x)>> \in R
    BY <2>2, <2>3 DEF StrictSubsetOrdering
  <2> QED BY <2>3, <2>4, <1>4, <1>5
<1> QED BY <1>6

(* The id that Highest picks bounds the ids of the table.                  *)
LEMMA HighestIsBound ==
    ASSUME NEW S, IsFiniteSet(S), S \subseteq Nat \ {0}
    PROVE  Highest(S) \in Nat /\ \A i \in S : i <= Highest(S)
<1>1. \E n \in S \cup {0} : \A i \in S : i <= n
  <2>1. CASE S = {}
    BY <2>1
  <2>2. CASE S # {}
    BY <2>2, LargestExists
  <2> QED BY <2>1, <2>2
<1>2. Highest(S) \in S \cup {0} /\ \A i \in S : i <= Highest(S)
  BY <1>1, Zenon DEF Highest
<1>3. S \cup {0} \subseteq Nat
  OBVIOUS
<1> QED BY <1>2, <1>3

(* The id SQLite gives to the next row is the id of no row of the table.   *)
LEMMA NextIdIsFresh ==
    ASSUME NEW S, IsFiniteSet(S), S \subseteq Nat \ {0}
    PROVE  NextId(S) \in Nat \ {0} /\ NextId(S) \notin S
<1>1. Highest(S) \in Nat /\ \A i \in S : i <= Highest(S)
  BY HighestIsBound
<1> QED BY <1>1 DEF NextId

-----------------------------------------------------------------------------
(* The inductive invariant.                                                *)

(* A finding carries the pair of its bucket, and no two buckets carry the  *)
(* same pair (UNIQUE(guilty_pass, bisect_index)).                          *)
KeysAgree ==
    /\ \A f \in DOMAIN findings : findings[f].key = buckets[findings[f].bucket].key
    /\ \A b, d \in DOMAIN buckets : buckets[b].key = buckets[d].key => b = d

TablesOK ==
    /\ RowsOK
    /\ KeysAgree
    /\ CountsAgree
    /\ NoDanglingReference
    /\ RepresentativeIsMember

IInv == TablesOK /\ RequestsOK

(* The empty database satisfies the invariant.                             *)
LEMMA InitInv == Init => IInv
<1> SUFFICES ASSUME Init PROVE IInv
  OBVIOUS
<1>1. /\ DOMAIN findings = {} /\ DOMAIN buckets = {}
      /\ DOMAIN subClusters = {} /\ DOMAIN assigned = {}
  BY DEF Init
<1>2. RowsOK
  BY <1>1, FS_EmptySet DEF Init, RowsOK, Ids
<1>3. KeysAgree /\ CountsAgree /\ NoDanglingReference /\ RepresentativeIsMember
  BY <1>1 DEF KeysAgree, CountsAgree, NoDanglingReference, RepresentativeIsMember
<1>4. RequestsOK
  BY DEF Init, RequestsOK, WellFormed
<1> QED BY <1>2, <1>3, <1>4 DEF IInv, TablesOK

(* What a process holds stays about existing rows while the tables grow:   *)
(* no command deletes a finding or a bucket or moves a finding.            *)
LEMMA RequestStaysWellFormed ==
    ASSUME RequestsOK, NEW c \in Clients, cli'[c] = cli[c],
           DOMAIN buckets \subseteq DOMAIN buckets',
           DOMAIN findings \subseteq DOMAIN findings',
           \A f \in DOMAIN findings : findings'[f].bucket = findings[f].bucket
    PROVE  WellFormed(cli[c])'
<1>1. WellFormed(cli[c])
  BY DEF RequestsOK
<1>2. CASE cli[c] = Idle
  BY <1>2 DEF WellFormed
<1>3. CASE cli[c].op = "record"
  <2> DEFINE b == cli[c].bucket
  <2>1. InBucket(b) \subseteq InBucket(b)'
    BY DEF InBucket
  <2>2. Clusters(InBucket(b)) \subseteq Clusters(InBucket(b))'
    BY <2>1 DEF Clusters
  <2>3. cli[c].payload \in Seq(Clusters(InBucket(b)))
    BY <1>1, <1>3 DEF WellFormed, Idle
  <2>4. cli[c].payload \in Seq(Clusters(InBucket(b))')
    BY <2>2, <2>3, SeqMonotonic
  <2> QED BY <1>1, <1>3, <2>4 DEF WellFormed, Idle
<1>4. CASE cli[c].op \in {"targets", "assign"}
  BY <1>1, <1>4 DEF WellFormed, Idle
<1> QED BY <1>1, <1>2, <1>3, <1>4 DEF WellFormed

(* A step that leaves the tables alone and changes only the request of one *)
(* process keeps the invariant if the new request is well-formed.          *)
LEMMA RequestStepInv ==
    ASSUME IInv, UNCHANGED db, NEW c \in Clients,
           cli' = [cli EXCEPT ![c] = cli'[c]], WellFormed(cli[c])'
    PROVE  IInv'
<1>1. TablesOK'
  <2>1. /\ findings' = findings /\ buckets' = buckets
        /\ subClusters' = subClusters /\ assigned' = assigned
    BY DEF db
  <2>2. RowsOK' /\ KeysAgree' /\ NoDanglingReference'
    BY <2>1 DEF IInv, TablesOK, RowsOK, Ids, KeysAgree, NoDanglingReference
  <2>3. CountsAgree'
    BY <2>1 DEF IInv, TablesOK, CountsAgree, InBucket
  <2>4. RepresentativeIsMember'
    BY <2>1 DEF IInv, TablesOK, RepresentativeIsMember, InBucket
  <2> QED BY <2>2, <2>3, <2>4 DEF TablesOK
<1>2. \A d \in Clients \ {c} : cli'[d] = cli[d]
  BY DEF IInv, RequestsOK
<1>3. \A d \in Clients : WellFormed(cli[d])'
  BY <1>2, RequestStaysWellFormed DEF IInv, db
<1>4. cli' = [d \in Clients |-> cli'[d]]
  BY DEF IInv, RequestsOK
<1> QED BY <1>1, <1>3, <1>4 DEF IInv, RequestsOK

(* A process that ends, by a rollback or a crash, holds nothing.           *)
LEMMA FinishInv ==
    ASSUME IInv, UNCHANGED db, NEW c \in Clients, Finish(c)
    PROVE  IInv'
<1>1. cli'[c] = Idle
  BY DEF Finish, IInv, RequestsOK
<1>2. WellFormed(cli[c])'
  BY <1>1 DEF WellFormed
<1> QED BY <1>1, <1>2, RequestStepInv DEF Finish

(* A payload that record-sub-clusters has accepted is a list of clusters   *)
(* of findings of the bucket.                                              *)
LEMMA RecordCheckInv ==
    ASSUME IInv, NEW c \in Clients, NEW b \in DOMAIN buckets,
           NEW replace \in BOOLEAN, RecordCheck(c, b, replace)
    PROVE  IInv'
<1>1. PICK p \in Payloads(IF replace THEN InBucket(b) ELSE Untriaged(b)) :
         cli' = [cli EXCEPT ![c] = [op |-> "record", bucket |-> b,
                                    replace |-> replace, payload |-> p]]
  BY DEF RecordCheck
<1>2. UNCHANGED db
  BY DEF RecordCheck
<1>3. cli'[c] = [op |-> "record", bucket |-> b, replace |-> replace, payload |-> p]
  BY <1>1 DEF IInv, RequestsOK
<1>4. Clusters(IF replace THEN InBucket(b) ELSE Untriaged(b))
        \subseteq Clusters(InBucket(b))
  BY DEF Untriaged, Clusters
<1>5. /\ p \in Seq(Clusters(InBucket(b)))
      /\ \A i, j \in DOMAIN p : i # j => p[i].members \cap p[j].members = {}
  <2>1. PICK n \in 0..MaxClusters :
          p \in [1..n -> Clusters(IF replace THEN InBucket(b) ELSE Untriaged(b))]
    BY DEF Payloads
  <2>2. p \in [1..n -> Clusters(InBucket(b))] /\ n \in Nat
    BY <2>1, <1>4, BoundAssumption
  <2>3. p \in Seq(Clusters(InBucket(b)))
    BY <2>2, SeqDef
  <2> QED BY <2>3 DEF Payloads
<1>6. InBucket(b)' = InBucket(b) /\ b \in DOMAIN buckets'
  BY <1>2 DEF InBucket, db
<1>7. p \in Seq(Clusters(InBucket(b))')
  BY <1>5, <1>6 DEF Clusters
<1>8. WellFormed(cli[c])'
  BY <1>3, <1>5, <1>6, <1>7 DEF WellFormed
<1> QED BY <1>1, <1>2, <1>3, <1>8, RequestStepInv

(* A map that assign-existing is checking names findings that exist.       *)
LEMMA AssignChecksInv ==
    ASSUME IInv, NEW c \in Clients,
           AssignCheckTargets(c) \/ AssignCheckFindings(c)
    PROVE  IInv'
<1>1. CASE AssignCheckTargets(c)
  <2>0. PICK F \in SUBSET DOMAIN findings :
          \E to \in [F -> DOMAIN subClusters] :
            cli' = [cli EXCEPT ![c] = [op |-> "targets", to |-> to]]
    BY <1>1 DEF AssignCheckTargets
  <2>1. PICK to \in [F -> DOMAIN subClusters] :
          cli' = [cli EXCEPT ![c] = [op |-> "targets", to |-> to]]
    BY <2>0
  <2>2. UNCHANGED db
    BY <1>1 DEF AssignCheckTargets
  <2>3. cli'[c] = [op |-> "targets", to |-> to]
    BY <2>1 DEF IInv, RequestsOK
  <2>4. DOMAIN to = F /\ \A f \in F : to[f] \in Nat \ {0}
    BY <2>1 DEF IInv, TablesOK, RowsOK, Ids
  <2>5. WellFormed(cli[c])'
    BY <2>1, <2>2, <2>3, <2>4 DEF WellFormed, db
  <2> QED BY <2>1, <2>2, <2>3, <2>5, RequestStepInv
<1>2. CASE AssignCheckFindings(c)
  <2>1. UNCHANGED db /\ cli[c].op = "targets"
    BY <1>2 DEF AssignCheckFindings
  <2>2. WellFormed(cli[c])
    BY DEF IInv, RequestsOK
  <2>3. cli' = [cli EXCEPT ![c] = cli'[c]]
    BY <1>2 DEF AssignCheckFindings, IInv, RequestsOK
  <2>4. cli'[c] \in {[op |-> "assign", to |-> cli[c].to], Idle}
    BY <1>2 DEF AssignCheckFindings, IInv, RequestsOK
  <2>5. WellFormed(cli[c])'
    BY <2>1, <2>2, <2>4 DEF WellFormed, Idle, db
  <2> QED BY <2>1, <2>3, <2>5, RequestStepInv
<1> QED BY <1>1, <1>2

-----------------------------------------------------------------------------
(* Registration.                                                           *)

(* BucketFor finds the one bucket of the pair, or takes a fresh id when no *)
(* bucket has it.                                                          *)
LEMMA BucketForKey ==
    ASSUME TablesOK, NEW key
    PROVE  /\ BucketFor(key) \in Nat \ {0}
           /\ BucketFor(key) \in DOMAIN buckets => buckets[BucketFor(key)].key = key
           /\ BucketFor(key) \notin DOMAIN buckets =>
                \A b \in DOMAIN buckets : buckets[b].key # key
<1>1. IsFiniteSet(DOMAIN buckets) /\ DOMAIN buckets \subseteq Nat \ {0}
  BY DEF TablesOK, RowsOK, Ids
<1>2. CASE \E b \in DOMAIN buckets : buckets[b].key = key
  <2>1. BucketFor(key) \in DOMAIN buckets /\ buckets[BucketFor(key)].key = key
    BY <1>2 DEF BucketFor
  <2> QED BY <1>1, <2>1
<1>3. CASE ~ \E b \in DOMAIN buckets : buckets[b].key = key
  <2>1. BucketFor(key) = NextId(DOMAIN buckets)
    BY <1>3 DEF BucketFor
  <2> QED BY <1>1, <1>3, <2>1, NextIdIsFresh
<1> QED BY <1>2, <1>3

(* One registration keeps the invariant: the new finding and its bucket    *)
(* agree, and the bucket's count grows by the finding it received.         *)
LEMMA RegisterInv ==
    ASSUME IInv, NEW key \in Keys, NEW hash \in Hashes, NEW path \in Paths,
           Register(key, hash, path)
    PROVE  IInv'
<1>a. PICK b : b = BucketFor(key)
  OBVIOUS
<1>b. PICK f : f = NextId(DOMAIN findings)
  OBVIOUS
<1> DEFINE row == [hash |-> hash, key |-> key, path |-> path, bucket |-> b,
                   fresh |-> NewInstance(key, hash)]
           brow == IF b \in DOMAIN buckets THEN Counted(b) ELSE NewBucket(key, f)
<1>0. TablesOK /\ RequestsOK
  BY DEF IInv
<1>1. /\ findings' = Put(findings, f, row)
      /\ buckets' = Put(buckets, b, brow)
      /\ subClusters' = subClusters /\ assigned' = assigned /\ cli' = cli
  BY <1>a, <1>b DEF Register
<1>2. f \in Nat \ {0} /\ f \notin DOMAIN findings
  BY <1>0, <1>b, NextIdIsFresh DEF TablesOK, RowsOK, Ids
<1>3. /\ b \in Nat \ {0}
      /\ b \in DOMAIN buckets => buckets[b].key = key
      /\ b \notin DOMAIN buckets => \A d \in DOMAIN buckets : buckets[d].key # key
  BY <1>0, <1>a, BucketForKey
<1>4. NewInstance(key, hash) \in BOOLEAN
  BY DEF NewInstance
<1>5. /\ DOMAIN findings' = DOMAIN findings \cup {f}
      /\ findings'[f] = row
      /\ \A g \in DOMAIN findings : findings'[g] = findings[g]
  BY <1>1, <1>2 DEF Put
<1>6. /\ DOMAIN buckets' = DOMAIN buckets \cup {b}
      /\ buckets'[b] = brow
      /\ \A d \in DOMAIN buckets \ {b} : buckets'[d] = buckets[d]
  BY <1>1 DEF Put
<1>7. /\ row \in FindingRows
      /\ row.key = key /\ row.bucket = b
  BY <1>3, <1>4 DEF FindingRows
<1>8. /\ brow \in BucketRows /\ brow.key = key
      /\ b \in DOMAIN buckets =>
           brow.count = buckets[b].count + 1 /\ brow.rep = buckets[b].rep
      /\ b \notin DOMAIN buckets => brow.count = 1 /\ brow.rep = f
  <2>1. CASE b \in DOMAIN buckets
    <3>1. buckets[b] \in BucketRows /\ brow = Counted(b)
      BY <1>0, <2>1 DEF TablesOK, RowsOK
    <3> QED BY <1>3, <2>1, <3>1 DEF BucketRows, Counted
  <2>2. CASE b \notin DOMAIN buckets
    BY <1>2, <2>2 DEF BucketRows, NewBucket
  <2> QED BY <2>1, <2>2
<1> HIDE DEF row, brow
<1>9. RowsOK'
  <2>1. /\ IsFiniteSet(DOMAIN findings \cup {f})
        /\ IsFiniteSet(DOMAIN buckets \cup {b})
    BY <1>0, FS_AddElement DEF TablesOK, RowsOK, Ids
  <2>2. Ids(findings)' /\ Ids(buckets)'
    BY <1>0, <1>2, <1>3, <1>5, <1>6, <2>1 DEF TablesOK, RowsOK, Ids
  <2>3. (findings \in [DOMAIN findings -> FindingRows])'
    BY <1>0, <1>1, <1>5, <1>7 DEF TablesOK, RowsOK, Put
  <2>4. (buckets \in [DOMAIN buckets -> BucketRows])'
    BY <1>0, <1>1, <1>6, <1>8 DEF TablesOK, RowsOK, Put
  <2> QED BY <1>0, <1>1, <2>2, <2>3, <2>4 DEF TablesOK, RowsOK, Ids
<1>10. KeysAgree'
  <2>1. \A d \in DOMAIN buckets : buckets'[d].key = buckets[d].key
    BY <1>3, <1>6, <1>8
  <2>2. \A g \in DOMAIN findings : findings[g].bucket \in DOMAIN buckets
    BY <1>0 DEF TablesOK, NoDanglingReference
  <2>3. \A g \in DOMAIN findings' :
          findings'[g].key = buckets'[findings'[g].bucket].key
    BY <1>0, <1>5, <1>6, <1>7, <1>8, <2>1, <2>2 DEF TablesOK, KeysAgree
  <2>4. ASSUME NEW d \in DOMAIN buckets', NEW e \in DOMAIN buckets',
               buckets'[d].key = buckets'[e].key
        PROVE  d = e
    BY <1>0, <1>3, <1>6, <1>8, <2>1, <2>4 DEF TablesOK, KeysAgree
  <2> QED BY <2>3, <2>4 DEF KeysAgree
<1>11. /\ InBucket(b)' = InBucket(b) \cup {f}
       /\ \A d : d # b => InBucket(d)' = InBucket(d)
  <2>1. \A d, g : g \in DOMAIN findings' /\ findings'[g].bucket = d
                    <=> (g \in DOMAIN findings /\ findings[g].bucket = d)
                          \/ (g = f /\ d = b)
    BY <1>2, <1>5, <1>7
  <2>2. InBucket(b)' = InBucket(b) \cup {f}
    BY <2>1 DEF InBucket
  <2>3. ASSUME NEW d, d # b PROVE InBucket(d)' = InBucket(d)
    BY <2>1, <2>3 DEF InBucket
  <2> QED BY <2>2, <2>3
<1>12. CountsAgree'
  <2>1. \A d : IsFiniteSet(InBucket(d)) /\ f \notin InBucket(d)
    BY <1>0, <1>2, FS_Subset DEF InBucket, TablesOK, RowsOK, Ids
  <2>2. ASSUME NEW d \in DOMAIN buckets, d # b
        PROVE  /\ buckets'[d].count = Cardinality(InBucket(d)')
               /\ buckets'[d].rep \in InBucket(d)'
    BY <1>0, <1>6, <1>11, <2>2 DEF TablesOK, CountsAgree
  <2>3. Cardinality(InBucket(b) \cup {f}) = Cardinality(InBucket(b)) + 1
    BY <2>1, FS_AddElement
  <2>4. b \notin DOMAIN buckets => InBucket(b) = {}
    BY <1>0 DEF TablesOK, NoDanglingReference, InBucket
  <2>5. /\ buckets'[b].count = Cardinality(InBucket(b) \cup {f})
        /\ buckets'[b].rep \in InBucket(b) \cup {f}
    <3>1. CASE b \in DOMAIN buckets
      BY <1>0, <1>6, <1>8, <2>3, <3>1 DEF TablesOK, CountsAgree
    <3>2. CASE b \notin DOMAIN buckets
      BY <1>6, <1>8, <2>3, <2>4, <3>2, FS_EmptySet
    <3> QED BY <3>1, <3>2
  <2>6. ASSUME NEW d \in DOMAIN buckets'
        PROVE  /\ buckets'[d].count = Cardinality(InBucket(d)')
               /\ buckets'[d].rep \in InBucket(d)'
    <3>1. CASE d = b
      BY <1>11, <2>5, <3>1
    <3>2. CASE d # b
      BY <1>6, <2>2, <3>2
    <3> QED BY <3>1, <3>2
  <2> QED BY <2>6 DEF CountsAgree
<1>13. NoDanglingReference'
  BY <1>0, <1>1, <1>5, <1>6, <1>7 DEF TablesOK, NoDanglingReference
<1>14. RepresentativeIsMember'
  <2>1. ASSUME NEW s \in DOMAIN subClusters,
               subClusters[s].rep \in InBucket(subClusters[s].bucket)
        PROVE  subClusters[s].rep \in InBucket(subClusters[s].bucket)'
    BY <1>1, <1>5, <2>1 DEF InBucket
  <2> QED BY <1>0, <1>1, <2>1 DEF TablesOK, RepresentativeIsMember
<1>15. RequestsOK'
  <2>1. \A g \in DOMAIN findings : findings'[g].bucket = findings[g].bucket
    BY <1>5
  <2>2. \A c \in Clients : WellFormed(cli[c])'
    BY <1>0, <1>1, <1>5, <1>6, <2>1, RequestStaysWellFormed
  <2> QED BY <1>0, <1>1, <2>2 DEF RequestsOK
<1> QED BY <1>9, <1>10, <1>12, <1>13, <1>14, <1>15 DEF IInv, TablesOK
-----------------------------------------------------------------------------
(* The two transactions of triage.                                         *)

(* Stamping buckets.triaged_at touches no other column, so what relates    *)
(* buckets and findings stays as it was.                                   *)
LEMMA StampInv ==
    ASSUME TablesOK, findings' = findings, DOMAIN buckets' = DOMAIN buckets,
           buckets' = [b \in DOMAIN buckets |->
               [buckets[b] EXCEPT !.triaged = buckets'[b].triaged]],
           \A b \in DOMAIN buckets : buckets'[b].triaged \in BOOLEAN
    PROVE  /\ Ids(buckets)' /\ buckets' \in [DOMAIN buckets' -> BucketRows]
           /\ KeysAgree' /\ CountsAgree'
<1>1. ASSUME NEW b \in DOMAIN buckets
      PROVE  /\ buckets'[b] \in BucketRows
             /\ buckets'[b].key = buckets[b].key
             /\ buckets'[b].count = buckets[b].count
             /\ buckets'[b].rep = buckets[b].rep
  <2>1. buckets[b] \in BucketRows
    BY DEF TablesOK, RowsOK
  <2>2. buckets'[b] = [buckets[b] EXCEPT !.triaged = buckets'[b].triaged]
    BY Zenon
  <2> QED BY <2>1, <2>2 DEF BucketRows
<1>2. Ids(buckets)' /\ buckets' \in [DOMAIN buckets' -> BucketRows]
  BY <1>1 DEF TablesOK, RowsOK, Ids
<1>3. KeysAgree'
  BY <1>1 DEF TablesOK, KeysAgree, NoDanglingReference
<1>4. CountsAgree'
  BY <1>1, SMTT(20) DEF TablesOK, CountsAgree, InBucket
<1> QED BY <1>2, <1>3, <1>4

(* When a process commits, the requests of the others stay well-formed.    *)
LEMMA CommitRequests ==
    ASSUME RequestsOK, NEW c \in Clients, Finish(c), findings' = findings,
           DOMAIN buckets' = DOMAIN buckets
    PROVE  RequestsOK'
<1>1. cli'[c] = Idle /\ \A d \in Clients \ {c} : cli'[d] = cli[d]
  BY DEF Finish, RequestsOK
<1>2. WellFormed(cli[c])'
  BY <1>1 DEF WellFormed
<1>3. \A d \in Clients \ {c} : WellFormed(cli[d])'
  BY <1>1, RequestStaysWellFormed
<1>4. cli' = [d \in Clients |-> cli'[d]]
  BY DEF Finish, RequestsOK
<1> QED BY <1>2, <1>3, <1>4 DEF RequestsOK

(* The transaction of record-sub-clusters keeps the invariant: the new     *)
(* rows take ids no kept row has, and their members were free.             *)
LEMMA RecordCommitInv ==
    ASSUME IInv, NEW c \in Clients, RecordCommit(c)
    PROVE  IInv'
<1>0. TablesOK /\ RequestsOK
  BY DEF IInv
<1>a. PICK r : r = cli[c]
  OBVIOUS
<1>b. PICK p : p = r.payload
  OBVIOUS
<1>c. PICK h : h = Highest(Kept(r))
  OBVIOUS
<1>d. PICK bkt : bkt = r.bucket
  OBVIOUS
<1>1. /\ r.op = "record"
      /\ Members(p) \cap KeptAssigned(r) = {}
      /\ subClusters' = SubClustersAfter(r)
      /\ assigned' = AssignedAfter(r)
      /\ buckets' = StampIfCovered(bkt)
      /\ findings' = findings
      /\ Finish(c)
  BY <1>a, <1>b, <1>d DEF RecordCommit
<1>2. /\ bkt \in DOMAIN buckets
      /\ p \in Seq(Clusters(InBucket(bkt)))
      /\ \A i, j \in DOMAIN p : i # j => p[i].members \cap p[j].members = {}
  <2>1. WellFormed(cli[c]) /\ cli[c].op = "record"
    BY <1>0, <1>1, <1>a DEF RequestsOK
  <2>2. /\ cli[c].bucket \in DOMAIN buckets
        /\ cli[c].payload \in Seq(Clusters(InBucket(cli[c].bucket)))
        /\ \A i, j \in DOMAIN cli[c].payload :
             i # j => cli[c].payload[i].members \cap cli[c].payload[j].members = {}
    BY <2>1 DEF WellFormed, Idle
  <2> QED BY <2>2, <1>a, <1>b, <1>d
<1>3. PICK n \in Nat : n = Len(p) /\ DOMAIN p = 1..n
  BY <1>2
<1>4. \A i \in 1..n : /\ p[i].rep \in p[i].members
                      /\ p[i].members \subseteq InBucket(bkt)
  <2>1. \A i \in 1..n : p[i] \in Clusters(InBucket(bkt))
    BY <1>2, <1>3, ElementOfSeq
  <2> QED BY <2>1 DEF Clusters
<1>5. Members(p) \subseteq InBucket(bkt) /\ InBucket(bkt) \subseteq DOMAIN findings
  BY <1>3, <1>4 DEF Members, InBucket
<1>6. /\ Kept(r) \subseteq DOMAIN subClusters
      /\ IsFiniteSet(Kept(r)) /\ Kept(r) \subseteq Nat \ {0}
  <2>1. Kept(r) \subseteq DOMAIN subClusters
    BY DEF Kept
  <2> QED BY <1>0, <2>1, FS_Subset DEF TablesOK, RowsOK, Ids
<1>7. h \in Nat /\ \A s \in Kept(r) : s <= h
  BY <1>6, <1>c, HighestIsBound
<1>8. DOMAIN subClusters' = Kept(r) \cup (h+1 .. h+n)
  BY <1>1, <1>3, <1>b, <1>c DEF SubClustersAfter, Inserted
<1>9. /\ \A s \in Kept(r) : subClusters'[s] = subClusters[s]
      /\ \A i \in 1..n : h+i \in DOMAIN subClusters' /\
           subClusters'[h+i] = [bucket |-> bkt, rep |-> p[i].rep]
  <2>1. \A s \in Kept(r) : subClusters'[s] = subClusters[s]
    BY <1>1 DEF SubClustersAfter
  <2>2. ASSUME NEW i \in 1..n
        PROVE  /\ h+i \in DOMAIN subClusters'
               /\ subClusters'[h+i] = [bucket |-> bkt, rep |-> p[i].rep]
    <3>1. h+i \in h+1 .. h+n /\ h+i \notin Kept(r) /\ (h+i) - h = i
      BY <1>7
    <3>2. subClusters'[h+i] = [bucket |-> bkt, rep |-> p[(h+i) - h].rep]
      BY <1>1, <1>3, <1>b, <1>c, <1>d, <3>1 DEF SubClustersAfter, Inserted
    <3> QED BY <1>8, <3>1, <3>2
  <2> QED BY <2>1, <2>2
<1>10. \A s \in h+1 .. h+n : \E i \in 1..n :
          /\ s = h+i
          /\ subClusters'[s].bucket = bkt /\ subClusters'[s].rep = p[i].rep
  <2>1. ASSUME NEW s \in h+1 .. h+n
        PROVE  \E i \in 1..n :
                 /\ s = h+i
                 /\ subClusters'[s].bucket = bkt /\ subClusters'[s].rep = p[i].rep
    <3>1. s - h \in 1..n /\ s = h + (s - h)
      BY <1>7
    <3>2. PICK i \in 1..n : s = h + i
      BY <3>1
    <3>3. subClusters'[s] = [bucket |-> bkt, rep |-> p[i].rep]
      BY <1>9, <3>2
    <3> QED BY <3>2, <3>3
  <2> QED BY <2>1
<1>11. /\ DOMAIN assigned' = KeptAssigned(r) \cup Members(p)
       /\ \A f \in KeptAssigned(r) :
            /\ f \in DOMAIN assigned /\ assigned[f] \in Kept(r)
            /\ assigned'[f] = assigned[f]
  <2>1. \A f \in KeptAssigned(r) : f \in DOMAIN assigned /\ assigned[f] \in Kept(r)
    BY <1>0 DEF KeptAssigned, Kept, TablesOK, NoDanglingReference
  <2>2. \A f \in KeptAssigned(r) : f \notin Members(p)
    BY <1>1
  <2> QED BY <1>1, <1>b, <2>1, <2>2 DEF AssignedAfter
<1>12. \A i \in 1..n : \A f \in p[i].members :
          f \in Members(p) /\ assigned'[f] = h+i
  <2>1. ASSUME NEW i \in 1..n, NEW f \in p[i].members
        PROVE  f \in Members(p) /\ assigned'[f] = h+i
    <3>1. f \in Members(p)
      BY <1>3 DEF Members
    <3>2. (CHOOSE j \in DOMAIN p : f \in p[j].members) = i
      BY <1>2, <1>3
    <3> QED BY <1>1, <1>b, <1>c, <3>1, <3>2 DEF AssignedAfter
  <2> QED BY <2>1
<1>13. \A f \in Members(p) : \E i \in 1..n : f \in p[i].members
  BY <1>3 DEF Members
<1>14. /\ Ids(buckets)' /\ buckets' \in [DOMAIN buckets' -> BucketRows]
       /\ KeysAgree' /\ CountsAgree' /\ DOMAIN buckets' = DOMAIN buckets
  <2>1. CASE buckets' = buckets
    <3>1. KeysAgree' /\ CountsAgree'
      <4>1. KeysAgree'
        BY <1>0, <1>1, <2>1 DEF TablesOK, KeysAgree
      <4>2. CountsAgree'
        BY <1>0, <1>1, <2>1 DEF TablesOK, CountsAgree, InBucket
      <4> QED BY <4>1, <4>2
    <3> QED BY <1>0, <2>1, <3>1 DEF TablesOK, RowsOK, Ids
  <2>2. CASE buckets' = [buckets EXCEPT ![bkt].triaged = TRUE]
    <3>1. /\ DOMAIN buckets' = DOMAIN buckets
          /\ \A b \in DOMAIN buckets : buckets[b] \in BucketRows
      BY <1>0, <2>2 DEF TablesOK, RowsOK
    <3>2. \A b \in DOMAIN buckets :
             buckets'[b] = [buckets[b] EXCEPT !.triaged = buckets'[b].triaged]
               /\ buckets'[b].triaged \in BOOLEAN
      BY <2>2, <3>1 DEF BucketRows
    <3>3. buckets' = [b \in DOMAIN buckets |-> buckets'[b]]
      BY <2>2
    <3> QED BY <1>0, <1>1, <3>1, <3>2, <3>3, StampInv
  <2> QED BY <1>1, <2>1, <2>2 DEF StampIfCovered
<1>15. RowsOK'
  <2>1. Ids(subClusters)'
    <3>1. IsFiniteSet(h+1 .. h+n)
      BY <1>7, FS_Interval
    <3>2. IsFiniteSet(DOMAIN subClusters')
      BY <1>6, <1>8, <3>1, FS_Union
    <3>3. DOMAIN subClusters' \subseteq Nat \ {0}
      BY <1>6, <1>7, <1>8
    <3> QED BY <3>2, <3>3 DEF Ids
  <2>2. (subClusters \in [DOMAIN subClusters -> SubClusterRows])'
    <3>1. \A s \in Kept(r) : subClusters'[s] \in SubClusterRows
      BY <1>0, <1>6, <1>9 DEF TablesOK, RowsOK
    <3>2. \A i \in 1..n : p[i].rep \in Nat \ {0}
      BY <1>0, <1>4, <1>5 DEF TablesOK, RowsOK, Ids
    <3>3. bkt \in Nat \ {0}
      BY <1>0, <1>2 DEF TablesOK, RowsOK, Ids
    <3>4. ASSUME NEW s \in h+1 .. h+n
          PROVE  subClusters'[s] \in SubClusterRows
      <4>1. PICK i \in 1..n : s = h+i
        BY <1>10
      <4>2. subClusters'[s] = [bucket |-> bkt, rep |-> p[i].rep]
        BY <1>9, <4>1
      <4> QED BY <3>2, <3>3, <4>2 DEF SubClusterRows
    <3>5. subClusters' = [s \in DOMAIN subClusters' |-> subClusters'[s]]
      BY <1>1 DEF SubClustersAfter
    <3> QED BY <1>8, <3>1, <3>4, <3>5
  <2>3. Ids(assigned)'
    <3>1. DOMAIN assigned' \subseteq DOMAIN findings
      BY <1>0, <1>5, <1>11 DEF TablesOK, NoDanglingReference
    <3> QED BY <1>0, <3>1, FS_Subset DEF TablesOK, RowsOK, Ids
  <2>4. (assigned \in [DOMAIN assigned -> Nat \ {0}])'
    <3>1. \A f \in KeptAssigned(r) : assigned'[f] \in Nat \ {0}
      BY <1>6, <1>11
    <3>2. \A f \in Members(p) : assigned'[f] \in Nat \ {0}
      BY <1>7, <1>12, <1>13
    <3>3. assigned' = [f \in DOMAIN assigned' |-> assigned'[f]]
      BY <1>1 DEF AssignedAfter
    <3> QED BY <1>11, <3>1, <3>2, <3>3
  <2> QED BY <1>0, <1>1, <1>14, <2>1, <2>2, <2>3, <2>4 DEF TablesOK, RowsOK, Ids
<1>16. NoDanglingReference'
  <2>1. ASSUME NEW s \in DOMAIN subClusters'
        PROVE  subClusters'[s].bucket \in DOMAIN buckets
                 /\ subClusters'[s].rep \in DOMAIN findings
    <3>1. CASE s \in Kept(r)
      BY <1>0, <1>6, <1>9, <3>1 DEF TablesOK, NoDanglingReference
    <3>2. CASE s \in h+1 .. h+n
      BY <1>2, <1>4, <1>5, <1>10, <3>2
    <3> QED BY <1>8, <3>1, <3>2
  <2>2. ASSUME NEW f \in DOMAIN assigned'
        PROVE  f \in DOMAIN findings /\ assigned'[f] \in DOMAIN subClusters'
    <3>1. CASE f \in KeptAssigned(r)
      BY <1>0, <1>8, <1>11, <3>1 DEF TablesOK, NoDanglingReference
    <3>2. CASE f \in Members(p)
      BY <1>5, <1>9, <1>12, <1>13, <3>2
    <3> QED BY <1>11, <3>1, <3>2
  <2> QED BY <1>0, <1>1, <1>14, <2>1, <2>2 DEF TablesOK, NoDanglingReference
<1>17. RepresentativeIsMember'
  <2>1. ASSUME NEW s \in DOMAIN subClusters'
        PROVE  /\ subClusters'[s].rep \in InBucket(subClusters'[s].bucket)
               /\ subClusters'[s].rep \in DOMAIN assigned'
               /\ assigned'[subClusters'[s].rep] = s
    <3>1. CASE s \in Kept(r)
      <4>1. /\ subClusters[s].rep \in InBucket(subClusters[s].bucket)
            /\ subClusters[s].rep \in DOMAIN assigned
            /\ assigned[subClusters[s].rep] = s
        BY <1>0, <1>6, <3>1 DEF TablesOK, RepresentativeIsMember
      <4>2. subClusters[s].rep \in KeptAssigned(r)
        BY <3>1, <4>1 DEF KeptAssigned, Kept
      <4> QED BY <1>9, <1>11, <3>1, <4>1, <4>2
    <3>2. CASE s \in h+1 .. h+n
      <4>1. PICK i \in 1..n :
              /\ s = h+i
              /\ subClusters'[s].bucket = bkt /\ subClusters'[s].rep = p[i].rep
        BY <1>10, <3>2
      <4>2. p[i].rep \in p[i].members /\ p[i].rep \in InBucket(bkt)
        BY <1>4
      <4> QED BY <1>11, <1>12, <4>1, <4>2
    <3> QED BY <1>8, <3>1, <3>2
  <2> QED BY <1>1, <2>1 DEF RepresentativeIsMember, InBucket
<1>18. RequestsOK'
  BY <1>0, <1>1, <1>14, CommitRequests
<1> QED BY <1>14, <1>15, <1>16, <1>17, <1>18 DEF IInv, TablesOK

(* The transaction of assign-existing keeps the invariant: only findings   *)
(* without a sub-cluster get one, and it exists.                           *)
LEMMA AssignCommitInv ==
    ASSUME IInv, NEW c \in Clients, AssignCommit(c)
    PROVE  IInv'
<1>0. TablesOK /\ RequestsOK
  BY DEF IInv
<1>a. PICK to : to = cli[c].to
  OBVIOUS
<1>1. /\ cli[c].op = "assign"
      /\ DOMAIN to \cap DOMAIN assigned = {}
      /\ \A f \in DOMAIN to : to[f] \in DOMAIN subClusters
      /\ assigned' = [f \in DOMAIN assigned \cup DOMAIN to |->
                        IF f \in DOMAIN to THEN to[f] ELSE assigned[f]]
      /\ findings' = findings /\ subClusters' = subClusters
      /\ Finish(c)
  BY <1>a DEF AssignCommit, ConstraintsHold
<1>2. DOMAIN to \subseteq DOMAIN findings
  <2>1. WellFormed(cli[c]) /\ cli[c].op = "assign"
    BY <1>0, <1>1 DEF RequestsOK
  <2>2. DOMAIN cli[c].to \subseteq DOMAIN findings
    BY <2>1 DEF WellFormed, Idle
  <2> QED BY <2>2, <1>a
<1>3. /\ \A f \in DOMAIN assigned : assigned'[f] = assigned[f]
      /\ \A f \in DOMAIN to : assigned'[f] = to[f]
      /\ DOMAIN assigned' = DOMAIN assigned \cup DOMAIN to
  BY <1>1
<1>4. NoDanglingReference' /\ DOMAIN assigned' \subseteq DOMAIN findings
  <2>1. DOMAIN buckets' = DOMAIN buckets
    BY DEF AssignCommit
  <2> QED BY <1>0, <1>1, <1>2, <1>3, <2>1 DEF TablesOK, NoDanglingReference
<1>5. Ids(buckets)' /\ buckets' \in [DOMAIN buckets' -> BucketRows]
        /\ KeysAgree' /\ CountsAgree' /\ DOMAIN buckets' = DOMAIN buckets
  <2>1. \A b \in DOMAIN buckets : buckets[b] \in BucketRows
    BY <1>0 DEF TablesOK, RowsOK
  <2>2. /\ DOMAIN buckets' = DOMAIN buckets
        /\ buckets' = [b \in DOMAIN buckets |-> buckets'[b]]
        /\ \A b \in DOMAIN buckets :
             \/ buckets'[b] = buckets[b]
             \/ buckets'[b] = [buckets[b] EXCEPT !.triaged = TRUE]
    BY DEF AssignCommit
  <2>3. \A b \in DOMAIN buckets :
           buckets'[b] = [buckets[b] EXCEPT !.triaged = buckets'[b].triaged]
             /\ buckets'[b].triaged \in BOOLEAN
    BY <2>1, <2>2 DEF BucketRows
  <2>4. buckets' = [b \in DOMAIN buckets |->
                      [buckets[b] EXCEPT !.triaged = buckets'[b].triaged]]
    BY <2>2, <2>3
  <2> QED BY <1>0, <1>1, <2>2, <2>3, <2>4, StampInv
<1>6. RowsOK'
  <2>1. Ids(assigned)'
    BY <1>0, <1>4, FS_Subset DEF TablesOK, RowsOK, Ids
  <2>2. (assigned \in [DOMAIN assigned -> Nat \ {0}])'
    BY <1>0, <1>1, <1>3 DEF TablesOK, RowsOK, Ids
  <2> QED BY <1>0, <1>1, <1>5, <2>1, <2>2 DEF TablesOK, RowsOK, Ids
<1>7. RepresentativeIsMember'
  BY <1>0, <1>1, <1>3 DEF TablesOK, RepresentativeIsMember, InBucket
<1>8. RequestsOK'
  BY <1>0, <1>1, <1>5, CommitRequests
<1> QED BY <1>4, <1>5, <1>6, <1>7, <1>8 DEF IInv, TablesOK

-----------------------------------------------------------------------------
(* Every step keeps the invariant.                                         *)
LEMMA NextInv == IInv /\ [Next]_vars => IInv'
<1> SUFFICES ASSUME IInv, [Next]_vars PROVE IInv'
  OBVIOUS
<1>1. ASSUME NEW key \in Keys, NEW hash \in Hashes, NEW path \in Paths,
             Register(key, hash, path)
      PROVE  IInv'
  BY <1>1, RegisterInv
<1>2. ASSUME NEW c \in Clients, NEW b \in DOMAIN buckets,
             NEW replace \in BOOLEAN, RecordCheck(c, b, replace)
      PROVE  IInv'
  BY <1>2, RecordCheckInv
<1>3. ASSUME NEW c \in Clients, RecordCommit(c) PROVE IInv'
  BY <1>3, RecordCommitInv
<1>4. ASSUME NEW c \in Clients, AssignCheckTargets(c) \/ AssignCheckFindings(c)
      PROVE  IInv'
  BY <1>4, AssignChecksInv
<1>5. ASSUME NEW c \in Clients, AssignCommit(c) PROVE IInv'
  BY <1>5, AssignCommitInv
<1>6. ASSUME NEW c \in Clients, RecordRollback(c) \/ AssignRollback(c) \/ Crash(c)
      PROVE  IInv'
  BY <1>6, FinishInv DEF RecordRollback, AssignRollback, Crash
<1>7. CASE UNCHANGED vars
  <2>1. TablesOK'
    <3>1. /\ findings' = findings /\ buckets' = buckets
          /\ subClusters' = subClusters /\ assigned' = assigned
      BY <1>7 DEF vars
    <3>2. RowsOK' /\ KeysAgree' /\ NoDanglingReference'
      BY <3>1 DEF IInv, TablesOK, RowsOK, Ids, KeysAgree, NoDanglingReference
    <3>3. CountsAgree'
      BY <3>1 DEF IInv, TablesOK, CountsAgree, InBucket
    <3>4. RepresentativeIsMember'
      BY <3>1 DEF IInv, TablesOK, RepresentativeIsMember, InBucket
    <3> QED BY <3>2, <3>3, <3>4 DEF TablesOK
  <2>2. \A c \in Clients : WellFormed(cli[c])'
    BY <1>7, RequestStaysWellFormed DEF IInv, vars
  <2> QED BY <1>7, <2>1, <2>2 DEF IInv, RequestsOK, vars
<1> QED BY <1>1, <1>2, <1>3, <1>4, <1>5, <1>6, <1>7 DEF Next

(* The invariant holds in every reachable state.                           *)
THEOREM Invariance == Spec => []IInv
BY InitInv, NextInv, PTL DEF Spec

(* The tables and the requests of the processes are well-typed: every id   *)
(* maps to a complete row and every request is about rows that exist.      *)
THEOREM TypeCorrect == Spec => []TypeOK
<1>1. IInv => TypeOK
  BY DEF IInv, TablesOK, TypeOK
<1> QED BY <1>1, Invariance, PTL

(* finding_count is the number of findings of the bucket, and the          *)
(* representative is one of them, whatever processes run concurrently.     *)
THEOREM CountsCorrect == Spec => []CountsAgree
<1>1. IInv => CountsAgree
  BY DEF IInv, TablesOK
<1> QED BY <1>1, Invariance, PTL

(* Findings are grouped exactly by the pair (guilty_pass, bisect_index).   *)
THEOREM BucketsCorrect == Spec => []BucketedByBlame
<1>1. IInv => BucketedByBlame
  BY DEF IInv, TablesOK, KeysAgree, NoDanglingReference, BucketedByBlame
<1> QED BY <1>1, Invariance, PTL

(* No --replace, rollback or crash leaves a reference to a deleted row.    *)
THEOREM ReferencesCorrect == Spec => []NoDanglingReference
<1>1. IInv => NoDanglingReference
  BY DEF IInv, TablesOK
<1> QED BY <1>1, Invariance, PTL

(* The representative of every sub-cluster is one of its members.          *)
THEOREM RepresentativesCorrect == Spec => []RepresentativeIsMember
<1>1. IInv => RepresentativeIsMember
  BY DEF IInv, TablesOK
<1> QED BY <1>1, Invariance, PTL

(* An assignment disappears or moves only in a record-sub-clusters         *)
(* --replace of the bucket of its sub-cluster.                             *)
THEOREM ReassignmentsCorrect == Spec => OnlyReplaceReassigns
<1>1. ASSUME IInv, NEW c \in Clients, RecordCommit(c), NEW f \in DOMAIN assigned,
             Moved(f)
      PROVE  ReplaceCommitted(subClusters[assigned[f]].bucket)
  <2> USE DEF Moved, ReplaceCommitted
  <2>0. /\ assigned[f] \in DOMAIN subClusters
        /\ Kept(cli[c]) \subseteq DOMAIN subClusters
    BY <1>1 DEF IInv, TablesOK, NoDanglingReference, Kept
  <2>1. ASSUME f \in KeptAssigned(cli[c]) PROVE FALSE
    <3>1. assigned[f] \in Kept(cli[c])
      BY <2>0, <2>1 DEF KeptAssigned, Kept
    <3>2. subClusters'[assigned[f]] = subClusters[assigned[f]]
      BY <1>1, <3>1 DEF RecordCommit, SubClustersAfter
    <3>3. f \in DOMAIN assigned' /\ assigned'[f] = assigned[f]
      BY <1>1, <2>1 DEF RecordCommit, AssignedAfter
    <3> QED BY <1>1, <3>2, <3>3
  <2>2. assigned[f] \in Deleted(cli[c])
    BY <2>1 DEF KeptAssigned
  <2>3. cli[c].replace /\ subClusters[assigned[f]].bucket = cli[c].bucket
    BY <2>2 DEF Deleted, SubClustersOf
  <2>4. cli'[c] = Idle /\ cli[c].op = "record"
    BY <1>1 DEF RecordCommit, Finish, IInv, RequestsOK
  <2> QED BY <2>3, <2>4
<1>2. ASSUME IInv, NEW c \in Clients, AssignCommit(c), NEW f \in DOMAIN assigned
      PROVE  ~Moved(f)
  BY <1>2 DEF AssignCommit, ConstraintsHold, Moved
<1>3. IInv /\ [Next]_vars => [\A f \in DOMAIN assigned : Moved(f) => ReplaceCommitted(subClusters[assigned[f]].bucket)]_vars
  <2> SUFFICES ASSUME IInv, [Next]_vars, NEW f \in DOMAIN assigned, Moved(f)
               PROVE  ReplaceCommitted(subClusters[assigned[f]].bucket)
    OBVIOUS
  <2>1. ~ UNCHANGED <<subClusters, assigned>>
    BY DEF Moved
  <2>2. \E c \in Clients : RecordCommit(c) \/ AssignCommit(c)
    BY <2>1 DEF Next, vars, db, Register, RecordCheck, RecordRollback,
                AssignCheckTargets, AssignCheckFindings, AssignRollback, Crash
  <2> QED BY <2>2, <1>1, <1>2
<1> QED BY <1>3, Invariance, PTL DEF Spec, OnlyReplaceReassigns
-----------------------------------------------------------------------------
(* Distinct instances.                                                     *)

(* Of the findings of a bucket with one hash exactly one is fresh: the     *)
(* first that was registered.                                              *)
OneIsFresh ==
    \A f \in DOMAIN findings :
        /\ \E g \in DOMAIN findings :
             /\ findings[g].bucket = findings[f].bucket
             /\ findings[g].hash = findings[f].hash
             /\ findings[g].fresh
        /\ \A g \in DOMAIN findings :
             (/\ findings[g].bucket = findings[f].bucket
              /\ findings[g].hash = findings[f].hash
              /\ findings[f].fresh /\ findings[g].fresh) => f = g

(* A registration answers new_instance=1 exactly when no finding of the    *)
(* bucket has its hash.                                                    *)
LEMMA RegisterKeepsOneFresh ==
    ASSUME IInv, OneIsFresh, NEW key \in Keys, NEW hash \in Hashes,
           NEW path \in Paths, Register(key, hash, path)
    PROVE  OneIsFresh'
<1>a. PICK b : b = BucketFor(key)
  OBVIOUS
<1>b. PICK f : f = NextId(DOMAIN findings)
  OBVIOUS
<1>c. PICK fresh : fresh = NewInstance(key, hash)
  OBVIOUS
<1>1. f \notin DOMAIN findings
  BY <1>b, NextIdIsFresh DEF IInv, TablesOK, RowsOK, Ids
<1>2. findings' = Put(findings, f, [hash |-> hash, key |-> key, path |-> path,
                                    bucket |-> b, fresh |-> fresh])
  BY <1>a, <1>b, <1>c DEF Register
<1>3. /\ DOMAIN findings' = DOMAIN findings \cup {f}
      /\ findings'[f].hash = hash /\ findings'[f].bucket = b
      /\ findings'[f].fresh = fresh
      /\ \A g \in DOMAIN findings : findings'[g] = findings[g]
  BY <1>1, <1>2 DEF Put
<1>4. fresh <=> \A g \in DOMAIN findings :
                  findings[g].bucket = b => findings[g].hash # hash
  BY <1>a, <1>c DEF NewInstance, InBucket
<1>5. ASSUME NEW g \in DOMAIN findings'
      PROVE  \E i \in DOMAIN findings' :
               /\ findings'[i].bucket = findings'[g].bucket
               /\ findings'[i].hash = findings'[g].hash
               /\ findings'[i].fresh
  <2>1. CASE g \in DOMAIN findings
    BY <1>3, <2>1 DEF OneIsFresh
  <2>2. CASE g = f /\ fresh
    BY <1>3, <2>2
  <2>3. CASE g = f /\ ~fresh
    <3>1. PICK i \in DOMAIN findings : findings[i].bucket = b /\ findings[i].hash = hash
      BY <1>4, <2>3
    <3>2. PICK j \in DOMAIN findings : /\ findings[j].bucket = b
                                      /\ findings[j].hash = hash
                                      /\ findings[j].fresh
      BY <3>1 DEF OneIsFresh
    <3> QED BY <1>3, <2>3, <3>2
  <2> QED BY <1>3, <2>1, <2>2, <2>3
<1>6. ASSUME NEW g \in DOMAIN findings', NEW i \in DOMAIN findings',
             findings'[i].bucket = findings'[g].bucket,
             findings'[i].hash = findings'[g].hash,
             findings'[g].fresh, findings'[i].fresh
      PROVE  g = i
  BY <1>1, <1>3, <1>4, <1>6 DEF OneIsFresh
<1> QED BY <1>5, <1>6 DEF OneIsFresh

(* No other command touches the findings.                                  *)
LEMMA NextKeepsOneFresh == IInv /\ OneIsFresh /\ [Next]_vars => OneIsFresh'
<1> SUFFICES ASSUME IInv, OneIsFresh, [Next]_vars PROVE OneIsFresh'
  OBVIOUS
<1>1. CASE \E key \in Keys, hash \in Hashes, path \in Paths : Register(key, hash, path)
  BY <1>1, RegisterKeepsOneFresh
<1>2. CASE findings' = findings
  BY <1>2 DEF OneIsFresh
<1> QED BY <1>1, <1>2 DEF Next, vars, db, RecordCheck, RecordCommit, RecordRollback,
                          AssignCheckTargets, AssignCheckFindings, AssignCommit,
                          AssignRollback, Crash

(* The fresh findings of a bucket and its hashes correspond one to one.    *)
LEMMA FreshCountsHashes ==
    ASSUME RowsOK, OneIsFresh, NEW b
    PROVE  Cardinality({f \in InBucket(b) : findings[f].fresh})
             = Cardinality({findings[f].hash : f \in InBucket(b)})
<1> DEFINE F == {f \in InBucket(b) : findings[f].fresh}
           H == {findings[f].hash : f \in InBucket(b)}
           hashOf == [f \in F |-> findings[f].hash]
<1>1. IsFiniteSet(F)
  BY FS_Subset DEF InBucket, RowsOK, Ids
<1>2. hashOf \in [F -> H]
  OBVIOUS
<1>3. \A f, g \in F : hashOf[f] = hashOf[g] => f = g
  BY DEF OneIsFresh, InBucket
<1>4. \A x \in H : \E f \in F : hashOf[f] = x
  BY DEF OneIsFresh, InBucket
<1>5. ExistsBijection(F, H)
  <2> HIDE DEF F, H, hashOf
  <2>1. hashOf \in Injection(F, H)
    BY <1>2, <1>3 DEF Injection, IsInjective
  <2>2. hashOf \in Surjection(F, H)
    BY <1>2, <1>4 DEF Surjection
  <2> QED BY <2>1, <2>2 DEF ExistsBijection, Bijection
<1> QED BY <1>1, <1>5, FS_Bijection

(* In every bucket the registrations that answered new_instance=1 are as   *)
(* many as its distinct hashes, whatever processes run concurrently.       *)
THEOREM InstancesCorrect == Spec => []InstancesAgree
<1>1. Init => OneIsFresh
  BY DEF Init, OneIsFresh
<1>2. IInv /\ OneIsFresh => InstancesAgree
  BY FreshCountsHashes DEF IInv, TablesOK, InstancesAgree
<1> QED BY <1>1, <1>2, NextKeepsOneFresh, Invariance, PTL DEF Spec
-----------------------------------------------------------------------------
(* One process at a time.                                                  *)

(* The target an assign-existing has checked is still a sub-cluster of the *)
(* finding's bucket when it commits.                                       *)
TargetsStand ==
    \A c \in Clients :
        cli[c].op \in {"targets", "assign"} =>
            \A f \in DOMAIN cli[c].to :
                /\ f \in DOMAIN findings /\ cli[c].to[f] \in DOMAIN subClusters
                /\ subClusters[cli[c].to[f]].bucket = findings[f].bucket

SerialInv == AssignedInBucket /\ TargetsStand

(* What record-sub-clusters leaves in finding_sub_cluster: assignments it  *)
(* has kept with their sub-cluster, and members of its bucket in new       *)
(* sub-clusters of the bucket.                                             *)
LEMMA RecordEffect ==
    ASSUME IInv, NEW c \in Clients, RecordCommit(c), NEW f \in DOMAIN assigned'
    PROVE  \/ /\ f \in DOMAIN assigned /\ assigned'[f] = assigned[f]
              /\ subClusters'[assigned[f]] = subClusters[assigned[f]]
           \/ /\ f \in InBucket(cli[c].bucket)
              /\ subClusters'[assigned'[f]].bucket = cli[c].bucket
<1>a. PICK r : r = cli[c]
  OBVIOUS
<1>b. PICK p : p = r.payload
  OBVIOUS
<1>c. PICK h : h = Highest(Kept(r))
  OBVIOUS
<1>1. /\ r.op = "record" /\ Members(p) \cap KeptAssigned(r) = {}
      /\ subClusters' = SubClustersAfter(r) /\ assigned' = AssignedAfter(r)
  BY <1>a, <1>b DEF RecordCommit
<1>2. p \in Seq(Clusters(InBucket(r.bucket)))
  <2>1. WellFormed(cli[c]) /\ cli[c].op = "record"
    BY <1>1, <1>a DEF IInv, RequestsOK
  <2> QED BY <2>1, <1>a, <1>b DEF WellFormed, Idle
<1>3. CASE f \in KeptAssigned(r)
  <2>1. f \in DOMAIN assigned /\ assigned[f] \in Kept(r)
    BY <1>3 DEF KeptAssigned, Kept, IInv, TablesOK, NoDanglingReference
  <2>2. f \notin Members(p)
    BY <1>1, <1>3
  <2>3. assigned'[f] = assigned[f]
    BY <1>1, <1>3, <1>b, <2>2 DEF AssignedAfter
  <2>4. subClusters'[assigned[f]] = subClusters[assigned[f]]
    BY <1>1, <2>1 DEF SubClustersAfter
  <2> QED BY <2>1, <2>3, <2>4
<1>4. CASE f \in Members(p)
  <2>1. PICK i \in DOMAIN p : /\ i = (CHOOSE j \in DOMAIN p : f \in p[j].members)
                              /\ f \in p[i].members
    BY <1>4 DEF Members
  <2>2. assigned'[f] = h + i
    BY <1>1, <1>4, <1>b, <1>c, <2>1 DEF AssignedAfter
  <2>3. p[i] \in Clusters(InBucket(r.bucket)) /\ i \in 1..Len(p) /\ Len(p) \in Nat
    BY <1>2, <2>1, ElementOfSeq
  <2>4. h \in Nat /\ \A s \in Kept(r) : s <= h
    <3>1. Kept(r) \subseteq DOMAIN subClusters
      BY DEF Kept
    <3>2. IsFiniteSet(Kept(r)) /\ Kept(r) \subseteq Nat \ {0}
      BY <3>1, FS_Subset DEF IInv, TablesOK, RowsOK, Ids
    <3> QED BY <3>2, <1>c, HighestIsBound
  <2>5. h + i \in h+1 .. h+Len(p) /\ h + i \notin Kept(r)
    BY <2>3, <2>4
  <2>6. subClusters'[h + i].bucket = r.bucket
    BY <1>1, <1>b, <1>c, <2>5 DEF SubClustersAfter, Inserted
  <2> QED BY <1>a, <2>1, <2>2, <2>3, <2>6 DEF Clusters
<1>5. DOMAIN assigned' = KeptAssigned(r) \cup Members(p)
  BY <1>1, <1>b DEF AssignedAfter
<1> QED BY <1>3, <1>4, <1>5

(* With one process nothing comes between its checks and its transaction.  *)
LEMMA SerialNextInv ==
    ASSUME \A c, d \in Clients : c = d
    PROVE  IInv /\ SerialInv /\ [Next]_vars => SerialInv'
<1> SUFFICES ASSUME IInv, SerialInv, [Next]_vars PROVE SerialInv'
  OBVIOUS
<1>0. \A f \in DOMAIN assigned :
         f \in DOMAIN findings /\ assigned[f] \in DOMAIN subClusters
  BY DEF IInv, TablesOK, NoDanglingReference
<1>1. ASSUME NEW key \in Keys, NEW hash \in Hashes, NEW path \in Paths,
             Register(key, hash, path)
      PROVE  SerialInv'
  <2>1. /\ DOMAIN findings \subseteq DOMAIN findings'
        /\ \A f \in DOMAIN findings : findings'[f] = findings[f]
        /\ subClusters' = subClusters /\ assigned' = assigned /\ cli' = cli
    <3>1. NextId(DOMAIN findings) \notin DOMAIN findings
      BY NextIdIsFresh DEF IInv, TablesOK, RowsOK, Ids
    <3> QED BY <1>1, <3>1 DEF Register, Put
  <2> QED BY <1>0, <2>1 DEF SerialInv, AssignedInBucket, TargetsStand
<1>2. ASSUME NEW c \in Clients, NEW b \in DOMAIN buckets,
             NEW replace \in BOOLEAN, RecordCheck(c, b, replace)
      PROVE  SerialInv'
  <2>1. UNCHANGED db /\ cli'[c].op = "record"
    BY <1>2 DEF RecordCheck, IInv, RequestsOK
  <2>2. TargetsStand'
    BY <2>1 DEF TargetsStand
  <2> QED BY <2>1, <2>2 DEF SerialInv, AssignedInBucket, db
<1>3. ASSUME NEW c \in Clients, RecordCommit(c) PROVE SerialInv'
  <2>1. /\ findings' = findings /\ cli'[c] = Idle
    BY <1>3 DEF RecordCommit, Finish, IInv, RequestsOK
  <2>2. TargetsStand'
    BY <2>1 DEF TargetsStand, Idle
  <2>3. AssignedInBucket'
    <3>1. ASSUME NEW f \in DOMAIN assigned'
          PROVE  subClusters'[assigned'[f]].bucket = findings'[f].bucket
      BY <1>3, <2>1, RecordEffect DEF SerialInv, AssignedInBucket, InBucket
    <3> QED BY <3>1 DEF AssignedInBucket
  <2> QED BY <2>2, <2>3 DEF SerialInv
<1>4. ASSUME NEW c \in Clients, AssignCheckTargets(c) PROVE SerialInv'
  <2>1. UNCHANGED db
    BY <1>4 DEF AssignCheckTargets
  <2>2. PICK F \in SUBSET DOMAIN findings : \E to \in [F -> DOMAIN subClusters] :
          /\ \A f \in F : subClusters[to[f]].bucket = findings[f].bucket
          /\ cli' = [cli EXCEPT ![c] = [op |-> "targets", to |-> to]]
    BY <1>4 DEF AssignCheckTargets
  <2>3. PICK to \in [F -> DOMAIN subClusters] :
          /\ \A f \in F : subClusters[to[f]].bucket = findings[f].bucket
          /\ cli' = [cli EXCEPT ![c] = [op |-> "targets", to |-> to]]
    BY <2>2
  <2>4. cli'[c].to = to /\ DOMAIN to = F
    BY <2>3 DEF IInv, RequestsOK
  <2>5. TargetsStand'
    BY <2>1, <2>3, <2>4 DEF TargetsStand, db
  <2> QED BY <2>1, <2>5 DEF SerialInv, AssignedInBucket, db
<1>5. ASSUME NEW c \in Clients, AssignCheckFindings(c) PROVE SerialInv'
  <2>1. UNCHANGED db /\ cli[c].op = "targets"
    BY <1>5 DEF AssignCheckFindings
  <2>2. cli'[c] \in {[op |-> "assign", to |-> cli[c].to], Idle}
    BY <1>5 DEF AssignCheckFindings, IInv, RequestsOK
  <2>3. TargetsStand'
    BY <2>1, <2>2 DEF TargetsStand, SerialInv, Idle, db
  <2> QED BY <2>1, <2>3 DEF SerialInv, AssignedInBucket, db
<1>6. ASSUME NEW c \in Clients, AssignCommit(c) PROVE SerialInv'
  <2>1. /\ findings' = findings /\ subClusters' = subClusters /\ cli'[c] = Idle
        /\ cli[c].op = "assign"
    BY <1>6 DEF AssignCommit, Finish, IInv, RequestsOK
  <2>2. TargetsStand'
    BY <2>1 DEF TargetsStand, Idle
  <2>3. \A f \in DOMAIN cli[c].to :
           subClusters[cli[c].to[f]].bucket = findings[f].bucket
    BY <2>1 DEF SerialInv, TargetsStand
  <2>4. assigned' = [f \in DOMAIN assigned \cup DOMAIN cli[c].to |->
                       IF f \in DOMAIN cli[c].to THEN cli[c].to[f] ELSE assigned[f]]
    BY <1>6 DEF AssignCommit
  <2> QED BY <2>1, <2>2, <2>3, <2>4 DEF SerialInv, AssignedInBucket
<1>7. ASSUME NEW c \in Clients, RecordRollback(c) \/ AssignRollback(c) \/ Crash(c)
      PROVE  SerialInv'
  <2>1. UNCHANGED db /\ cli'[c] = Idle
    BY <1>7 DEF RecordRollback, AssignRollback, Crash, Finish, IInv, RequestsOK
  <2>2. TargetsStand'
    BY <2>1 DEF TargetsStand, Idle
  <2> QED BY <2>1, <2>2 DEF SerialInv, AssignedInBucket, db
<1>8. CASE UNCHANGED vars
  BY <1>8 DEF SerialInv, AssignedInBucket, TargetsStand, vars
<1> QED BY <1>1, <1>2, <1>3, <1>4, <1>5, <1>6, <1>7, <1>8 DEF Next

(* As long as only one dedup.py process works on triage at a time, a       *)
(* finding is only ever assigned to a sub-cluster of its own bucket; with  *)
(* two of them it need not be.                                             *)
THEOREM SerialAssignmentsCorrect ==
    ASSUME \A c, d \in Clients : c = d
    PROVE  Spec => []AssignedInBucket
<1>1. Init => SerialInv
  BY DEF Init, SerialInv, AssignedInBucket, TargetsStand, Idle
<1>2. SerialInv => AssignedInBucket
  BY DEF SerialInv
<1> QED BY <1>1, <1>2, SerialNextInv, Invariance, PTL DEF Spec
-----------------------------------------------------------------------------
(* What a commit of record-sub-clusters inserts are findings of its own    *)
(* bucket, as validated; they have not moved since.                        *)
LEMMA RecordedInBucket ==
    ASSUME IInv, NEW c \in Clients, RecordCommit(c),
           NEW b \in DOMAIN buckets, b # cli[c].bucket,
           InBucket(b) \subseteq DOMAIN assigned'
    PROVE  InBucket(b) \subseteq DOMAIN assigned
<1> SUFFICES ASSUME NEW f \in InBucket(b) PROVE f \in DOMAIN assigned
  OBVIOUS
<1>1. f \in DOMAIN assigned'
  OBVIOUS
<1>2. f \notin InBucket(cli[c].bucket)
  BY DEF InBucket
<1> QED BY <1>1, <1>2, RecordEffect

(* A bucket is covered by its last assignment, never by a registration,    *)
(* whose finding is in no sub-cluster yet.                                 *)
LEMMA RegisterKeepsStamped ==
    ASSUME IInv, CoveredIsStamped,
           NEW key \in Keys, NEW hash \in Hashes, NEW path \in Paths,
           Register(key, hash, path)
    PROVE  CoveredIsStamped'
<1>a. PICK bkt : bkt = BucketFor(key)
  OBVIOUS
<1>b. PICK f : f = NextId(DOMAIN findings)
  OBVIOUS
<1>1. /\ DOMAIN findings' = DOMAIN findings \cup {f}
      /\ findings'[f].bucket = bkt
      /\ \A g \in DOMAIN findings \ {f} : findings'[g] = findings[g]
      /\ DOMAIN buckets' = DOMAIN buckets \cup {bkt}
      /\ \A b \in DOMAIN buckets \ {bkt} : buckets'[b] = buckets[b]
      /\ assigned' = assigned
  BY <1>a, <1>b DEF Register, Put
<1>2. f \notin DOMAIN findings /\ f \notin DOMAIN assigned
  BY <1>b, NextIdIsFresh DEF IInv, TablesOK, RowsOK, Ids, NoDanglingReference
<1> SUFFICES ASSUME NEW b \in DOMAIN buckets',
                    InBucket(b)' \subseteq DOMAIN assigned'
             PROVE  buckets'[b].triaged
  BY DEF CoveredIsStamped
<1>3. b # bkt
  <2>1. f \in InBucket(bkt)'
    BY <1>1 DEF InBucket
  <2> QED BY <1>1, <1>2, <2>1
<1>4. InBucket(b)' = InBucket(b)
  BY <1>1, <1>2, <1>3 DEF InBucket
<1> QED BY <1>1, <1>3, <1>4 DEF CoveredIsStamped

LEMMA NextKeepsStamped ==
    IInv /\ CoveredIsStamped /\ [Next]_vars => CoveredIsStamped'
<1> SUFFICES ASSUME IInv, CoveredIsStamped, [Next]_vars
             PROVE  CoveredIsStamped'
  OBVIOUS
<1>1. ASSUME NEW key \in Keys, NEW hash \in Hashes, NEW path \in Paths,
             Register(key, hash, path)
      PROVE  CoveredIsStamped'
  BY <1>1, RegisterKeepsStamped
<1>2. ASSUME NEW c \in Clients, RecordCommit(c)
      PROVE  CoveredIsStamped'
  <2>1. /\ findings' = findings
        /\ buckets' = StampIfCovered(cli[c].bucket)
    BY <1>2 DEF RecordCommit
  <2>2. DOMAIN buckets' = DOMAIN buckets
    BY <2>1 DEF StampIfCovered
  <2> SUFFICES ASSUME NEW b \in DOMAIN buckets, InBucket(b) \subseteq DOMAIN assigned'
               PROVE  buckets'[b].triaged
    BY <2>1, <2>2 DEF CoveredIsStamped, InBucket
  <2>3. CASE b = cli[c].bucket
    <3>1. buckets' = [buckets EXCEPT ![b].triaged = TRUE]
      BY <2>1, <2>3 DEF StampIfCovered
    <3>2. buckets[b] \in BucketRows
      BY DEF IInv, TablesOK, RowsOK
    <3> QED BY <3>1, <3>2 DEF BucketRows
  <2>4. CASE b # cli[c].bucket
    <3>1. InBucket(b) \subseteq DOMAIN assigned
      BY <1>2, <2>4, RecordedInBucket
    <3>2. buckets'[b] = buckets[b]
      BY <2>1, <2>4 DEF StampIfCovered
    <3> QED BY <3>1, <3>2 DEF CoveredIsStamped
  <2> QED BY <2>3, <2>4
<1>3. ASSUME NEW c \in Clients, AssignCommit(c)
      PROVE  CoveredIsStamped'
  <2>1. /\ findings' = findings
        /\ buckets' = [b \in DOMAIN buckets |->
                         IF InBucket(b) \subseteq DOMAIN assigned'
                         THEN [buckets[b] EXCEPT !.triaged = TRUE]
                         ELSE buckets[b]]
    BY <1>3 DEF AssignCommit
  <2>2. \A b \in DOMAIN buckets : buckets[b] \in BucketRows
    BY DEF IInv, TablesOK, RowsOK
  <2>3. \A b \in DOMAIN buckets :
           InBucket(b) \subseteq DOMAIN assigned' => buckets'[b].triaged
    BY <2>1, <2>2 DEF BucketRows
  <2> QED BY <2>1, <2>3 DEF CoveredIsStamped, InBucket
<1>4. CASE UNCHANGED db
  BY <1>4 DEF db, CoveredIsStamped, InBucket
<1> QED BY <1>1, <1>2, <1>3, <1>4
        DEF Next, vars, db, RecordCheck, RecordRollback, AssignCheckTargets,
            AssignCheckFindings, AssignRollback, Crash

(* A bucket all of whose findings are in sub-clusters carries triaged_at,  *)
(* whoever made the last of the assignments and whatever was validated     *)
(* before: no page calls a covered bucket "not yet triaged".               *)
THEOREM StampsCorrect == Spec => []CoveredIsStamped
<1>1. Init => CoveredIsStamped
  BY DEF Init, CoveredIsStamped
<1> QED BY <1>1, NextKeepsStamped, Invariance, PTL DEF Spec
=============================================================================
