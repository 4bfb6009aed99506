------------------------------- MODULE DedupDB -------------------------------
(***************************************************************************)
(* The shared sqlite database of scripts/analysis/dedup.py (dedup.db) and  *)
(* the dedup.py processes that write it.  A process validates its request  *)
(* with plain SELECTs and only then opens BEGIN IMMEDIATE, so everything   *)
(* it has validated may be stale when its transaction runs; what protects  *)
(* the tables at that point are the PRIMARY KEY and FOREIGN KEY            *)
(* constraints of SCHEMA.  A transaction is one action; a process that     *)
(* dies outside COMMIT leaves the tables as they were.                     *)
(***************************************************************************)
EXTENDS Naturals, FiniteSets, Sequences

CONSTANTS
    Clients,       \* the dedup.py processes that may be running at once
    Blames,        \* the (guilty_pass, bisect_index) pairs a bisection can name
    Asan,          \* the sentinel pair ('__asan__', 0)
    BisectFailed,  \* the sentinel pair ('__bisect_failed__', 0)
    Hashes,        \* the contents a normalized witness can have
    Paths,         \* the files they are registered from
    MaxFindings,   \* bound: rows of findings
    MaxSubClusters,\* bound: highest sub_cluster_id
    MaxClusters    \* bound: sub-clusters in one JSON payload

ASSUME SentinelAssumption == Asan \notin Blames /\ BisectFailed \notin Blames
ASSUME BoundAssumption ==
    MaxFindings \in Nat /\ MaxSubClusters \in Nat /\ MaxClusters \in Nat

Keys == Blames \cup {Asan, BisectFailed}

VARIABLES
    findings,     \* finding_id -> hash, key, path, bucket
    buckets,      \* bucket_id -> key, count, rep, triaged
    subClusters,  \* sub_cluster_id -> bucket, rep
    assigned,     \* finding_sub_cluster: finding_id -> sub_cluster_id
    cli           \* what each dedup.py process has validated and not committed

db == <<findings, buckets, subClusters, assigned>>
vars == <<findings, buckets, subClusters, assigned, cli>>

-----------------------------------------------------------------------------
(* An INTEGER PRIMARY KEY without AUTOINCREMENT takes the highest id of    *)
(* the table plus one: the ids of deleted rows come back.                  *)

Highest(ids) == CHOOSE n \in ids \cup {0} : \A i \in ids : i <= n
NextId(ids) == Highest(ids) + 1

InBucket(b) == {f \in DOMAIN findings : findings[f].bucket = b}
Untriaged(b) == InBucket(b) \ DOMAIN assigned
SubClustersOf(b) == {s \in DOMAIN subClusters : subClusters[s].bucket = b}

Put(table, id, row) ==
    [i \in DOMAIN table \cup {id} |-> IF i = id THEN row ELSE table[i]]

Idle == [op |-> "idle"]
Finish(c) == cli' = [cli EXCEPT ![c] = Idle]

(* One entry of sub_clusters.json, and the lists record-sub-clusters       *)
(* accepts: every representative a member, no finding listed twice.        *)
Clusters(S) ==
    {k \in [rep : S, members : SUBSET S] : k.rep \in k.members}

Payloads(S) ==
    {p \in UNION {[1..n -> Clusters(S)] : n \in 0..MaxClusters} :
        \A i, j \in DOMAIN p : i # j => p[i].members \cap p[j].members = {}}

Members(p) == UNION {p[i].members : i \in DOMAIN p}

-----------------------------------------------------------------------------
Init ==
    /\ findings = <<>>
    /\ buckets = <<>>
    /\ subClusters = <<>>
    /\ assigned = <<>>
    /\ cli = [c \in Clients |-> Idle]

(* _do_register: the bisection reads nothing of the database and its       *)
(* answer is free; the rest is one transaction.  An ASAN finding goes to   *)
(* its sentinel bucket, a finding whose bisection fails to the other one.  *)
BucketPerFinding(key) == NextId(DOMAIN buckets)  \* mutant: no SELECT for the pair
BucketFor(key) ==
    IF \E b \in DOMAIN buckets : buckets[b].key = key
    THEN CHOOSE b \in DOMAIN buckets : buckets[b].key = key
    ELSE NextId(DOMAIN buckets)

NewHash(key, hash) ==  \* mutant: the hash is looked up in every bucket
    \A f \in DOMAIN findings : findings[f].hash # hash
NewInstance(key, hash) ==
    \A f \in InBucket(BucketFor(key)) : findings[f].hash # hash

NewBucket(key, f) == [key |-> key, count |-> 1, rep |-> f, triaged |-> FALSE]
LastSeen(b) == buckets[b]  \* mutant: only last_seen is updated
Counted(b) == [buckets[b] EXCEPT !.count = @ + 1]

Register(key, hash, path) ==
    LET b == BucketFor(key)
        f == NextId(DOMAIN findings)
    IN /\ f <= MaxFindings
       /\ findings' = Put(findings, f,
            [hash |-> hash, key |-> key, path |-> path, bucket |-> b,
             fresh |-> NewInstance(key, hash)])
       /\ buckets' = Put(buckets, b,
            IF b \in DOMAIN buckets THEN Counted(b) ELSE NewBucket(key, f))
       /\ UNCHANGED <<subClusters, assigned, cli>>

(* record-sub-clusters, up to BEGIN IMMEDIATE: the bucket exists, members  *)
(* are findings of the bucket and, without --replace, untriaged ones.  A   *)
(* payload that fails a check is refused and changes nothing.              *)
RecordCheck(c, b, replace) ==
    /\ cli[c] = Idle
    /\ b \in DOMAIN buckets
    /\ \E p \in Payloads(IF replace THEN InBucket(b) ELSE Untriaged(b)) :
         cli' = [cli EXCEPT ![c] = [op |-> "record", bucket |-> b,
                                    replace |-> replace, payload |-> p]]
    /\ UNCHANGED db

(* The transaction.  --replace first deletes the bucket's sub-clusters and *)
(* their assignments; an insert that meets an assigned finding violates    *)
(* the primary key of finding_sub_cluster and rolls everything back.       *)
DeletedEverywhere(r) == IF r.replace THEN DOMAIN subClusters ELSE {}  \* mutant
Deleted(r) == IF r.replace THEN SubClustersOf(r.bucket) ELSE {}
Kept(r) == DOMAIN subClusters \ Deleted(r)
KeptUnlessMember(r) ==  \* mutant: INSERT OR REPLACE
    {f \in DOMAIN assigned :
        assigned[f] \notin Deleted(r) /\ f \notin Members(r.payload)}
KeptAssigned(r) == {f \in DOMAIN assigned : assigned[f] \notin Deleted(r)}
Inserted(r) == Highest(Kept(r)) + 1 .. Highest(Kept(r)) + Len(r.payload)

SubClustersAfter(r) ==
    [s \in Kept(r) \cup Inserted(r) |->
        IF s \in Kept(r) THEN subClusters[s]
        ELSE [bucket |-> r.bucket,
              rep |-> r.payload[s - Highest(Kept(r))].rep]]

AssignedAfter(r) ==
    [f \in KeptAssigned(r) \cup Members(r.payload) |->
        IF f \in Members(r.payload)
        THEN Highest(Kept(r)) +
             (CHOOSE i \in DOMAIN r.payload : f \in r.payload[i].members)
        ELSE assigned[f]]

(* buckets.triaged_at is stamped when no finding of the bucket is left.    *)
StampBefore(b) ==  \* mutant: looked at before the inserts
    IF InBucket(b) \subseteq DOMAIN assigned
    THEN [buckets EXCEPT ![b].triaged = TRUE]
    ELSE buckets
StampIfCovered(b) ==
    IF InBucket(b) \subseteq DOMAIN assigned'
    THEN [buckets EXCEPT ![b].triaged = TRUE]
    ELSE buckets

RecordCommit(c) ==
    LET r == cli[c] IN
    /\ r.op = "record"
    /\ Members(r.payload) \cap KeptAssigned(r) = {}
    /\ Highest(Kept(r)) + Len(r.payload) <= MaxSubClusters
    /\ subClusters' = SubClustersAfter(r)
    /\ assigned' = AssignedAfter(r)
    /\ buckets' = StampIfCovered(r.bucket)
    /\ Finish(c)
    /\ UNCHANGED findings

RecordRollback(c) ==
    LET r == cli[c] IN
    /\ r.op = "record"
    /\ Members(r.payload) \cap KeptAssigned(r) # {}
    /\ Finish(c)
    /\ UNCHANGED db

(* assign-existing reads sub_clusters, then findings (whose rows never     *)
(* change), then finding_sub_cluster, each in a SELECT of its own.  The    *)
(* payload is a map from findings to the sub-clusters they should join.    *)
AssignCheckTargets(c) ==
    /\ cli[c] = Idle
    /\ \E F \in SUBSET DOMAIN findings \ {{}} :
         \E to \in [F -> DOMAIN subClusters] :
           /\ \A f \in F : subClusters[to[f]].bucket = findings[f].bucket
           /\ cli' = [cli EXCEPT ![c] = [op |-> "targets", to |-> to]]
    /\ UNCHANGED db

AssignCheckFindings(c) ==
    /\ cli[c].op = "targets"
    /\ cli' = [cli EXCEPT ![c] =
                 IF DOMAIN cli[c].to \cap DOMAIN assigned = {}
                 THEN [op |-> "assign", to |-> cli[c].to] ELSE Idle]
    /\ UNCHANGED db

(* The transaction: only the primary key and the foreign key of            *)
(* finding_sub_cluster are checked again.  Every fully covered bucket      *)
(* without a stamp gets one.                                               *)
OnlyUnassigned(to) == DOMAIN to \cap DOMAIN assigned = {}  \* mutant: no FOREIGN KEY
ConstraintsHold(to) ==
    /\ DOMAIN to \cap DOMAIN assigned = {}
    /\ \A f \in DOMAIN to : to[f] \in DOMAIN subClusters

AssignCommit(c) ==
    LET to == cli[c].to IN
    /\ cli[c].op = "assign"
    /\ ConstraintsHold(to)
    /\ assigned' = [f \in DOMAIN assigned \cup DOMAIN to |->
                      IF f \in DOMAIN to THEN to[f] ELSE assigned[f]]
    /\ buckets' = [b \in DOMAIN buckets |->
                     IF InBucket(b) \subseteq DOMAIN assigned'
                     THEN [buckets[b] EXCEPT !.triaged = TRUE]
                     ELSE buckets[b]]
    /\ Finish(c)
    /\ UNCHANGED <<findings, subClusters>>

AssignRollback(c) ==
    /\ cli[c].op = "assign"
    /\ ~ConstraintsHold(cli[c].to)
    /\ Finish(c)
    /\ UNCHANGED db

(* The process is killed, or gives up after 30 s of "database is locked".  *)
Crash(c) ==
    /\ cli[c] # Idle
    /\ Finish(c)
    /\ UNCHANGED db

Next ==
    \/ \E key \in Keys, hash \in Hashes, path \in Paths : Register(key, hash, path)
    \/ \E c \in Clients :
         \/ \E b \in DOMAIN buckets, replace \in BOOLEAN : RecordCheck(c, b, replace)
         \/ RecordCommit(c)
         \/ RecordRollback(c)
         \/ AssignCheckTargets(c)
         \/ AssignCheckFindings(c)
         \/ AssignCommit(c)
         \/ AssignRollback(c)
         \/ Crash(c)

Spec == Init /\ [][Next]_vars

-----------------------------------------------------------------------------
FindingRows ==
    [hash : Hashes, key : Keys, path : Paths, bucket : Nat \ {0}, fresh : BOOLEAN]
BucketRows == [key : Keys, count : Nat, rep : Nat \ {0}, triaged : BOOLEAN]
SubClusterRows == [bucket : Nat \ {0}, rep : Nat \ {0}]
Ids(table) == /\ DOMAIN table \subseteq Nat \ {0}
              /\ IsFiniteSet(DOMAIN table)

(* What a process holds between its checks and its transaction.            *)
WellFormed(r) ==
    \/ r = Idle
    \/ /\ r.op = "record"
       /\ r = [op |-> "record", bucket |-> r.bucket, replace |-> r.replace,
               payload |-> r.payload]
       /\ r.bucket \in DOMAIN buckets
       /\ r.replace \in BOOLEAN
       /\ r.payload \in Seq(Clusters(InBucket(r.bucket)))
       /\ \A i, j \in DOMAIN r.payload :
            i # j => r.payload[i].members \cap r.payload[j].members = {}
    \/ /\ r.op \in {"targets", "assign"}
       /\ r = [op |-> r.op, to |-> r.to]
       /\ r.to = [f \in DOMAIN r.to |-> r.to[f]]
       /\ \A f \in DOMAIN r.to : r.to[f] \in Nat \ {0}
       /\ DOMAIN r.to \subseteq DOMAIN findings

RowsOK ==
    /\ Ids(findings) /\ findings \in [DOMAIN findings -> FindingRows]
    /\ Ids(buckets) /\ buckets \in [DOMAIN buckets -> BucketRows]
    /\ Ids(subClusters) /\ subClusters \in [DOMAIN subClusters -> SubClusterRows]
    /\ Ids(assigned) /\ assigned \in [DOMAIN assigned -> Nat \ {0}]

RequestsOK ==
    /\ cli = [c \in Clients |-> cli[c]]
    /\ \A c \in Clients : WellFormed(cli[c])

(* Every table maps finitely many ids to complete rows, and every process  *)
(* holds one well-formed request, about rows that exist, or none.          *)
TypeOK == RowsOK /\ RequestsOK

-----------------------------------------------------------------------------
(* Two findings share a bucket exactly when they share the pair            *)
(* (guilty_pass, bisect_index): the first tier of the two-tier dedup, for  *)
(* registrations that create the same bucket at the same time included.    *)
BucketedByBlame ==
    \A f, g \in DOMAIN findings :
        findings[f].bucket = findings[g].bucket <=> findings[f].key = findings[g].key

(* "count of register() calls hitting this bucket" (SCHEMA): finding_count *)
(* is the number of findings that point to the bucket, and the             *)
(* representative is one of them.                                          *)
CountsAgree ==
    \A b \in DOMAIN buckets :
        /\ buckets[b].count = Cardinality(InBucket(b))
        /\ buckets[b].rep \in InBucket(b)

(* "for distinct instances, use SELECT COUNT(DISTINCT normalized_hash)":   *)
(* the registrations of a bucket that answered new_instance=1 are exactly  *)
(* as many as its distinct hashes.                                         *)
InstancesAgree ==
    \A b \in DOMAIN buckets :
        Cardinality({f \in InBucket(b) : findings[f].fresh})
            = Cardinality({findings[f].hash : f \in InBucket(b)})

(* No reference dangles: every finding, sub-cluster and assignment points  *)
(* to a row that exists, whatever a --replace deleted meanwhile.           *)
NoDanglingReference ==
    /\ \A f \in DOMAIN findings : findings[f].bucket \in DOMAIN buckets
    /\ \A s \in DOMAIN subClusters :
         /\ subClusters[s].bucket \in DOMAIN buckets
         /\ subClusters[s].rep \in DOMAIN findings
    /\ \A f \in DOMAIN assigned :
         f \in DOMAIN findings /\ assigned[f] \in DOMAIN subClusters

(* The representative of a sub-cluster is a finding of the sub-cluster's   *)
(* bucket and a member of the sub-cluster: two processes that cluster the  *)
(* same bucket at once never take a representative from each other.        *)
RepresentativeIsMember ==
    \A s \in DOMAIN subClusters :
        LET rep == subClusters[s].rep IN
        /\ rep \in InBucket(subClusters[s].bucket)
        /\ rep \in DOMAIN assigned
        /\ assigned[rep] = s

(* cmd_assign_existing: "Each finding must (a) belong to the same bucket   *)
(* as the target sub-cluster".                                             *)
AssignedInBucket ==
    \A f \in DOMAIN assigned :
        subClusters[assigned[f]].bucket = findings[f].bucket

Moved(f) ==
    \/ f \notin DOMAIN assigned' \/ assigned'[f] # assigned[f]
    \/ subClusters'[assigned[f]] # subClusters[assigned[f]]

ReplaceCommitted(b) ==
    \E c \in Clients :
        /\ cli[c].op = "record" /\ cli'[c] = Idle
        /\ cli[c].replace /\ cli[c].bucket = b

(* A finding that is in a sub-cluster leaves it only in the commit of a    *)
(* record-sub-clusters --replace of that sub-cluster's bucket: no other    *)
(* command, crash or rollback moves it or drops it.                        *)
OnlyReplaceReassigns ==
    [][\A f \in DOMAIN assigned :
          Moved(f) => ReplaceCommitted(subClusters[assigned[f]].bucket)]_vars

(* "If every finding in the bucket is now in a sub-cluster, stamp          *)
(* buckets.triaged_at": a bucket that two processes have covered between   *)
(* them, each with findings it validated before, is stamped by the last.   *)
(* (A stamped bucket need not be covered: registrations go on.)            *)
CoveredIsStamped ==
    \A b \in DOMAIN buckets :
        InBucket(b) \subseteq DOMAIN assigned => buckets[b].triaged
=============================================================================
