------------------------------- MODULE Upgrade -------------------------------
(***************************************************************************)
(* dedup.py: what connect() does to a database an older version has left.  *)
(* Every command connects, and the oracles register all the time, so       *)
(* several processes find the old database at once.  Each transaction      *)
(* takes the write lock (BEGIN IMMEDIATE), but what to do is decided by    *)
(* reads before it.                                                        *)
(*                                                                         *)
(* The first version had columns that are NOT NULL, the next one buckets   *)
(* with a NULL key; both may lack the run_id column.                       *)
(***************************************************************************)
EXTENDS Naturals, Sequences, FiniteSets, SequencesExt

CONSTANTS
    Openers,       \* processes that connect, and register a finding
    Passes,        \* keys of buckets of miscompilations
    OldDatabases   \* bound: keys of the buckets, and findings, they may find

Oracles == {"alive_tv", "asan_opt"}
Sentinel(oracle) == IF oracle = "asan_opt" THEN "__asan__" ELSE "__bisect_failed__"

MembersIn(fs, b) == {i \in DOMAIN fs : fs[i].bucket = b}

(* No bucket of an old database is empty, and only NULL keys repeat.       *)
ASSUME UpgradeAssumption ==
    /\ Passes \cap ({"NULL"} \cup {Sentinel(o) : o \in Oracles}) = {}
    /\ \A old \in OldDatabases :
          /\ old.keys \in Seq({"NULL"} \cup Passes)
          /\ old.findings \in Seq([oracle : Oracles, bucket : DOMAIN old.keys])
          /\ \A b \in DOMAIN old.keys :
                /\ MembersIn(old.findings, b) # {}
                /\ \A c \in DOMAIN old.keys :
                      old.keys[b] = old.keys[c] => b = c \/ old.keys[b] = "NULL"

VARIABLES
    hasRunId,    \* findings has the run_id column
    notNull,     \* the key columns of buckets are NOT NULL
    bucketRows,  \* bucket_id -> key, finding_count, representative_id
    foundIn,     \* finding_id -> oracle and bucket_id
    triaged,     \* bucket_ids that have sub-clusters
    opening      \* step of each process and the NULL buckets it has listed

tables == <<hasRunId, notNull, bucketRows, foundIn, triaged>>
upgradeVars == <<tables, opening>>

Row(key, count, rep) == [key |-> key, count |-> count, rep |-> rep]

UpgradeInit ==
    /\ hasRunId \in BOOLEAN
    /\ \E old \in OldDatabases :
          LET ids == DOMAIN old.keys  Of(b) == MembersIn(old.findings, b) IN
          /\ notNull \in {FALSE, \A b \in ids : old.keys[b] # "NULL"}
          /\ foundIn = old.findings
          /\ bucketRows = [b \in ids |-> Row(old.keys[b], Cardinality(Of(b)), Min(Of(b)))]
          /\ triaged \in {{}, ids}
    /\ opening = [p \in Openers |-> [at |-> "start", nulls |-> {}]]

Opening(p, step) == opening[p].at = step
GoTo(p, step) == opening' = [opening EXCEPT ![p].at = step]

-----------------------------------------------------------------------------
(* "if run_id not in cols"                                                 *)
ReadColumns(p) ==
    /\ Opening(p, "start")
    /\ GoTo(p, IF hasRunId THEN "columns" ELSE "adding")
    /\ UNCHANGED tables

(* ALTER TABLE fails if another process has added the column since.        *)
AddColumn(p) ==
    /\ Opening(p, "adding")
    /\ GoTo(p, IF hasRunId THEN "failed" ELSE "columns")
    /\ hasRunId' = TRUE
    /\ UNCHANGED <<notNull, bucketRows, foundIn, triaged>>

(* _migrate_buckets_drop_notnull: look, then rebuild the table, which      *)
(* keeps its rows.                                                         *)
ReadNotNull(p) ==
    /\ Opening(p, "columns")
    /\ GoTo(p, IF notNull THEN "rebuilding" ELSE "nullable")
    /\ UNCHANGED tables

Rebuild(p) ==
    /\ Opening(p, "rebuilding")
    /\ GoTo(p, "nullable")
    /\ notNull' = FALSE
    /\ UNCHANGED <<hasRunId, bucketRows, foundIn, triaged>>

(* _migrate_null_buckets_to_sentinels: list, then fold in a transaction.   *)
ListNulls(p) ==
    /\ Opening(p, "nullable")
    /\ LET nulls == {b \in DOMAIN bucketRows : bucketRows[b].key = "NULL"}
       IN  opening' = [opening EXCEPT ![p] =
                [at |-> IF nulls = {} THEN "open" ELSE "folding", nulls |-> nulls]]
    /\ UNCHANGED tables

-----------------------------------------------------------------------------
(* INTEGER PRIMARY KEY: one more than the largest id in the table.         *)
FreshId(ids) == IF ids = {} THEN 1 ELSE 1 + Max(ids)

(* INSERT OR IGNORE of the key, then its bucket_id.                        *)
IdFor(bs, key) ==
    IF \E b \in DOMAIN bs : bs[b].key = key
    THEN CHOOSE b \in DOMAIN bs : bs[b].key = key ELSE FreshId(DOMAIN bs)

SetToOne(row) == [row EXCEPT !.count = 1]  \* mutant: as for a bucket that was just made
CountedRow(row) == [row EXCEPT !.count = @ + 1]

WithFinding(bs, key, f) ==
    LET b == IdFor(bs, key)
    IN  [c \in DOMAIN bs \cup {b} |->
            IF c # b THEN bs[c]
            ELSE IF b \in DOMAIN bs THEN CountedRow(bs[b]) ELSE Row(key, 1, f)]

MoveFinding(db, f) ==
    LET key == Sentinel(db.findings[f].oracle)
    IN  [buckets |-> WithFinding(db.buckets, key, f),
         findings |-> [db.findings EXCEPT ![f].bucket = IdFor(db.buckets, key)]]

Dropped(bs, ids) == Restrict(bs, DOMAIN bs \ ids)

(* In order of finding_id.                                                 *)
MoveAll(db, fs) ==
    MapThenFoldSet(LAMBDA f, moved : MoveFinding(moved, f), db, LAMBDA f : f, Max, fs)

DropThenMove(db, b) ==  \* mutant: the NULL bucket goes first
    MoveAll([db EXCEPT !.buckets = Dropped(@, {b})], MembersIn(db.findings, b))
MoveThenDrop(db, b) ==
    [MoveAll(db, MembersIn(db.findings, b)) EXCEPT !.buckets = Dropped(@, {b})]

Folded(nulls) ==
    MapThenFoldSet(LAMBDA b, db : MoveThenDrop(db, b),
                   [buckets |-> bucketRows, findings |-> foundIn], LAMBDA b : b, Max, nulls)

Fold(p) ==
    /\ Opening(p, "folding")
    /\ opening[p].nulls \cap triaged = {}
    /\ LET db == Folded(opening[p].nulls)
       IN  bucketRows' = db.buckets /\ foundIn' = db.findings
    /\ GoTo(p, "open")
    /\ UNCHANGED <<hasRunId, notNull, triaged>>

(* Sub-clusters refer to the bucket: the DELETE fails, all is rolled back. *)
FoldFails(p) ==
    /\ Opening(p, "folding")
    /\ opening[p].nulls \cap triaged # {}
    /\ GoTo(p, "failed")
    /\ UNCHANGED tables

(* _do_register, by a process that has connected.                          *)
RegisterOne(p) ==
    /\ Opening(p, "open")
    /\ \E oracle \in Oracles : \E key \in Passes \cup {Sentinel(oracle)} :
          /\ oracle = "asan_opt" => key \notin Passes
          /\ foundIn' = Append(foundIn, [oracle |-> oracle, bucket |-> IdFor(bucketRows, key)])
          /\ bucketRows' = WithFinding(bucketRows, key, Len(foundIn) + 1)
    /\ GoTo(p, "registered")
    /\ UNCHANGED <<hasRunId, notNull, triaged>>

Connect(p) ==
    \/ ReadColumns(p) \/ AddColumn(p) \/ ReadNotNull(p) \/ Rebuild(p)
    \/ ListNulls(p) \/ Fold(p) \/ FoldFails(p) \/ RegisterOne(p)

UpgradeNext == \E p \in Openers : Connect(p)

UpgradeSpec == UpgradeInit /\ [][UpgradeNext]_upgradeVars

-----------------------------------------------------------------------------
(* The list of NULL buckets may be out of date when its holder gets the    *)
(* lock, and SQLite hands ids out again.  Still a finding leaves its       *)
(* bucket only for the sentinel of its oracle, and only if the bucket has  *)
(* a NULL key.                                                             *)
OnlyNullsAreFolded ==
    [][\A f \in DOMAIN foundIn :
          foundIn'[f] # foundIn[f] =>
              /\ bucketRows[foundIn[f].bucket].key = "NULL"
              /\ foundIn'[f].bucket \in DOMAIN bucketRows'
              /\ bucketRows'[foundIn'[f].bucket].key = Sentinel(foundIn[f].oracle)]_upgradeVars

(* However many processes upgrade at once: finding_count counts, the       *)
(* representative is a member, no key but NULL has two buckets, and whoever *)
(* got through connect() works on a database without NULL buckets.         *)
UpgradedIsSound ==
    /\ \A b \in DOMAIN bucketRows :
          /\ bucketRows[b].count = Cardinality(MembersIn(foundIn, b))
          /\ bucketRows[b].rep \in MembersIn(foundIn, b)
          /\ \A c \in DOMAIN bucketRows :
                bucketRows[b].key = bucketRows[c].key => b = c \/ bucketRows[b].key = "NULL"
    /\ (\E p \in Openers : opening[p].at \in {"open", "registered"}) =>
          /\ hasRunId /\ ~notNull
          /\ \A b \in DOMAIN bucketRows : bucketRows[b].key # "NULL"
=============================================================================
