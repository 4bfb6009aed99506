--------------------------- MODULE TriageRun_proofs ---------------------------
(***************************************************************************)
(* Proofs about TriageRun: every step of an orchestrator is a step of      *)
(* DedupDB, so that the tables stay consistent under it; the sample of a   *)
(* bucket has its size and spans the bucket, for every size of either; and *)
(* a bucket that ends well is triaged.                                     *)
(***************************************************************************)
EXTENDS TriageRun, DedupDB_proofs

-----------------------------------------------------------------------------
(* Rounding.                                                               *)

(* What div and mod are.                                                   *)
LEMMA Division ==
    ASSUME NEW x \in Nat, NEW d \in Nat \ {0}
    PROVE  /\ x \div d \in Nat /\ x % d \in 0..d - 1
           /\ x = d * (x \div d) + (x % d)
<1>1. d \in Nat /\ d > 0
  OBVIOUS
<1> QED BY <1>1

LEMMA TimesIsMonotone ==
    ASSUME NEW d \in Nat, NEW a \in Nat, NEW b \in Nat, a <= b
    PROVE  d * a \in Nat /\ d * b \in Nat /\ d * a <= d * b
<1>1. PICK e \in Nat : b = a + e
  <2>1. b - a \in Nat /\ b = a + (b - a)
    OBVIOUS
  <2> QED BY <2>1
<1>2. d * b = d * a + d * e /\ d * a \in Nat /\ d * e \in Nat
  BY <1>1
<1> QED BY <1>2

(* Quotients that are more than one apart do not round to the same number, *)
(* whichever way their halves go.                                          *)
LEMMA RoundSeparates ==
    ASSUME NEW x \in Nat, NEW y \in Nat, NEW d \in Nat \ {0}, y > x + d,
           NEW u \in 0..1, NEW v \in 0..1
    PROVE  /\ Round(x, d, u) \in Nat /\ Round(y, d, v) \in Nat
           /\ Round(x, d, u) < Round(y, d, v)
<1>1. PICK q \in Nat, r \in 0..d - 1 : q = x \div d /\ r = x % d /\ x = d * q + r
  BY Division
<1>2. PICK p \in Nat, s \in 0..d - 1 : p = y \div d /\ s = y % d /\ y = d * p + s
  BY Division
<1>3. d * q \in Nat /\ d * p \in Nat /\ d * (q + 1) = d * q + d
  OBVIOUS
<1>4. p > q
  <2>1. SUFFICES ASSUME p <= q PROVE FALSE
    OBVIOUS
  <2>2. d * p <= d * q
    BY <2>1, TimesIsMonotone
  <2> QED BY <1>1, <1>2, <1>3, <2>2
<1>r. /\ Round(x, d, u) \in {q, q + 1} /\ Round(y, d, v) \in {p, p + 1}
      /\ Round(x, d, u) = q + 1 => 2 * r >= d
      /\ 2 * s > d => Round(y, d, v) = p + 1
  BY <1>1, <1>2 DEF Round
<1>5. CASE p = q + 1
  <2>1. s > r
    BY <1>1, <1>2, <1>3, <1>5
  <2>2. r \in Nat /\ s \in Nat
    BY <1>1, <1>2
  <2> QED BY <1>5, <1>r, <2>1, <2>2
<1>6. CASE p > q + 1
  BY <1>6, <1>r
<1> QED BY <1>4, <1>5, <1>6

(* A multiple is not rounded.                                              *)
LEMMA RoundExact ==
    ASSUME NEW m \in Nat, NEW d \in Nat \ {0}, NEW u \in 0..1
    PROVE  Round(d * m, d, u) = m
<1>1. PICK q \in Nat, r \in 0..d - 1 :
         q = (d * m) \div d /\ r = (d * m) % d /\ d * m = d * q + r
  <2>1. d * m \in Nat
    OBVIOUS
  <2> QED BY <2>1, Division
<1>2. q = m
  <2>1. CASE q < m
    <3>1. d * (q + 1) <= d * m
      BY <2>1, TimesIsMonotone
    <3>2. d * (q + 1) = d * q + d
      OBVIOUS
    <3> QED BY <1>1, <3>1, <3>2
  <2>2. CASE m < q
    <3>1. d * (m + 1) <= d * q
      BY <2>2, TimesIsMonotone
    <3>2. d * (m + 1) = d * m + d
      OBVIOUS
    <3> QED BY <1>1, <3>1, <3>2
  <2> QED BY <2>1, <2>2
<1>3. r = 0
  BY <1>1, <1>2
<1> QED BY <1>1, <1>2, <1>3 DEF Round

-----------------------------------------------------------------------------
(* Ranks.                                                                  *)

(* The members of a finite set of ids are numbered from 0, in order.       *)
LEMMA RanksInOrder ==
    ASSUME NEW S, IsFiniteSet(S), S \subseteq Nat
    PROVE  /\ \A f \in S : Rank(f, S) \in Nat /\ Rank(f, S) \in 0..Cardinality(S) - 1
           /\ \A f, g \in S : f < g => Rank(f, S) < Rank(g, S)
<1> DEFINE Below(f) == {g \in S : g < f}
<1>1. Cardinality(S) \in Nat
  BY FS_CardinalityType
<1>2. \A f \in S : IsFiniteSet(Below(f)) /\ Rank(f, S) = Cardinality(Below(f))
  BY FS_Subset DEF Rank
<1>3. ASSUME NEW f \in S
      PROVE  Rank(f, S) \in Nat /\ Rank(f, S) \in 0..Cardinality(S) - 1
  <2>1. Below(f) \subseteq S /\ Below(f) # S
    OBVIOUS
  <2>2. Cardinality(Below(f)) <= Cardinality(S) /\ Cardinality(Below(f)) # Cardinality(S)
    BY <2>1, FS_Subset
  <2>3. Cardinality(Below(f)) \in Nat
    BY <1>2, FS_CardinalityType
  <2> QED BY <1>1, <1>2, <2>2, <2>3
<1>4. ASSUME NEW f \in S, NEW g \in S, f < g PROVE Rank(f, S) < Rank(g, S)
  <2>1. Below(f) \subseteq Below(g) /\ f \in Below(g) /\ f \notin Below(f)
    <3>1. f \in Nat /\ g \in Nat /\ \A h \in S : h \in Nat
      OBVIOUS
    <3>2. \A h \in S : h < f => h < g
      BY <1>4, <3>1
    <3>3. Below(f) \subseteq Below(g)
      BY <3>2
    <3>4. f \in Below(g)
      BY <1>4
    <3>5. f \notin Below(f)
      BY <3>1
    <3> QED BY <3>3, <3>4, <3>5
  <2>2. /\ Cardinality(Below(f)) <= Cardinality(Below(g))
        /\ Cardinality(Below(f)) # Cardinality(Below(g))
    BY <1>2, <2>1, FS_Subset
  <2>3. Cardinality(Below(f)) \in Nat /\ Cardinality(Below(g)) \in Nat
    BY <1>2, FS_CardinalityType
  <2> QED BY <1>2, <2>2, <2>3
<1> QED BY <1>3, <1>4

(* Every number below the size is the rank of a member.                    *)
LEMMA EveryRankTaken ==
    ASSUME NEW S, IsFiniteSet(S), S \subseteq Nat, NEW k \in 0..Cardinality(S) - 1
    PROVE  \E f \in S : Rank(f, S) = k
<1> DEFINE T == 0..Cardinality(S) - 1
           rank == [f \in S |-> Rank(f, S)]
<1>1. Cardinality(S) \in Nat
  BY FS_CardinalityType
<1>2. IsFiniteSet(T) /\ Cardinality(T) = Cardinality(S)
  BY <1>1, FS_Interval
<1>3. rank \in Injection(S, T)
  <2>1. rank \in [S -> T]
    BY RanksInOrder
  <2>2. \A f, g \in S : rank[f] = rank[g] => f = g
    <3>1. \A f, g \in S : f < g \/ g < f \/ f = g
      OBVIOUS
    <3>2. \A f \in S : Rank(f, S) \in Nat /\ rank[f] = Rank(f, S)
      BY RanksInOrder
    <3>3. \A f, g \in S : f < g => Rank(f, S) < Rank(g, S)
      BY RanksInOrder
    <3> HIDE DEF rank, T
    <3> QED BY <3>1, <3>2, <3>3
  <2> QED BY <2>1, <2>2 DEF Injection, IsInjective
<1>4. rank \in Surjection(S, T)
  <2> HIDE DEF rank, T
  <2> QED BY <1>2, <1>3, FS_Injection
<1>5. \A t \in T : \E f \in S : rank[f] = t
  <2> HIDE DEF T
  <2> QED BY <1>4 DEF Surjection
<1> QED BY <1>5

(* The member of the lowest rank is the first, that of the highest the     *)
(* last.                                                                   *)
LEMMA RankIsPosition ==
    ASSUME NEW S, IsFiniteSet(S), S \subseteq Nat, NEW f \in S, NEW g \in S,
           Rank(f, S) <= Rank(g, S)
    PROVE  f <= g
<1>1. Rank(f, S) \in Nat /\ Rank(g, S) \in Nat
  BY RanksInOrder
<1>2. g < f => Rank(g, S) < Rank(f, S)
  BY RanksInOrder
<1>3. f \in Nat /\ g \in Nat
  OBVIOUS
<1> QED BY <1>1, <1>2, <1>3

-----------------------------------------------------------------------------
(* Samples.                                                                *)

(* The picks are distinct positions of the bucket, the first and the last  *)
(* among them.                                                             *)
Pick(m, d, half, i) == Round(i * m, d, half[i])

LEMMA PicksAreSpread ==
    ASSUME NEW m \in Nat, NEW d \in Nat \ {0}, m > d, NEW half \in [0..d -> 0..1]
    PROVE  /\ Pick(m, d, half, 0) = 0 /\ Pick(m, d, half, d) = m
           /\ \A i, j \in 0..d : i < j => Pick(m, d, half, i) < Pick(m, d, half, j)
           /\ \A i \in 0..d : Pick(m, d, half, i) \in 0..m
<1>1. Pick(m, d, half, 0) = 0
  <2>1. half[0] \in 0..1
    OBVIOUS
  <2>2. d * 0 = 0 /\ 0 * m = 0
    OBVIOUS
  <2>3. 0 \in Nat /\ \A u \in 0..1 : Round(d * 0, d, u) = 0
    BY RoundExact
  <2> QED BY <2>1, <2>2, <2>3 DEF Pick
<1>2. Pick(m, d, half, d) = m
  <2>1. half[d] \in 0..1
    OBVIOUS
  <2> QED BY <2>1, RoundExact DEF Pick
<1>3. ASSUME NEW i \in 0..d, NEW j \in 0..d, i < j
      PROVE  /\ Pick(m, d, half, i) \in Nat /\ Pick(m, d, half, j) \in Nat
             /\ Pick(m, d, half, i) < Pick(m, d, half, j)
  <2>1. i \in Nat /\ j \in Nat /\ i + 1 <= j
    BY <1>3
  <2>2. m * (i + 1) <= m * j /\ m * (i + 1) = m * i + m
    BY <2>1, TimesIsMonotone
  <2>3. i * m = m * i /\ j * m = m * j /\ i * m \in Nat /\ j * m \in Nat
    BY <2>1
  <2>4. j * m > i * m + d
    BY <2>2, <2>3
  <2>5. half[i] \in 0..1 /\ half[j] \in 0..1
    OBVIOUS
  <2> QED BY <2>3, <2>4, <2>5, RoundSeparates DEF Pick
<1>4. ASSUME NEW i \in 0..d PROVE Pick(m, d, half, i) \in 0..m
  <2>1. CASE i = d
    BY <1>2, <2>1
  <2>2. CASE i < d
    BY <1>2, <1>3, <2>2
  <2> QED BY <2>1, <2>2
<1> QED BY <1>1, <1>2, <1>3, <1>4

(* Halves to the even neighbour make no two picks collide: the sample of a *)
(* larger bucket has exactly n members, the first and the last finding     *)
(* among them.                                                             *)
LEMMA SpacedIsSample ==
    ASSUME NEW S, IsFiniteSet(S), S \subseteq Nat,
           NEW n \in Nat \ {0, 1}, Cardinality(S) > n, NEW half \in Halves(n)
    PROVE  /\ Spaced(S, n, half) \subseteq S
           /\ Cardinality(Spaced(S, n, half)) = n
           /\ \A f \in S : \E g, h \in Spaced(S, n, half) : g <= f /\ f <= h
<1> DEFINE m == Cardinality(S) - 1
           d == n - 1
           T == Spaced(S, n, half)
           at == [i \in 0..d |-> CHOOSE f \in S : Rank(f, S) = Pick(m, d, half, i)]
<1>1. Cardinality(S) \in Nat
  BY FS_CardinalityType
<1>2. m \in Nat /\ d \in Nat \ {0} /\ m > d
  BY <1>1
<1>3. T = {f \in S : \E i \in 0..d : Rank(f, S) = Pick(m, d, half, i)}
  BY DEF Spaced, Pick, Picks
<1>h. half \in [0..d -> 0..1]
  BY DEF Halves, Picks
<1>4. /\ Pick(m, d, half, 0) = 0 /\ Pick(m, d, half, d) = m
      /\ \A i, j \in 0..d : i < j => Pick(m, d, half, i) < Pick(m, d, half, j)
      /\ \A i \in 0..d : Pick(m, d, half, i) \in 0..m
  <2> HIDE DEF m, d
  <2> QED BY <1>2, <1>h, PicksAreSpread
<1> HIDE DEF d, T
<1>5. \A i \in 0..d : at[i] \in S /\ Rank(at[i], S) = Pick(m, d, half, i)
  <2>1. \A i \in 0..d : \E f \in S : Rank(f, S) = Pick(m, d, half, i)
    BY <1>4, EveryRankTaken
  <2> QED BY <2>1, Zenon
<1> HIDE DEF m, at
<1>6. \A i \in 0..d : at[i] \in T
  BY <1>3, <1>5
<1>7. at \in [0..d -> T]
  BY <1>6 DEF at
<1>8. \A i, j \in 0..d : at[i] = at[j] => i = j
  <2>1. \A i, j \in 0..d : i < j \/ j < i \/ i = j
    BY <1>2
  <2>2. \A i \in 0..d : Pick(m, d, half, i) \in Nat
    BY <1>2, <1>4
  <2> QED BY <1>4, <1>5, <2>1, <2>2
<1>9. \A f \in T : \E i \in 0..d : at[i] = f
  <2>1. SUFFICES ASSUME NEW f \in T PROVE \E i \in 0..d : at[i] = f
    OBVIOUS
  <2>2. PICK i \in 0..d : f \in S /\ Rank(f, S) = Pick(m, d, half, i)
    BY <1>3
  <2>3. Rank(f, S) = Rank(at[i], S) /\ at[i] \in S
    BY <1>5, <2>2
  <2>4. Rank(f, S) <= Rank(at[i], S) /\ Rank(at[i], S) <= Rank(f, S)
    <3>1. Rank(f, S) \in Nat
      BY <2>2, RanksInOrder
    <3> QED BY <2>3, <3>1
  <2>5. f <= at[i]
    BY <2>2, <2>3, <2>4, RankIsPosition
  <2>6. at[i] <= f
    BY <2>2, <2>3, <2>4, RankIsPosition
  <2>7. f \in Nat /\ at[i] \in Nat
    BY <2>2, <2>3
  <2> QED BY <2>2, <2>5, <2>6, <2>7
<1>10. Cardinality(T) = n
  <2>1. at \in Bijection(0..d, T)
    BY <1>7, <1>8, <1>9 DEF Bijection, Injection, Surjection, IsInjective
  <2>2. IsFiniteSet(0..d) /\ Cardinality(0..d) = n
    BY <1>1, <1>2, FS_Interval DEF d
  <2> QED BY <2>1, <2>2, FS_Bijection DEF ExistsBijection
<1>11. ASSUME NEW f \in S PROVE \E g, h \in T : g <= f /\ f <= h
  <2>1. Rank(f, S) \in 0..m
    BY RanksInOrder DEF m
  <2>2. 0 \in 0..d /\ d \in 0..d
    BY <1>2
  <2>3. /\ at[0] \in T /\ at[0] \in S /\ Rank(at[0], S) <= Rank(f, S)
        /\ at[d] \in T /\ at[d] \in S /\ Rank(f, S) <= Rank(at[d], S)
    BY <1>2, <1>4, <1>5, <1>6, <2>1, <2>2
  <2>4. at[0] <= f /\ f <= at[d]
    BY <2>3, RankIsPosition
  <2> QED BY <2>3, <2>4
<1> QED BY <1>3, <1>10, <1>11 DEF T

(* ... so that it needs no top-up.                                         *)
LEMMA NothingToAdd ==
    ASSUME NEW S, IsFiniteSet(S), S \subseteq Nat,
           NEW n \in Nat \ {0, 1}, Cardinality(S) > n, NEW half \in Halves(n)
    PROVE  Sample(S, n, half) = Spaced(S, n, half)
<1> DEFINE T == Spaced(S, n, half)
<1>1. Cardinality(T) = n
  BY SpacedIsSample
<1> HIDE DEF T
<1>2. \A f \in S \ T : Rank(f, S \ T) \in Nat
  BY RanksInOrder, FS_Difference
<1>3. TopUp(T, S, n) = T
  <2>1. n - Cardinality(T) = 0
    BY <1>1
  <2>2. \A f \in S \ T : ~(Rank(f, S \ T) < 0)
    BY <1>2
  <2>3. {f \in S \ T : Rank(f, S \ T) < n - Cardinality(T)} = {}
    BY <2>1, <2>2
  <2> QED BY <2>3 DEF TopUp
<1>4. Sample(S, n, half) = TopUp(T, S, n)
  BY FS_CardinalityType DEF Sample, T
<1> QED BY <1>3, <1>4 DEF T

-----------------------------------------------------------------------------
(* An orchestrator only works through the commands of dedup.py.            *)

(* Every step is one of a dedup.py process, or leaves the tables and the   *)
(* processes alone.                                                        *)
LEMMA StepIsDedupStep == [TriageNext]_triageVars => [Next]_vars
<1> SUFFICES ASSUME [TriageNext]_triageVars PROVE [Next]_vars
  OBVIOUS
<1>1. CASE UNCHANGED triageVars
  BY <1>1 DEF triageVars
<1>2. ASSUME NEW key \in Keys, NEW hash \in Hashes, NEW path \in Paths,
             Register(key, hash, path)
      PROVE  [Next]_vars
  BY <1>2 DEF Next
<1>3. ASSUME NEW c \in Clients,
             \/ Start(c) \/ AgentFails(c) \/ Kill(c) \/ Exit(c)
             \/ \E force \in BOOLEAN, only \in SUBSET DOMAIN buckets :
                   StartByHand(c, force, only)
             \/ ReadFindings(c) \/ ReadSubClusters(c) \/ ReadUntriaged(c)
             \/ ReadRest(c) \/ ReadRestSubClusters(c) \/ AgentAnswers(c)
             \/ AssignRefused(c) \/ RecordRefused(c)
      PROVE  UNCHANGED vars
  BY <1>3 DEF Start, StartByHand, AgentFails, Kill, Exit, ReadFindings, ReadSubClusters,
              ReadUntriaged, ReadRest, ReadRestSubClusters, AgentAnswers,
              AssignRefused, RecordRefused
<1>4. ASSUME NEW c \in Clients, RecordSubClusters(c) PROVE Next
  <2>1. RecordCheck(c, Bucket(c), ReplaceForced(job[c]))
    BY <1>4 DEF RecordSubClusters
  <2>2. Bucket(c) \in DOMAIN buckets /\ ReplaceForced(job[c]) \in BOOLEAN
    BY <2>1 DEF RecordCheck, ReplaceForced
  <2> QED BY <2>1, <2>2 DEF Next
<1>5. ASSUME NEW c \in Clients,
             \/ AssignExisting(c) \/ AssignChecked(c) \/ Assigned(c)
             \/ Recorded(c) \/ RolledBack(c) \/ CommandDies(c) \/ OrphanAssigns(c)
      PROVE  Next
  <2>1. \/ AssignCheckTargets(c) \/ AssignCheckFindings(c) \/ AssignCommit(c)
        \/ RecordCommit(c) \/ RecordRollback(c) \/ AssignRollback(c) \/ Crash(c)
    BY <1>5 DEF AssignExisting, AssignChecked, Assigned, Recorded, RolledBack,
                CommandDies, OrphanAssigns
  <2> QED BY <2>1 DEF Next
<1> QED BY <1>1, <1>2, <1>3, <1>4, <1>5 DEF TriageNext, Step

(* Any number of orchestrators together do what dedup.py processes do: the *)
(* theorems about DedupDB are theorems about the triage.                   *)
THEOREM TriageImplementsDedupDB == TriageSpec => Spec
<1>1. TriageInit => Init
  BY DEF TriageInit
<1> QED BY <1>1, StepIsDedupStep, PTL DEF TriageSpec, Spec

(* What the oracles of one run start never puts a finding into a           *)
(* sub-cluster of another bucket: its lock leaves one orchestrator at a    *)
(* time, and that waits for each command.                                  *)
THEOREM SerialTriageAssignsInBucket ==
    ASSUME \A c, d \in Clients : c = d
    PROVE  TriageSpec => []AssignedInBucket
<1>1. Spec => []AssignedInBucket
  BY SerialAssignmentsCorrect
<1> QED BY <1>1, TriageImplementsDedupDB, PTL

-----------------------------------------------------------------------------
(* What an orchestrator knows at each step.                                *)

Working == {"findings", "subs", "untriaged", "agent", "assign", "record", "rest", "restSubs"}

Works(j) ==
    /\ j.at \in Working /\ j.failures \in Nat
    /\ j.force \in BOOLEAN /\ j.assigning \in BOOLEAN /\ j.disturbed \in BOOLEAN
    /\ j = [at |-> j.at, cap |-> j.cap, force |-> j.force, todo |-> j.todo,
            failures |-> j.failures, findings |-> j.findings,
            existing |-> j.existing, staged |-> j.staged,
            assigning |-> j.assigning, to |-> j.to, new |-> j.new,
            disturbed |-> j.disturbed]

Shaped(j) ==
    \/ j = NoJob
    \/ /\ j.at = "exit" /\ j.failures \in Nat
       /\ j = [at |-> "exit", failures |-> j.failures, disturbed |-> j.disturbed]
    \/ Works(j)

Past(j) == j.at \in Working \ {"findings"}

(* The findings that were read are findings of the bucket; what the agent  *)
(* has assigned covers what it saw.                                        *)
Planned(j) ==
    /\ Past(j) => j.findings # {} /\ j.findings \subseteq InBucket(Head(j.todo))
    /\ j.at \in {"findings", "subs", "untriaged", "rest"} => ~j.assigning
    /\ j.at \in {"assign", "restSubs"} => j.assigning
    /\ j.at \in {"assign", "record"} => DOMAIN j.to \cup Members(j.new) = j.staged
    /\ j.at = "record" /\ ~j.assigning => DOMAIN j.to = {}

(* Outside a first pass, what is not in front of the agent is in a         *)
(* sub-cluster, and so is what it has assigned before it records.          *)
Covering(j) ==
    j.assigning /\ ~j.disturbed =>
        /\ j.at \in {"restSubs", "agent", "assign", "record"}
              => j.findings \subseteq DOMAIN assigned \cup j.staged
        /\ j.at = "record" => DOMAIN j.to \subseteq DOMAIN assigned

(* The command that runs is the one the orchestrator waits for.            *)
Waiting(j, r) ==
    /\ j.at \in (Working \ {"assign", "record"}) \cup {"exit"} => r = Idle
    /\ j.at = "assign" => \/ r = Idle
                          \/ r.op \in {"targets", "assign"} /\ r.to = j.to
    /\ j.at = "record" => \/ r = Idle
                          \/ /\ r.op = "record" /\ r.payload = j.new
                             /\ r.replace = ReplaceForced(j)

Follows(j, r) == Shaped(j) /\ Planned(j) /\ Covering(j) /\ Waiting(j, r)

JobsOK ==
    /\ job = [c \in Clients |-> job[c]]
    /\ \A c \in Clients : Follows(job[c], cli[c])

-----------------------------------------------------------------------------
(* What a step leaves of the tables: findings stay in their bucket, and    *)
(* only the commit of a --replace takes a finding out of a sub-cluster.    *)
LEMMA TablesGrow ==
    ASSUME IInv, [Next]_vars
    PROVE  /\ \A b : InBucket(b) \subseteq InBucket(b)'
           /\ \/ assigned' = assigned
              \/ \E d \in Clients : RecordCommit(d) \/ AssignCommit(d)
           /\ \A d \in Clients : (AssignCommit(d) \/ (RecordCommit(d) /\ ~cli[d].replace))
                                  => DOMAIN assigned \subseteq DOMAIN assigned'
<1>1. \A b : InBucket(b) \subseteq InBucket(b)'
  <2>1. ASSUME NEW key \in Keys, NEW hash \in Hashes, NEW path \in Paths,
               Register(key, hash, path)
        PROVE  \A b : InBucket(b) \subseteq InBucket(b)'
    <3>1. NextId(DOMAIN findings) \notin DOMAIN findings
      BY NextIdIsFresh DEF IInv, TablesOK, RowsOK, Ids
    <3>2. \A f \in DOMAIN findings : f \in DOMAIN findings' /\ findings'[f] = findings[f]
      BY <2>1, <3>1 DEF Register, Put
    <3> QED BY <3>2 DEF InBucket
  <2>2. CASE findings' = findings
    BY <2>2 DEF InBucket
  <2> QED BY <2>1, <2>2 DEF Next, vars, db, RecordCheck, RecordCommit, RecordRollback,
              AssignCheckTargets, AssignCheckFindings, AssignCommit, AssignRollback, Crash
<1>2. ASSUME NEW d \in Clients, RecordCommit(d), ~cli[d].replace
      PROVE  DOMAIN assigned \subseteq DOMAIN assigned'
  <2>1. Deleted(cli[d]) = {}
    BY <1>2 DEF Deleted
  <2>2. KeptAssigned(cli[d]) = DOMAIN assigned
    BY <2>1 DEF KeptAssigned
  <2> QED BY <1>2, <2>2 DEF RecordCommit, AssignedAfter
<1>3. ASSUME NEW d \in Clients, AssignCommit(d)
      PROVE  DOMAIN assigned \subseteq DOMAIN assigned'
  BY <1>3 DEF AssignCommit
<1>4. \/ assigned' = assigned
      \/ \E d \in Clients : RecordCommit(d) \/ AssignCommit(d)
  BY DEF Next, vars, db, Register, RecordCheck, RecordRollback,
         AssignCheckTargets, AssignCheckFindings, AssignRollback, Crash
<1> QED BY <1>1, <1>2, <1>3, <1>4

(* An orchestrator that another step passes by still knows what it knew.   *)
LEMMA BystanderFollows ==
    ASSUME NEW c \in Clients, Follows(job[c], cli[c]), cli'[c] = cli[c],
           \A b : InBucket(b) \subseteq InBucket(b)',
           \/ /\ job'[c] = job[c]
              /\ job[c] # NoJob => DOMAIN assigned \subseteq DOMAIN assigned'
           \/ job[c] # NoJob /\ job'[c] = [job[c] EXCEPT !.disturbed = TRUE]
    PROVE  Follows(job[c], cli[c])'
<1>1. CASE job[c] = NoJob
  BY <1>1 DEF Follows, Shaped, Works, Planned, Covering, Waiting, Past, NoJob, Working
<1>2. CASE job[c].at = "exit" /\ job[c] # NoJob
  BY <1>2 DEF Follows, Shaped, Works, Planned, Covering, Waiting, Past, NoJob, Working
<1>3. CASE job[c].at \in Working /\ job[c] # NoJob
  <2>1. Shaped(job[c])' /\ \A k \in {"at", "force", "todo", "failures", "findings",
            "existing", "staged", "assigning", "to", "new"} : job'[c][k] = job[c][k]
    BY <1>3 DEF Follows, Shaped, Works, NoJob, Working
  <2>2. Planned(job[c])'
    BY <1>3, <2>1 DEF Follows, Planned, Past, Working
  <2>3. Covering(job[c])'
    BY <1>3, <2>1 DEF Follows, Covering, Shaped, Works, Working, NoJob
  <2>4. Waiting(job[c], cli[c])'
    BY <1>3, <2>1 DEF Follows, Waiting, ReplaceForced
  <2> QED BY <2>1, <2>2, <2>3, <2>4 DEF Follows
<1>4. Works(job[c]) => job[c].at \in Working /\ job[c] # NoJob
  BY DEF Works, Working, NoJob
<1> QED BY <1>1, <1>2, <1>3, <1>4 DEF Follows, Shaped, NoJob

(* At the start of a bucket, and after the last, there is nothing to know. *)
LEMMA BeginFollows ==
    ASSUME NEW c \in Clients, cli'[c] = Idle,
           NEW cap, NEW force \in BOOLEAN, NEW todo, NEW failures \in Nat,
           job'[c] = Begin(cap, force, todo, failures)
    PROVE  Follows(job[c], cli[c])'
<1>1. CASE todo = <<>>
  BY <1>1 DEF Begin, Follows, Shaped, Works, Planned, Covering, Waiting, Past, Working
<1>2. CASE todo # <<>>
  BY <1>2 DEF Begin, Follows, Shaped, Works, Planned, Covering, Waiting, Past, Working
<1> QED BY <1>1, <1>2

(* Starting, ending a bucket without a command, and failing.               *)
LEMMA TurnFollows ==
    ASSUME JobsOK, NEW c \in Clients, cli'[c] = Idle,
           \/ \E cap : \E force \in BOOLEAN : \E todo : job' = [job EXCEPT ![c] = Begin(cap, force, todo, 0)]
           \/ job[c].at \in Working /\ Succeed(c)
           \/ job[c].at \in Working /\ Fail(c)
    PROVE  Follows(job[c], cli[c])'
<1>1. Follows(job[c], cli[c]) /\ job = [d \in Clients |-> job[d]]
  BY DEF JobsOK
<1>2. ASSUME NEW cap, NEW force \in BOOLEAN, NEW todo, job' = [job EXCEPT ![c] = Begin(cap, force, todo, 0)]
      PROVE  Follows(job[c], cli[c])'
  <2>1. job'[c] = Begin(cap, force, todo, 0)
    BY <1>1, <1>2
  <2> QED BY <2>1, BeginFollows
<1>3. ASSUME job[c].at \in Working, Succeed(c) \/ Fail(c)
      PROVE  Follows(job[c], cli[c])'
  <2>1. job[c].force \in BOOLEAN /\ job[c].failures \in Nat
    BY <1>1, <1>3 DEF Follows, Shaped, Works, NoJob, Working
  <2>2. \/ job'[c] = Begin(job[c].cap, job[c].force, Tail(job[c].todo), job[c].failures)
        \/ job'[c] = Begin(job[c].cap, job[c].force, Tail(job[c].todo), job[c].failures + 1)
    BY <1>1, <1>3 DEF Succeed, Fail, Done, Failed
  <2>3. job[c].failures + 1 \in Nat
    BY <2>1
  <2> QED BY <2>1, <2>2, <2>3, BeginFollows
<1> QED BY <1>2, <1>3

(* Reading a bucket.                                                       *)
LEMMA ReadingFollows ==
    ASSUME JobsOK, NEW c \in Clients,
           \/ ReadFindings(c) \/ ReadSubClusters(c) \/ ReadUntriaged(c)
           \/ ReadRest(c) \/ ReadRestSubClusters(c)
    PROVE  Follows(job[c], cli[c])'
<1>j. PICK j : j = job[c]
  OBVIOUS
<1>1. Follows(j, cli[c]) /\ job = [d \in Clients |-> job[d]]
  BY <1>j DEF JobsOK
<1>2. /\ j.at \in {"findings", "subs", "untriaged", "rest", "restSubs"}
      /\ UNCHANGED vars
  BY <1>j DEF ReadFindings, ReadSubClusters, ReadUntriaged, ReadRest,
                ReadRestSubClusters, At
<1>3. /\ cli'[c] = Idle /\ assigned' = assigned
      /\ \A b : InBucket(b)' = InBucket(b) /\ Untriaged(b)' = Untriaged(b)
  BY <1>1, <1>2 DEF Follows, Waiting, Working, vars, InBucket, Untriaged
<1>4. Works(j) /\ Planned(j) /\ Covering(j)
  BY <1>1, <1>2 DEF Follows, Shaped, NoJob
<1>5. CASE Succeed(c) \/ Fail(c)
  BY <1>3, <1>4, <1>5, <1>j, TurnFollows DEF Works
<1>6. ASSUME ReadFindings(c), ~Succeed(c), ~Fail(c) PROVE Follows(job[c], cli[c])'
  <2>1. /\ FindingsInBucket(Bucket(c)) # {}
        /\ job'[c] = [j EXCEPT !.at = "subs", !.findings = FindingsInBucket(Bucket(c))]
        /\ j.at = "findings"
    BY <1>1, <1>6, <1>j DEF ReadFindings, At
  <2>2. ~j.assigning
    BY <1>4, <2>1 DEF Planned
  <2>k. PICK k : k = job'[c]
    OBVIOUS
  <2>3. /\ Works(k) /\ k.at = "subs"
        /\ k.findings = FindingsInBucket(Bucket(c))
        /\ k.todo = j.todo /\ k.assigning = j.assigning
    BY <1>4, <2>k, <2>1 DEF Works, Working
  <2> QED BY <1>j, <2>k, <1>3, <2>1, <2>2, <2>3
          DEF Follows, Shaped, Planned, Covering, Waiting, Past, Working, FindingsInBucket, Bucket
<1>7. ASSUME ReadSubClusters(c), ~Fail(c) PROVE Follows(job[c], cli[c])'
  <2>1. j.at = "subs" /\ ~j.assigning
    BY <1>4, <1>7, <1>j DEF ReadSubClusters, At, Planned
  <2>2. PICK known, S : \/ job'[c] = [j EXCEPT !.at = "untriaged", !.existing = known]
                        \/ job'[c] = [j EXCEPT !.at = "agent", !.staged = S,
                                               !.existing = known]
    <3>1. PICK known :
            \/ job' = [job EXCEPT ![c] = [j EXCEPT !.at = "untriaged", !.existing = known]]
            \/ \E half : job' = [job EXCEPT ![c] =
                                  Stage(j, Sample(j.findings, j.cap, half), known)]
      BY <1>7, <1>j DEF ReadSubClusters
    <3>2. \/ job'[c] = [j EXCEPT !.at = "untriaged", !.existing = known]
          \/ \E half : job'[c] = Stage(j, Sample(j.findings, j.cap, half), known)
      BY <1>1, <1>j, <3>1
    <3>3. CASE \E half : job'[c] = Stage(j, Sample(j.findings, j.cap, half), known)
      <4>1. PICK S : job'[c] = Stage(j, S, known)
        BY <3>3
      <4> QED BY <4>1 DEF Stage
    <3> QED BY <3>2, <3>3
  <2>k. PICK k : k = job'[c]
    OBVIOUS
  <2>3. /\ Works(k)
        /\ k.at \in {"untriaged", "agent"}
        /\ k.findings = j.findings /\ k.todo = j.todo
        /\ k.assigning = j.assigning
    BY <1>4, <2>k, <2>1, <2>2 DEF Works, Working
  <2> QED BY <1>j, <2>k, <1>3, <1>4, <2>1, <2>3
          DEF Follows, Shaped, Planned, Covering, Waiting, Past, Working
<1>8. ASSUME ReadUntriaged(c) \/ ReadRest(c), ~Succeed(c) PROVE Follows(job[c], cli[c])'
  <2>1. /\ j.at \in {"untriaged", "rest"}
        /\ \/ job'[c] = [[j EXCEPT !.assigning = TRUE] EXCEPT !.at = "agent",
                    !.staged = j.findings \cap Untriaged(Bucket(c)), !.existing = j.existing]
           \/ job'[c] = [j EXCEPT !.at = "restSubs", !.assigning = TRUE,
                    !.staged = j.findings \cap Untriaged(Bucket(c))]
    BY <1>1, <1>8, <1>j DEF ReadUntriaged, ReadRest, Stage, At
  <2>2. j.findings \subseteq InBucket(Bucket(c)) /\ j.findings # {}
    BY <1>4, <2>1, <1>j DEF Planned, Past, Working, Bucket
  <2>3. j.findings \subseteq DOMAIN assigned \cup (j.findings \cap Untriaged(Bucket(c)))
    BY <2>2 DEF Untriaged
  <2>k. PICK k : k = job'[c]
    OBVIOUS
  <2>4. /\ Works(k) /\ k.at \in {"agent", "restSubs"}
        /\ k.staged = j.findings \cap Untriaged(Bucket(c))
        /\ k.findings = j.findings /\ k.todo = j.todo
        /\ k.assigning
    <3>1. CASE k = [[j EXCEPT !.assigning = TRUE] EXCEPT !.at = "agent",
                    !.staged = j.findings \cap Untriaged(Bucket(c)), !.existing = j.existing]
      BY <1>4, <3>1 DEF Works, Working
    <3>2. CASE k = [j EXCEPT !.at = "restSubs", !.assigning = TRUE,
                    !.staged = j.findings \cap Untriaged(Bucket(c))]
      BY <1>4, <3>2 DEF Works, Working
    <3> QED BY <2>k, <2>1, <3>1, <3>2
  <2> QED BY <1>j, <2>k, <1>3, <2>2, <2>3, <2>4
          DEF Follows, Shaped, Planned, Covering, Waiting, Past, Working, Bucket
<1>9. ASSUME ReadRestSubClusters(c) PROVE Follows(job[c], cli[c])'
  <2>1. PICK known : job'[c] = [j EXCEPT !.at = "agent", !.staged = j.staged,
                                        !.existing = known]
    BY <1>1, <1>9, <1>j DEF ReadRestSubClusters, Stage
  <2>2. j.at = "restSubs" /\ j.assigning
    BY <1>4, <1>9, <1>j DEF ReadRestSubClusters, At, Planned
  <2>k. PICK k : k = job'[c]
    OBVIOUS
  <2>3. /\ Works(k) /\ k.at = "agent" /\ k.assigning
        /\ k.findings = j.findings /\ k.todo = j.todo /\ k.staged = j.staged
        /\ k.disturbed = j.disturbed
    <3>1. k = [j EXCEPT !.at = "agent", !.staged = j.staged, !.existing = known]
      BY <2>k, <2>1
    <3>2. /\ k.at = "agent" /\ k.failures = j.failures /\ k.force = j.force
          /\ k.assigning = j.assigning /\ k.disturbed = j.disturbed
      BY <1>4, <3>1 DEF Works
    <3>3. k.findings = j.findings /\ k.todo = j.todo /\ k.staged = j.staged
      BY <1>4, <3>1 DEF Works
    <3>4. k = [at |-> k.at, cap |-> k.cap, force |-> k.force, todo |-> k.todo,
               failures |-> k.failures, findings |-> k.findings,
               existing |-> k.existing, staged |-> k.staged,
               assigning |-> k.assigning, to |-> k.to, new |-> k.new,
               disturbed |-> k.disturbed]
      BY <1>4, <3>1 DEF Works
    <3> QED BY <1>4, <2>2, <3>2, <3>3, <3>4 DEF Works, Working
  <2> QED BY <1>j, <2>k, <1>3, <1>4, <2>2, <2>3
          DEF Follows, Shaped, Planned, Covering, Waiting, Past, Working
<1> QED BY <1>5, <1>6, <1>7, <1>8, <1>9

(* The answer of the agent.                                                *)
LEMMA AnswerFollows ==
    ASSUME JobsOK, NEW c \in Clients, AgentAnswers(c)
    PROVE  Follows(job[c], cli[c])'
<1>j. PICK j : j = job[c]
  OBVIOUS
<1>1. Follows(j, cli[c]) /\ job = [d \in Clients |-> job[d]]
  BY <1>j DEF JobsOK
<1>2. j.at = "agent" /\ UNCHANGED vars
  BY <1>j DEF AgentAnswers, At
<1>3. /\ cli'[c] = Idle /\ assigned' = assigned
      /\ \A b : InBucket(b)' = InBucket(b)
  BY <1>1, <1>2 DEF Follows, Waiting, Working, vars, InBucket
<1>4. Works(j) /\ Planned(j) /\ Covering(j)
  BY <1>1, <1>2 DEF Follows, Shaped, NoJob
<1>5. PICK a \in Answers(j.staged, IF j.assigning THEN j.existing ELSE {}) :
         /\ Partitions(a, j.staged)
         /\ job' = [job EXCEPT ![c] =
              LET told == [j EXCEPT !.to = a.to, !.new = a.new] IN
              IF a.to # <<>> THEN [told EXCEPT !.at = "assign"] ELSE AfterAssign(told)]
  BY <1>j DEF AgentAnswers
<1> DEFINE told == [j EXCEPT !.to = a.to, !.new = a.new]
<1>6. DOMAIN a.to \cup Members(a.new) = j.staged
  BY <1>5 DEF Partitions
<1>7. ~j.assigning => a.to = <<>>
  <2>1. SUFFICES ASSUME ~j.assigning PROVE a.to = <<>>
    OBVIOUS
  <2>4. a.to \in UNION {[F -> {}] : F \in SUBSET j.staged}
    <3>1. a \in Answers(j.staged, {})
      BY <1>5, <2>1
    <3> QED BY <3>1 DEF Answers
  <2>2. PICK F \in SUBSET j.staged : a.to \in [F -> {}]
    BY <2>4, Zenon
  <2>3. F = {}
    BY <2>2
  <2> QED BY <2>2, <2>3
<1>8. CASE a.to # <<>>
  <2>1. job'[c] = [told EXCEPT !.at = "assign"]
    BY <1>1, <1>5, <1>8, <1>j
  <2>2. j.assigning
    BY <1>7, <1>8
  <2>k. PICK k : k = job'[c]
    OBVIOUS
  <2>3. /\ Works(k) /\ k.at = "assign"
        /\ k.to = a.to /\ k.new = a.new
        /\ \A x \in {"findings", "todo", "staged", "assigning", "disturbed"} :
              k[x] = j[x]
    BY <1>2, <1>4, <2>k, <2>1 DEF Works, Working
  <2> QED BY <1>j, <2>k, <1>2, <1>3, <1>4, <1>6, <2>2, <2>3
          DEF Follows, Shaped, Planned, Covering, Waiting, Past, Working
<1>9. CASE a.to = <<>> /\ ~(j.assigning /\ a.new = <<>>)
  <2>1. told.new = a.new /\ told.assigning = j.assigning
    BY <1>2, <1>4 DEF Works
  <2>2. job'[c] = [told EXCEPT !.at = "record"]
    BY <1>1, <1>5, <1>9, <1>j, <2>1 DEF AfterAssign
  <2>k. PICK k : k = job'[c]
    OBVIOUS
  <2>3. /\ Works(k) /\ k.at = "record"
        /\ k.to = a.to /\ k.new = a.new
        /\ \A x \in {"findings", "todo", "staged", "assigning", "disturbed"} :
              k[x] = j[x]
    BY <1>2, <1>4, <2>k, <2>2 DEF Works, Working
  <2>4. DOMAIN a.to = {}
    BY <1>9
  <2> QED BY <1>j, <2>k, <1>2, <1>3, <1>4, <1>6, <2>3, <2>4
          DEF Follows, Shaped, Planned, Covering, Waiting, Past, Working
<1>10. CASE a.to = <<>> /\ j.assigning /\ a.new = <<>>
  <2>1. /\ told.new = a.new /\ told.force = j.force /\ told.todo = j.todo
        /\ told.failures = j.failures /\ told.assigning /\ told.cap = j.cap
    BY <1>2, <1>4, <1>10 DEF Works
  <2>2. job'[c] = Begin(j.cap, j.force, Tail(j.todo), j.failures)
    BY <1>1, <1>5, <1>10, <1>j, <2>1 DEF AfterAssign, Done
  <2>3. j.force \in BOOLEAN /\ j.failures \in Nat
    BY <1>2, <1>4 DEF Works
  <2> QED BY <1>3, <2>2, <2>3, BeginFollows
<1> QED BY <1>8, <1>9, <1>10

(* Waiting for a command.                                                  *)
LEMMA RequestFollows ==
    ASSUME IInv, JobsOK, NEW c \in Clients, AssignExisting(c) \/ RecordSubClusters(c)
    PROVE  Follows(job[c], cli[c])'
<1>j. PICK j : j = job[c]
  OBVIOUS
<1>1. /\ Follows(j, cli[c]) /\ cli = [d \in Clients |-> cli[d]]
      /\ j.at \in {"assign", "record"} /\ job' = job
  BY <1>j DEF JobsOK, IInv, RequestsOK, AssignExisting, RecordSubClusters, At
<1>2. assigned' = assigned /\ \A b : InBucket(b)' = InBucket(b)
  BY DEF AssignExisting, RecordSubClusters, AssignCheckTargets, RecordCheck, db, InBucket
<1>3. Works(j) /\ Planned(j)' /\ Covering(j)'
  BY <1>1, <1>2 DEF Follows, Shaped, NoJob, Planned, Covering
<1>4. CASE AssignExisting(c)
  <2>1. j.at = "assign" /\ cli'[c].to = j.to
    BY <1>j, <1>4 DEF AssignExisting, At
  <2>2. cli'[c].op = "targets"
    BY <1>1, <1>4 DEF AssignExisting, AssignCheckTargets
  <2> QED BY <1>1, <1>3, <1>j, <2>1, <2>2 DEF Follows, Shaped, Waiting, Working
<1>5. CASE RecordSubClusters(c)
  <2>1. j.at = "record" /\ cli'[c].payload = j.new
    BY <1>j, <1>5 DEF RecordSubClusters, At
  <2>2. cli'[c].op = "record" /\ cli'[c].replace = ReplaceForced(j)
    BY <1>1, <1>5, <1>j DEF RecordSubClusters, RecordCheck
  <2> QED BY <1>1, <1>3, <1>j, <2>1, <2>2 DEF Follows, Shaped, Waiting, Working
<1> QED BY <1>4, <1>5

(* The end of a command.  An assign-existing has put every finding of its  *)
(* request into a sub-cluster...                                           *)
LEMMA AssignFollows ==
    ASSUME IInv, JobsOK, NEW c \in Clients, AssignChecked(c) \/ Assigned(c)
    PROVE  Follows(job[c], cli[c])'
<1>j. PICK j : j = job[c]
  OBVIOUS
<1>1. /\ Follows(j, cli[c]) /\ cli = [d \in Clients |-> cli[d]]
      /\ job = [d \in Clients |-> job[d]] /\ j.at = "assign"
  BY <1>j DEF JobsOK, IInv, RequestsOK, AssignChecked, Assigned, At
<1>2. /\ Works(j) /\ Planned(j) /\ Covering(j) /\ j.assigning
      /\ \A b : InBucket(b)' = InBucket(b)
  BY <1>1 DEF Follows, Shaped, NoJob, Planned, AssignChecked, Assigned,
              AssignCheckFindings, AssignCommit, db, InBucket
<1>3. CASE AssignChecked(c)
  <2>1. cli[c].op = "targets" /\ cli[c].to = j.to /\ assigned' = assigned
    BY <1>1, <1>3 DEF AssignChecked, AssignCheckFindings, db, Follows, Waiting, Idle
  <2>2. CASE cli'[c] = Idle
    <3>1. Fail(c) /\ job[c].at \in Working
      BY <1>1, <1>3, <1>j, <2>2 DEF AssignChecked, Working
    <3> QED BY <2>2, <3>1, TurnFollows
  <2>3. CASE cli'[c] # Idle
    <3>1. job' = job /\ cli'[c] = [op |-> "assign", to |-> j.to]
      BY <1>1, <1>3, <2>1, <2>3 DEF AssignChecked, AssignCheckFindings
    <3>2. Planned(j)' /\ Covering(j)'
      BY <1>2, <2>1 DEF Planned, Covering
    <3> QED BY <1>1, <1>2, <1>j, <3>1, <3>2 DEF Follows, Shaped, Waiting, Working
  <2> QED BY <2>2, <2>3
<1>4. CASE Assigned(c)
  <2>1. cli[c].to = j.to /\ cli'[c] = Idle
    BY <1>1, <1>4 DEF Assigned, AssignCommit, Finish, Follows, Waiting, Idle
  <2>2. DOMAIN assigned' = DOMAIN assigned \cup DOMAIN j.to
    BY <1>4, <2>1 DEF Assigned, AssignCommit
  <2>3. job'[c] = AfterAssign(j)
    BY <1>1, <1>4, <1>j DEF Assigned
  <2>4. CASE j.new = <<>>
    <3>1. job'[c] = Begin(j.cap, j.force, Tail(j.todo), j.failures)
      BY <1>2, <2>3, <2>4 DEF AfterAssign, Done
    <3> QED BY <1>2, <2>1, <3>1, BeginFollows DEF Works
  <2>5. CASE j.new # <<>>
    <3>1. PICK k : k = job'[c]
      OBVIOUS
    <3>2. k = [j EXCEPT !.at = "record"]
      BY <2>3, <2>5, <3>1 DEF AfterAssign
    <3>3. /\ Works(k) /\ k.at = "record" /\ k.assigning /\ k.disturbed = j.disturbed
          /\ k.findings = j.findings /\ k.todo = j.todo /\ k.staged = j.staged
          /\ k.to = j.to /\ k.new = j.new
      BY <1>2, <3>2 DEF Works, Working
    <3>4. Planned(k)'
      BY <1>1, <1>2, <3>3 DEF Planned, Past, Working
    <3>5. Covering(k)'
      BY <1>1, <1>2, <2>2, <3>3 DEF Covering
    <3> QED BY <2>1, <3>1, <3>3, <3>4, <3>5 DEF Follows, Shaped, Waiting, Working
  <2> QED BY <2>4, <2>5
<1> QED BY <1>3, <1>4

(* ... and a record-sub-clusters every member of its payload.              *)
LEMMA RecordFollows ==
    ASSUME IInv, JobsOK, NEW c \in Clients, Recorded(c)
    PROVE  Follows(job[c], cli[c])'
<1>j. PICK j : j = job[c]
  OBVIOUS
<1>1. /\ Follows(j, cli[c]) /\ cli = [d \in Clients |-> cli[d]]
      /\ job = [d \in Clients |-> job[d]]
  BY <1>j DEF JobsOK, IInv, RequestsOK
<1>2. /\ cli[c].op = "record" /\ cli'[c] = Idle
      /\ \A b : InBucket(b)' = InBucket(b)
  BY <1>1 DEF Recorded, RecordCommit, Finish, InBucket
<1>3. j = NoJob \/ j.at = "record"
  <2>1. j = NoJob \/ j.at \in Working \cup {"exit"}
    BY <1>1 DEF Follows, Shaped, Works
  <2>2. cli[c].op \notin {"idle", "targets", "assign"}
    BY <1>2
  <2>3. j.at \notin Working \ {"record"} /\ j.at # "exit"
    BY <1>1, <2>2 DEF Follows, Waiting, Working, Idle
  <2> QED BY <2>1, <2>3
<1>4. job'[c] = IF j.at = "record" THEN AfterRecord(j) ELSE j
  BY <1>1, <1>j DEF Recorded, Disturb, At
<1>5. CASE j = NoJob
  <2>1. job'[c] = NoJob
    BY <1>4, <1>5 DEF NoJob
  <2> QED BY <1>2, <2>1
          DEF Follows, Shaped, Planned, Covering, Waiting, Past, Working, NoJob
<1>6. CASE j.at = "record"
  <2>1. Works(j) /\ Planned(j)
    BY <1>1, <1>6 DEF Follows, Shaped, NoJob
  <2>2. CASE ~(~j.assigning /\ j.staged # j.findings)
    <3>1. job'[c] = Begin(j.cap, j.force, Tail(j.todo), j.failures)
      BY <1>4, <1>6, <2>2 DEF AfterRecord, Done
    <3> QED BY <1>2, <2>1, <3>1, BeginFollows DEF Works
  <2>3. CASE ~j.assigning /\ j.staged # j.findings
    <3>1. PICK k : k = job'[c]
      OBVIOUS
    <3>2. k = [j EXCEPT !.at = "rest", !.new = <<>>]
      BY <1>4, <1>6, <2>3, <3>1 DEF AfterRecord
    <3>3. /\ Works(k) /\ k.at = "rest" /\ ~k.assigning
          /\ k.findings = j.findings /\ k.todo = j.todo
      BY <2>1, <2>3, <3>2 DEF Works, Working
    <3> QED BY <1>2, <1>6, <2>1, <3>1, <3>3
            DEF Follows, Shaped, Planned, Covering, Waiting, Past, Working
  <2> QED BY <2>2, <2>3
<1> QED BY <1>3, <1>5, <1>6

(* What a step of one orchestrator, other than the end of a                *)
(* record-sub-clusters, leaves of the others.                              *)
LEMMA OneActs ==
    ASSUME IInv, JobsOK, NEW d \in Clients,
           \/ Start(d)
           \/ \E force \in BOOLEAN, only \in SUBSET DOMAIN buckets :
                 StartByHand(d, force, only)
           \/ AgentFails(d) \/ CommandDies(d) \/ Kill(d) \/ OrphanAssigns(d)
           \/ Step(d) /\ ~Recorded(d)
    PROVE  /\ job' = [c \in Clients |-> job'[c]]
           /\ \A c \in Clients \ {d} : job'[c] = job[c] /\ cli'[c] = cli[c]
           /\ DOMAIN assigned \subseteq DOMAIN assigned'
<1> USE DEF At, Succeed, Fail
<1>1. job = [c \in Clients |-> job[c]] /\ cli = [c \in Clients |-> cli[c]]
  BY DEF JobsOK, IInv, RequestsOK
<1>2. CASE \/ Start(d) \/ AgentFails(d) \/ Kill(d)
           \/ \E force \in BOOLEAN, only \in SUBSET DOMAIN buckets :
                 StartByHand(d, force, only)
  BY <1>1, <1>2 DEF Start, StartByHand, AgentFails, Kill, vars
<1>3. CASE \/ ReadFindings(d) \/ ReadSubClusters(d) \/ ReadUntriaged(d)
           \/ ReadRest(d) \/ ReadRestSubClusters(d) \/ AgentAnswers(d)
           \/ AssignRefused(d) \/ RecordRefused(d) \/ Exit(d)
  BY <1>1, <1>3 DEF ReadFindings, ReadSubClusters, ReadUntriaged, ReadRest,
       ReadRestSubClusters, AgentAnswers, AssignRefused, RecordRefused, Exit, vars
<1>4. CASE AssignExisting(d) \/ RecordSubClusters(d)
  BY <1>1, <1>4 DEF AssignExisting, RecordSubClusters, AssignCheckTargets, RecordCheck, db
<1>5. CASE AssignChecked(d) \/ RolledBack(d) \/ CommandDies(d)
  BY <1>1, <1>5 DEF AssignChecked, RolledBack, CommandDies, AssignCheckFindings,
       RecordRollback, AssignRollback, Crash, Finish, db
<1>6. CASE Assigned(d) \/ OrphanAssigns(d)
  BY <1>1, <1>6 DEF Assigned, OrphanAssigns, AssignCheckFindings, AssignCommit, Finish, db
<1> QED BY <1>2, <1>3, <1>4, <1>5, <1>6 DEF Step

(* The orchestrator itself.                                                *)
LEMMA ActorFollows ==
    ASSUME IInv, JobsOK, NEW c \in Clients,
           \/ Start(c)
           \/ \E force \in BOOLEAN, only \in SUBSET DOMAIN buckets :
                 StartByHand(c, force, only)
           \/ AgentFails(c) \/ CommandDies(c) \/ Kill(c) \/ OrphanAssigns(c) \/ Step(c)
    PROVE  Follows(job[c], cli[c])'
<1>1. /\ Follows(job[c], cli[c]) /\ cli = [d \in Clients |-> cli[d]]
      /\ job = [d \in Clients |-> job[d]]
  BY DEF JobsOK, IInv, RequestsOK
<1>2. job[c] = NoJob \/ job[c].at = "exit" \/ Works(job[c])
  BY <1>1 DEF Follows, Shaped
<1>3. Works(job[c]) => job[c].at \in Working
  BY DEF Works
<1>4. ASSUME job'[c] = NoJob PROVE Follows(job[c], cli[c])'
  BY <1>4 DEF Follows, Shaped, Planned, Covering, Waiting, Past, Working, NoJob
<1>5. CASE Start(c)
  BY <1>5, TurnFollows DEF Start, vars
<1>6. ASSUME NEW force \in BOOLEAN, NEW only \in SUBSET DOMAIN buckets,
             StartByHand(c, force, only)
      PROVE  Follows(job[c], cli[c])'
  BY <1>6, TurnFollows DEF StartByHand, vars
<1>7. CASE AgentFails(c) \/ AssignRefused(c) \/ RecordRefused(c)
  <2>1. job[c].at \in {"agent", "assign", "record"} /\ Fail(c) /\ cli' = cli
    BY <1>7 DEF AgentFails, AssignRefused, RecordRefused, At, vars
  <2>2. cli[c] = Idle
    BY <1>1, <1>7 DEF AgentFails, AssignRefused, RecordRefused, At, Follows, Waiting, Working
  <2> QED BY <2>1, <2>2, TurnFollows DEF Working
<1>8. CASE RolledBack(c) \/ CommandDies(c)
  <2>1. /\ cli'[c] = Idle /\ cli[c] # Idle
        /\ IF At(c, "none") THEN job' = job ELSE Fail(c)
    BY <1>1, <1>8 DEF RolledBack, CommandDies, RecordRollback, AssignRollback, Crash,
                      Finish, Idle
  <2>2. CASE job[c] = NoJob
    BY <1>4, <2>1, <2>2 DEF At, NoJob
  <2>3. CASE job[c] # NoJob
    <3>1. job[c].at # "exit"
      BY <1>1, <2>1 DEF Follows, Waiting
    <3>2. job[c].at \in Working
      BY <1>2, <1>3, <2>3, <3>1
    <3> QED BY <2>1, <3>2, TurnFollows DEF At, Working
  <2> QED BY <2>2, <2>3
<1>9. CASE Kill(c) \/ Exit(c)
  BY <1>1, <1>4, <1>9 DEF Kill, Exit
<1>10. CASE OrphanAssigns(c)
  <2>1. job' = job /\ job[c].at = "none"
    BY <1>10 DEF OrphanAssigns, At
  <2>2. job[c] = NoJob
    BY <1>2, <1>3, <2>1 DEF Working
  <2> QED BY <1>4, <2>1, <2>2
<1> QED BY <1>5, <1>6, <1>7, <1>8, <1>9, <1>10, ReadingFollows, AnswerFollows,
           RequestFollows, AssignFollows, RecordFollows DEF Step

(* Every step keeps what the orchestrators know.                           *)
LEMMA NextFollows == IInv /\ JobsOK /\ [TriageNext]_triageVars => JobsOK'
<1> SUFFICES ASSUME IInv, JobsOK, [TriageNext]_triageVars PROVE JobsOK'
  OBVIOUS
<1>1. /\ \A b : InBucket(b) \subseteq InBucket(b)'
      /\ \A d \in Clients : (AssignCommit(d) \/ (RecordCommit(d) /\ ~cli[d].replace))
                             => DOMAIN assigned \subseteq DOMAIN assigned'
  BY StepIsDedupStep, TablesGrow
<1>2. /\ job = [d \in Clients |-> job[d]] /\ cli = [d \in Clients |-> cli[d]]
      /\ \A c \in Clients : Follows(job[c], cli[c])
  BY DEF JobsOK, IInv, RequestsOK
<1>3. CASE UNCHANGED triageVars
  <2>1. \A c \in Clients : Follows(job[c], cli[c])'
    BY <1>1, <1>2, <1>3, BystanderFollows DEF triageVars, vars
  <2> QED BY <1>2, <1>3, <2>1 DEF JobsOK, triageVars
<1>4. ASSUME NEW key \in Keys, NEW hash \in Hashes, NEW path \in Paths,
             Register(key, hash, path), UNCHANGED <<job, trouble>>
      PROVE  JobsOK'
  <2>1. cli' = cli /\ assigned' = assigned /\ job' = job
    BY <1>4 DEF Register
  <2>2. \A c \in Clients : Follows(job[c], cli[c])'
    BY <1>1, <1>2, <2>1, BystanderFollows
  <2> QED BY <1>2, <2>1, <2>2 DEF JobsOK
<1>5. ASSUME NEW d \in Clients,
             \/ Start(d)
             \/ \E force \in BOOLEAN, only \in SUBSET DOMAIN buckets :
                   StartByHand(d, force, only)
             \/ AgentFails(d) \/ CommandDies(d) \/ Kill(d) \/ OrphanAssigns(d)
             \/ Step(d) /\ ~Recorded(d)
      PROVE  JobsOK'
  <2>1. /\ job' = [c \in Clients |-> job'[c]]
        /\ \A c \in Clients \ {d} : job'[c] = job[c] /\ cli'[c] = cli[c]
        /\ DOMAIN assigned \subseteq DOMAIN assigned'
    BY <1>5, OneActs
  <2>2. \A c \in Clients \ {d} : Follows(job[c], cli[c])'
    BY <1>1, <1>2, <2>1, BystanderFollows
  <2>3. Follows(job[d], cli[d])'
    BY <1>5, ActorFollows
  <2> QED BY <2>1, <2>2, <2>3 DEF JobsOK
<1>6. ASSUME NEW d \in Clients, Recorded(d) PROVE JobsOK'
  <2>1. RecordCommit(d) /\ \A c \in Clients \ {d} : cli'[c] = cli[c]
    BY <1>2, <1>6 DEF Recorded, RecordCommit, Finish
  <2>2. /\ job' = [c \in Clients |-> job'[c]]
        /\ \A c \in Clients \ {d} :
              job'[c] = IF job[c].at # "none" /\ cli[d].replace
                        THEN [job[c] EXCEPT !.disturbed = TRUE] ELSE job[c]
    BY <1>2, <1>6 DEF Recorded, Disturb
  <2>3. ASSUME NEW c \in Clients \ {d} PROVE Follows(job[c], cli[c])'
    <3>1. job[c].at = "none" => job[c] = NoJob
      BY <1>2 DEF Follows, Shaped, Works, Working
    <3>2. job[c].at # "none" => job[c] # NoJob
      BY DEF NoJob
    <3> QED BY <1>1, <1>2, <2>1, <2>2, <3>1, <3>2, BystanderFollows
  <2>4. Follows(job[d], cli[d])'
    BY <1>6, RecordFollows
  <2> QED BY <2>2, <2>3, <2>4 DEF JobsOK
<1> QED BY <1>3, <1>4, <1>5, <1>6 DEF TriageNext, Step

(* No orchestrator runs in the beginning.                                  *)
LEMMA InitFollows == TriageInit => JobsOK
BY DEF TriageInit, Init, JobsOK, Follows, Shaped, Planned, Covering, Waiting, Past,
       Working, NoJob

(* In every reachable state every orchestrator knows what it should.       *)
THEOREM TriageInvariance == TriageSpec => [](IInv /\ JobsOK)
<1>1. Spec => []IInv
  BY Invariance
<1> QED BY <1>1, InitFollows, NextFollows, TriageImplementsDedupDB, PTL DEF TriageSpec

-----------------------------------------------------------------------------
(* The picks from a bucket are as many as asked for and reach from its     *)
(* first finding to its last, for every bucket, every cap above 1 and      *)
(* either way of rounding halves: no two picks meet.                       *)
THEOREM SampleCorrect == EverySampleSpans /\ SampleSpansBucket
<1> SUFFICES ASSUME NEW S \in SUBSET (1..MaxSampled), NEW n \in 2..(Cardinality(S) - 1),
                    NEW half \in Halves(n)
             PROVE  LET T == Spaced(S, n, half) IN
                    /\ Cardinality(T) = n
                    /\ \A f \in S : \E g, h \in T : g <= f /\ f <= h
  BY DEF EverySampleSpans, SampleSpansBucket
<1>1. IsFiniteSet(S) /\ S \subseteq Nat
  <2>1. IsFiniteSet(1..MaxSampled)
    BY FS_Interval, SampleAssumption
  <2>2. 1..MaxSampled \subseteq Nat
    BY SampleAssumption
  <2> QED BY <2>1, <2>2, FS_Subset
<1>2. n \in Nat \ {0, 1} /\ Cardinality(S) > n
  BY <1>1, FS_CardinalityType
<1> QED BY <1>1, <1>2, SpacedIsSample

-----------------------------------------------------------------------------
(* A bucket ends well.                                                     *)

(* Where the next bucket begins, and what it counts.                       *)
LEMMA BeginIs ==
    ASSUME NEW cap, NEW force, NEW todo, NEW failures
    PROVE  /\ Begin(cap, force, todo, failures).failures = failures
           /\ Begin(cap, force, todo, failures).at \in {"exit", "findings"}
BY DEF Begin

(* ... after what was read has been found in sub-clusters.                 *)
LEMMA ReadingEndsWell ==
    ASSUME IInv, JobsOK, NEW c \in Clients, ~job[c].disturbed, EndsWell(c),
           \/ ReadFindings(c) \/ ReadSubClusters(c) \/ ReadUntriaged(c)
           \/ ReadRest(c) \/ ReadRestSubClusters(c)
    PROVE  job[c].findings \subseteq DOMAIN assigned'
<1>j. PICK j : j = job[c]
  OBVIOUS
<1>1. Works(j) /\ Planned(j) /\ job = [d \in Clients |-> job[d]]
  BY <1>j DEF JobsOK, Follows, Shaped, EndsWell, NoJob
<1>2. j.at # "findings" /\ job'[c].at \in {"exit", "findings"}
  BY <1>j DEF EndsWell
<1>3. ~ReadFindings(c)
  BY <1>j, <1>2 DEF ReadFindings, At
<1>4. ASSUME ReadSubClusters(c) \/ ReadRestSubClusters(c) PROVE FALSE
  <2>1. PICK k : k = job'[c]
    OBVIOUS
  <2>2. \E known, S : \/ k = [j EXCEPT !.at = "untriaged", !.existing = known]
                      \/ k = [j EXCEPT !.at = "agent", !.staged = S, !.existing = known]
    <3>1. CASE ReadSubClusters(c)
      <4>1. ~Fail(c)
        BY <1>1, <1>j, BeginIs DEF EndsWell, Fail, Failed, Works
      <4>2. PICK known :
              \/ job' = [job EXCEPT ![c] = [j EXCEPT !.at = "untriaged", !.existing = known]]
              \/ \E half : job' = [job EXCEPT ![c] =
                                    Stage(j, Sample(j.findings, j.cap, half), known)]
        BY <3>1, <4>1, <1>j DEF ReadSubClusters
      <4>3. \/ k = [j EXCEPT !.at = "untriaged", !.existing = known]
            \/ \E half : k = Stage(j, Sample(j.findings, j.cap, half), known)
        BY <1>1, <1>j, <2>1, <4>2
      <4>4. CASE \E half : k = Stage(j, Sample(j.findings, j.cap, half), known)
        <5>1. PICK S : k = Stage(j, S, known)
          BY <4>4
        <5> QED BY <5>1 DEF Stage
      <4> QED BY <4>3, <4>4
    <3>2. CASE ReadRestSubClusters(c)
      BY <1>1, <3>2, <1>j, <2>1 DEF ReadRestSubClusters, Stage
    <3> QED BY <1>4, <3>1, <3>2
  <2>3. k.at \in {"untriaged", "agent"}
    BY <1>1, <2>2 DEF Works
  <2> QED BY <1>2, <2>1, <2>3
<1>5. CASE ReadUntriaged(c) \/ ReadRest(c)
  <2>1. CASE Untriaged(Bucket(c)) = {}
    <3>1. j.findings \subseteq InBucket(Bucket(c))
      BY <1>1, <1>5, <1>j DEF Planned, Past, Working, ReadUntriaged, ReadRest, At, Bucket
    <3> QED BY <1>5, <1>j, <2>1, <3>1 DEF Untriaged, ReadUntriaged, ReadRest, vars
  <2>2. CASE Untriaged(Bucket(c)) # {}
    <3>1. PICK k : k = job'[c]
      OBVIOUS
    <3>2. \E S : \/ k = [[j EXCEPT !.assigning = TRUE] EXCEPT !.at = "agent",
                           !.staged = S, !.existing = j.existing]
                 \/ k = [j EXCEPT !.at = "restSubs", !.assigning = TRUE, !.staged = S]
      <4>1. CASE ReadUntriaged(c)
        <5>1. k = [[j EXCEPT !.assigning = TRUE] EXCEPT !.at = "agent",
                     !.staged = j.findings \cap Untriaged(Bucket(c)), !.existing = j.existing]
          BY <1>1, <1>j, <2>2, <3>1, <4>1 DEF ReadUntriaged, Stage
        <5> QED BY <5>1
      <4>2. CASE ReadRest(c)
        <5>1. k = [j EXCEPT !.at = "restSubs", !.assigning = TRUE,
                     !.staged = j.findings \cap Untriaged(Bucket(c))]
          BY <1>1, <1>j, <2>2, <3>1, <4>2 DEF ReadRest
        <5> QED BY <5>1
      <4> QED BY <1>5, <4>1, <4>2
    <3>3. k.at \in {"restSubs", "agent"}
      BY <1>1, <3>2 DEF Works
    <3> QED BY <1>2, <3>1, <3>3
  <2> QED BY <2>1, <2>2
<1> QED BY <1>3, <1>4, <1>5

(* ... after an answer: only if there was nothing left to ask about.       *)
LEMMA AnswerEndsWell ==
    ASSUME IInv, JobsOK, NEW c \in Clients, ~job[c].disturbed, EndsWell(c), AgentAnswers(c)
    PROVE  job[c].findings \subseteq DOMAIN assigned'
<1>j. PICK j : j = job[c]
  OBVIOUS
<1>1. /\ Works(j) /\ Planned(j) /\ Covering(j) /\ job = [d \in Clients |-> job[d]]
      /\ j.at = "agent" /\ job'[c].at \in {"exit", "findings"}
  BY <1>j DEF JobsOK, Follows, Shaped, EndsWell, NoJob, AgentAnswers, At
<1>2. PICK a :
         /\ Partitions(a, j.staged)
         /\ job' = [job EXCEPT ![c] =
              LET told == [j EXCEPT !.to = a.to, !.new = a.new] IN
              IF a.to # <<>> THEN [told EXCEPT !.at = "assign"] ELSE AfterAssign(told)]
  BY <1>j DEF AgentAnswers
<1> DEFINE told == [j EXCEPT !.to = a.to, !.new = a.new]
<1>3. a.to = <<>>
  <2>1. SUFFICES ASSUME a.to # <<>> PROVE FALSE
    OBVIOUS
  <2>2. PICK k : k = job'[c]
    OBVIOUS
  <2>3. k = [told EXCEPT !.at = "assign"]
    BY <1>1, <1>2, <2>1, <2>2
  <2>4. k.at = "assign"
    BY <1>1, <2>3 DEF Works
  <2> QED BY <1>1, <2>2, <2>4
<1>4. told.new = a.new /\ told.assigning = j.assigning
  BY <1>1 DEF Works
<1>5. a.new = <<>> /\ j.assigning
  <2>1. SUFFICES ASSUME ~(told.assigning /\ told.new = <<>>) PROVE FALSE
    BY <1>4
  <2>2. PICK k : k = job'[c]
    OBVIOUS
  <2>3. k = [told EXCEPT !.at = "record"]
    BY <1>1, <1>2, <1>3, <1>4, <2>1, <2>2 DEF AfterAssign
  <2>4. k.at = "record"
    BY <1>1, <2>3 DEF Works
  <2> QED BY <1>1, <2>2, <2>4
<1>6. j.staged = {}
  BY <1>2, <1>3, <1>5 DEF Partitions, Members
<1> QED BY <1>1, <1>5, <1>6, <1>j DEF Covering, AgentAnswers, vars

(* ... after the last command.                                             *)
LEMMA CommandEndsWell ==
    ASSUME IInv, JobsOK, NEW c \in Clients, ~job[c].disturbed, EndsWell(c),
           Assigned(c) \/ Recorded(c)
    PROVE  job[c].findings \subseteq DOMAIN assigned'
<1>j. PICK j : j = job[c]
  OBVIOUS
<1>1. /\ Works(j) /\ Planned(j) /\ Covering(j) /\ Waiting(j, cli[c])
      /\ job = [d \in Clients |-> job[d]] /\ job'[c].at \in {"exit", "findings"}
  BY <1>j DEF JobsOK, Follows, Shaped, EndsWell, NoJob
<1>2. CASE Assigned(c)
  <2>1. j.at = "assign" /\ j.assigning /\ DOMAIN j.to \cup Members(j.new) = j.staged
    BY <1>1, <1>2, <1>j DEF Assigned, At, Planned
  <2>2. cli[c].to = j.to
    BY <1>1, <1>2, <2>1 DEF Assigned, AssignCommit, Waiting, Idle
  <2>3. DOMAIN assigned' = DOMAIN assigned \cup DOMAIN j.to
    BY <1>2, <2>2 DEF Assigned, AssignCommit
  <2>4. j.new = <<>>
    <3>1. SUFFICES ASSUME j.new # <<>> PROVE FALSE
      OBVIOUS
    <3>2. PICK k : k = job'[c]
      OBVIOUS
    <3>3. k = [j EXCEPT !.at = "record"]
      BY <1>1, <1>2, <1>j, <3>1, <3>2 DEF Assigned, AfterAssign
    <3>4. k.at = "record"
      BY <1>1, <3>3 DEF Works
    <3> QED BY <1>1, <3>2, <3>4
  <2>5. j.findings \subseteq DOMAIN assigned \cup j.staged
    BY <1>1, <1>j, <2>1 DEF Covering
  <2>6. Members(j.new) = {}
    BY <2>4 DEF Members
  <2> QED BY <1>j, <2>1, <2>3, <2>5, <2>6
<1>3. CASE Recorded(c)
  <2>1. cli[c].op = "record"
    BY <1>3 DEF Recorded, RecordCommit
  <2>2. j.at = "record"
    <3>1. cli[c].op \notin {"idle", "targets", "assign"}
      BY <2>1
    <3>2. j.at \notin Working \ {"record"}
      BY <1>1, <3>1 DEF Waiting, Working, Idle
    <3> QED BY <1>1, <3>2 DEF Works
  <2>3. cli[c].payload = j.new /\ (cli[c].replace <=> ReplaceForced(j))
    BY <1>1, <2>1, <2>2 DEF Waiting, Idle
  <2>4. DOMAIN assigned' = KeptAssigned(cli[c]) \cup Members(j.new)
    BY <1>3, <2>3 DEF Recorded, RecordCommit, AssignedAfter
  <2>5. DOMAIN j.to \cup Members(j.new) = j.staged
    BY <1>1, <2>2 DEF Planned
  <2>6. CASE j.assigning
    <3>1. ~cli[c].replace
      BY <2>3, <2>6 DEF ReplaceForced
    <3>2. KeptAssigned(cli[c]) = DOMAIN assigned
      BY <3>1 DEF KeptAssigned, Deleted
    <3>3. /\ j.findings \subseteq DOMAIN assigned \cup j.staged
          /\ DOMAIN j.to \subseteq DOMAIN assigned
      BY <1>1, <1>j, <2>2, <2>6 DEF Covering
    <3> QED BY <1>j, <2>4, <2>5, <3>2, <3>3
  <2>7. CASE ~j.assigning
    <3>1. j.staged = j.findings
      <4>1. SUFFICES ASSUME j.staged # j.findings PROVE FALSE
        OBVIOUS
      <4>2. PICK k : k = job'[c]
        OBVIOUS
      <4>3. k = [j EXCEPT !.at = "rest", !.new = <<>>]
        BY <1>1, <1>3, <1>j, <2>2, <2>7, <4>1, <4>2 DEF Recorded, Disturb, AfterRecord, At
      <4>4. k.at = "rest"
        BY <1>1, <4>3 DEF Works
      <4> QED BY <1>1, <4>2, <4>4
    <3>2. DOMAIN j.to = {}
      BY <1>1, <2>2, <2>7 DEF Planned
    <3> QED BY <1>j, <2>4, <2>5, <3>1, <3>2
  <2> QED BY <2>6, <2>7
<1> QED BY <1>2, <1>3

(* Nothing else ends a bucket well.                                        *)
LEMMA FailsOrGoesOn ==
    ASSUME IInv, JobsOK, NEW c \in Clients, EndsWell(c), [TriageNext]_triageVars
    PROVE  \/ ReadFindings(c) \/ ReadSubClusters(c) \/ ReadUntriaged(c)
           \/ ReadRest(c) \/ ReadRestSubClusters(c)
           \/ AgentAnswers(c) \/ Assigned(c) \/ Recorded(c)
<1>1. /\ Works(job[c]) /\ job[c].at \notin {"none", "exit", "findings"}
      /\ job = [d \in Clients |-> job[d]] /\ job[c].failures \in Nat
  BY DEF JobsOK, Follows, Shaped, EndsWell, NoJob, Works
<1>2. job'[c].at # job[c].at /\ job'[c].at # "none" /\ job'[c].failures = job[c].failures
  BY DEF EndsWell
<1>3. ~Fail(c)
  <2>1. SUFFICES ASSUME Fail(c) PROVE FALSE
    OBVIOUS
  <2>2. job'[c].failures = job[c].failures + 1
    BY <1>1, <2>1, BeginIs DEF Fail, Failed
  <2> QED BY <1>1, <1>2, <2>2
<1>4. job' # job
  BY <1>2
<1>5. ASSUME NEW d \in Clients \ {c}, Recorded(d) PROVE FALSE
  <2>1. PICK k : k = job'[c]
    OBVIOUS
  <2>2. k = job[c] \/ k = [job[c] EXCEPT !.disturbed = TRUE]
    BY <1>1, <1>5, <2>1 DEF Recorded, Disturb
  <2>3. k.at = job[c].at
    BY <1>1, <2>2 DEF Works
  <2> QED BY <1>2, <2>1, <2>3
<1>6. ASSUME NEW d \in Clients \ {c},
             \/ Start(d)
             \/ \E force \in BOOLEAN, only \in SUBSET DOMAIN buckets :
                   StartByHand(d, force, only)
             \/ AgentFails(d) \/ CommandDies(d) \/ Kill(d) \/ OrphanAssigns(d)
             \/ Step(d) /\ ~Recorded(d)
      PROVE  FALSE
  BY <1>2, <1>6, OneActs
<1>7. ASSUME \/ Start(c) \/ Exit(c) \/ Kill(c) \/ OrphanAssigns(c)
             \/ AssignExisting(c) \/ RecordSubClusters(c)
             \/ \E force \in BOOLEAN, only \in SUBSET DOMAIN buckets :
                   StartByHand(c, force, only)
      PROVE  FALSE
  <2>1. ~(Start(c) \/ Exit(c) \/ OrphanAssigns(c)
            \/ \E force \in BOOLEAN, only \in SUBSET DOMAIN buckets :
                  StartByHand(c, force, only))
    BY <1>1 DEF Start, Exit, OrphanAssigns, StartByHand, At
  <2>2. ~(AssignExisting(c) \/ RecordSubClusters(c))
    BY <1>4 DEF AssignExisting, RecordSubClusters
  <2>3. ~Kill(c)
    BY <1>1, <1>2 DEF Kill, NoJob
  <2> QED BY <1>7, <2>1, <2>2, <2>3
<1>8. ASSUME \/ AgentFails(c) \/ CommandDies(c) \/ AssignRefused(c) \/ RecordRefused(c)
             \/ RolledBack(c) \/ AssignChecked(c)
      PROVE  FALSE
  BY <1>3, <1>4, <1>8 DEF AgentFails, CommandDies, AssignRefused, RecordRefused,
                         RolledBack, AssignChecked
<1>9. ~UNCHANGED triageVars
  BY <1>4 DEF triageVars
<1>10. ~\E key \in Keys, hash \in Hashes, path \in Paths :
          Register(key, hash, path) /\ UNCHANGED <<job, trouble>>
  BY <1>4
<1>11. PICK d \in Clients :
         \/ Start(d)
         \/ \E force \in BOOLEAN, only \in SUBSET DOMAIN buckets :
               StartByHand(d, force, only)
         \/ Step(d)
         \/ AgentFails(d) \/ CommandDies(d) \/ Kill(d) \/ OrphanAssigns(d)
  BY <1>9, <1>10, Zenon DEF TriageNext
<1>12. d = c
  BY <1>5, <1>6, <1>11
<1> QED BY <1>7, <1>8, <1>11, <1>12 DEF Step

(* A bucket that ends well has every finding that was read for it in a     *)
(* sub-cluster, whatever the agents answer, whichever commands fail and    *)
(* whatever is registered or triaged by other runs meanwhile, unless one   *)
(* of these has committed a --replace.                                     *)
THEOREM SuccessCorrect == TriageSpec => SuccessMeansTriaged
<1>1. IInv /\ JobsOK /\ [TriageNext]_triageVars
        => [\A c \in Clients :
              (EndsWell(c) /\ ~job[c].disturbed)
              => job[c].findings \subseteq DOMAIN assigned']_triageVars
  BY FailsOrGoesOn, ReadingEndsWell, AnswerEndsWell, CommandEndsWell
<1> QED BY <1>1, TriageInvariance, PTL DEF TriageSpec, SuccessMeansTriaged
=============================================================================
