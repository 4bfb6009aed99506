------------------------- MODULE TriageTrigger_proofs -------------------------
(***************************************************************************)
(* The locks around the miscompilation counter and the backfill do their   *)
(* work for any number of shards, findings and triages.                    *)
(***************************************************************************)
EXTENDS TriageTrigger, FiniteSetTheorems, TLAPS

(* Who may hold descriptor 9: one shard inside its critical section, or    *)
(* the triage that a shard started.                                        *)
CounterLock ==
    /\ \A s \in Shards : shard[s] = "locked" => lock9 = {s}
    /\ \A s \in Shards : s \in lock9 => shard[s] = "locked"
    /\ triage["triggered"] # "off" => "triggered" \in lock9
    /\ "manual" \notin lock9

(* Whoever is past the lock of the triage holds it.                        *)
TriageLock ==
    \A t \in Triages : triage[t] \in {"backfill", "agent", "warned"} => lock8 = t

(* A witness that is still to be registered has never been.                *)
BacklogIsNew ==
    \A t \in Triages : \A f \in backlog[t] :
        triage[t] \in {"backfill", "warned"} /\ registered[f] = 0

(* What a triage was started for was counted; what has a witness of it is  *)
(* in its backlog or in the database, then in the database.                *)
DueIsOnItsWay ==
    \A t \in Triages :
        /\ due[t] \subseteq counted
        /\ triage[t] = "backfill" => due[t] \cap reduced \subseteq backlog[t] \cup Registered
        /\ triage[t] = "agent" => due[t] \cap reduced \subseteq Registered

(* The findings that shards hold are numbered, distinct and not counted;   *)
(* the count a shard read under the lock is still in the file.             *)
InHand ==
    /\ counted \subseteq 1..found
    /\ \A s \in Shards : holding[s] <= found /\ holding[s] \notin counted
    /\ \A s, r \in Shards : s # r /\ holding[s] # 0 => holding[s] # holding[r]
    /\ \A s \in Shards : shard[s] = "locked" => seen[s] = count

(* The inductive invariant: without the locks' owners neither the count    *)
(* nor the backfill would be stable under the steps of the others.         *)
IInv ==
    /\ TypeOK /\ CounterLock /\ TriageLock /\ BacklogIsNew /\ RegisteredOnce
    /\ DueIsOnItsWay /\ InHand /\ NothingUncounted

-----------------------------------------------------------------------------
(* What a shard that stores the count changes, in both outcomes.           *)
LEMMA StoreEffect ==
    ASSUME NEW s \in Shards, Store(s), TypeOK, CounterLock
    PROVE  /\ shard[s] = "locked" /\ holding[s] \in Findings
           /\ lock9 = {s} /\ triage["triggered"] = "off"
           /\ counted' = counted \cup {holding[s]}
           /\ shard' = [shard EXCEPT ![s] = "idle"]
           /\ holding' = [holding EXCEPT ![s] = 0]
           /\ seen' = [seen EXCEPT ![s] = 0]
           /\ UNCHANGED <<found, reduced, lock8, backlog, registered, manuals, kills>>
           /\ \/ /\ seen[s] + 1 >= TriageEvery
                 /\ count' = 0 /\ triggers' = triggers + 1
                 /\ triage' = [triage EXCEPT !["triggered"] = "start"]
                 /\ due' = [due EXCEPT !["triggered"] = CountedNow(s)]
                 /\ lock9' = {"triggered"}
              \/ /\ seen[s] + 1 < TriageEvery
                 /\ count' = seen[s] + 1 /\ lock9' = {}
                 /\ UNCHANGED <<triage, due, triggers>>
<1>1. shard[s] = "locked" /\ lock9 = {s} /\ s \notin Triages
  BY TriggerAssumption DEF Store, CounterLock
<1>2. holding[s] \in Findings
  BY <1>1 DEF TypeOK, Findings
<1>3. triage["triggered"] = "off"
  BY <1>1 DEF CounterLock, Triages
<1>4. CASE Reached(seen[s] + 1)
  <2>1. seen[s] + 1 >= TriageEvery
    BY <1>4 DEF Reached
  <2>2. lock9' = {"triggered"}
    BY <1>1, <1>4 DEF Store, Close9, ChildInherits9, Triages
  <2> QED
    BY <1>1, <1>2, <1>3, <1>4, <2>1, <2>2 DEF Store, CountedNow
<1>5. CASE ~Reached(seen[s] + 1)
  <2>1. seen[s] + 1 < TriageEvery
    BY <1>5, TriggerAssumption DEF Reached, TypeOK
  <2>2. lock9' = {}
    BY <1>1, <1>5 DEF Store, Close9
  <2> QED
    BY <1>1, <1>2, <1>3, <1>5, <2>1, <2>2 DEF Store, CountedNow
<1> QED
  BY <1>4, <1>5

(* Storing the count keeps the types.                                      *)
LEMMA TypeOKStore ==
    ASSUME IInv, NEW s \in Shards, Store(s) PROVE TypeOK'
<1> USE TriggerAssumption DEF TypeOK, Triages
<1>0. TypeOK /\ CounterLock
  BY DEF IInv
<1>1. holding' \in [Shards -> 0..MaxFindings] /\ shard' \in [Shards -> {"idle", "reduce", "wait", "locked"}]
  BY <1>0, StoreEffect
<1>2. \A r \in Shards : (holding'[r] = 0) <=> (shard'[r] = "idle")
  BY <1>0, StoreEffect
<1>3. seen' \in [Shards -> Nat] /\ counted' \subseteq Findings
  BY <1>0, StoreEffect
<1>4. count' \in 0..TriageEvery-1 /\ triggers' \in Nat /\ lock9' \subseteq Shards \cup Triages
  BY <1>0, StoreEffect
<1>5. triage' \in [Triages -> {"off", "start", "backfill", "agent", "warned"}]
  BY <1>0, StoreEffect
<1>6. due' \in [Triages -> SUBSET Findings]
  <2>1. CountedNow(s) \in SUBSET Findings
    BY <1>0, StoreEffect DEF CountedNow
  <2> QED
    BY <1>0, <2>1, StoreEffect
<1>7. UNCHANGED <<found, reduced, lock8, backlog, registered, manuals, kills>>
  BY <1>0, StoreEffect
<1> QED
  BY <1>0, <1>1, <1>2, <1>3, <1>4, <1>5, <1>6, <1>7

(* Storing the count keeps who holds the counter's lock.                   *)
LEMMA CounterLockStore ==
    ASSUME IInv, NEW s \in Shards, Store(s) PROVE CounterLock'
<1>0. TypeOK /\ CounterLock
  BY DEF IInv
<1> QED
  BY <1>0, StoreEffect, TriggerAssumption DEF CounterLock, TypeOK, Triages

(* Storing the count keeps who holds the triage's lock.                    *)
LEMMA TriageLockStore ==
    ASSUME IInv, NEW s \in Shards, Store(s) PROVE TriageLock'
<1>0. TypeOK /\ CounterLock /\ TriageLock
  BY DEF IInv
<1> QED
  BY <1>0, StoreEffect DEF TriageLock, TypeOK, Triages

(* Storing the count keeps that a backlog is new.                          *)
LEMMA BacklogIsNewStore ==
    ASSUME IInv, NEW s \in Shards, Store(s) PROVE BacklogIsNew'
<1>0. TypeOK /\ CounterLock /\ BacklogIsNew
  BY DEF IInv
<1> QED
  BY <1>0, StoreEffect DEF BacklogIsNew, TypeOK, Triages

(* Storing the count keeps that nothing is registered twice.               *)
LEMMA RegisteredOnceStore ==
    ASSUME IInv, NEW s \in Shards, Store(s) PROVE RegisteredOnce'
<1>0. TypeOK /\ CounterLock /\ RegisteredOnce
  BY DEF IInv
<1> QED
  BY <1>0, StoreEffect DEF RegisteredOnce

(* Storing the count keeps what a triage owes.                             *)
LEMMA DueIsOnItsWayStore ==
    ASSUME IInv, NEW s \in Shards, Store(s) PROVE DueIsOnItsWay'
<1>0. TypeOK /\ CounterLock /\ DueIsOnItsWay
  BY DEF IInv
<1>1. Registered' = Registered
  BY <1>0, StoreEffect DEF Registered
<1> QED
  BY <1>0, <1>1, StoreEffect DEF DueIsOnItsWay, TypeOK, Triages, CountedNow

(* Storing the count keeps the findings in the shards' hands.              *)
LEMMA InHandStore ==
    ASSUME IInv, NEW s \in Shards, Store(s) PROVE InHand'
<1>0. TypeOK /\ CounterLock /\ InHand
  BY DEF IInv
<1>a. /\ shard[s] = "locked" /\ holding[s] \in Findings /\ lock9 = {s}
      /\ counted' = counted \cup {holding[s]}
      /\ shard' = [shard EXCEPT ![s] = "idle"]
      /\ holding' = [holding EXCEPT ![s] = 0]
      /\ found' = found
  BY <1>0, StoreEffect
<1>b. /\ found \in Nat /\ MaxFindings \in Nat
      /\ holding \in [Shards -> 0..MaxFindings]
      /\ shard \in [Shards -> {"idle", "reduce", "wait", "locked"}]
  BY <1>0, TriggerAssumption DEF TypeOK
<1>c. /\ counted \subseteq 1..found
      /\ \A r \in Shards : holding[r] <= found /\ holding[r] \notin counted
      /\ \A r, q \in Shards : r # q /\ holding[r] # 0 => holding[r] # holding[q]
  BY <1>0 DEF InHand
<1>1. holding[s] \in 1..found
  BY <1>a, <1>b, <1>c DEF Findings
<1>2. counted' \subseteq 1..found'
  BY <1>1, <1>a, <1>c
<1>3. \A r \in Shards : holding'[r] <= found' /\ holding'[r] \notin counted'
  <2> TAKE r \in Shards
  <2>1. CASE r = s
    <3>1. holding'[r] = 0 /\ 0 \notin counted'
      BY <2>1, <1>2, <1>a, <1>b
    <3> QED
      BY <3>1, <1>a, <1>b
  <2>2. CASE r # s
    <3>1. holding'[r] = holding[r] /\ holding[r] # holding[s]
      BY <2>2, <1>1, <1>a, <1>b, <1>c
    <3> QED
      BY <3>1, <1>a, <1>c
  <2> QED
    BY <2>1, <2>2
<1>4. \A r, q \in Shards : r # q /\ holding'[r] # 0 => holding'[r] # holding'[q]
  BY <1>a, <1>b, <1>c
<1>5. \A r \in Shards : shard'[r] # "locked"
  BY <1>0, <1>a, <1>b DEF CounterLock
<1> QED
  BY <1>2, <1>3, <1>4, <1>5 DEF InHand

(* Every step keeps the types.                                             *)
LEMMA TypeOKStep ==
    ASSUME IInv, [Next]_vars
    PROVE  TypeOK'
<1> USE TriggerAssumption DEF TypeOK, Findings, Triages, Registered, InHand
<1>0. TypeOK /\ InHand
  BY DEF IInv
<1>1. ASSUME NEW s \in Shards, Find(s) PROVE TypeOK'
  BY <1>0, <1>1, SMTT(20) DEF Find, shardVars, triageVars
<1>2. ASSUME NEW s \in Shards, Reduce(s) PROVE TypeOK'
  BY <1>0, <1>2, SMTT(20) DEF Reduce, shardVars, triageVars
<1>3. ASSUME NEW s \in Shards, Lock(s) PROVE TypeOK'
  BY <1>0, <1>3, SMTT(20) DEF Lock, LockFree, shardVars, triageVars
<1>4. ASSUME NEW s \in Shards, Store(s) PROVE TypeOK'
  BY <1>4, TypeOKStore
<1>5. CASE StartByHand
  BY <1>0, <1>5 DEF StartByHand, shardVars, triageVars
<1>6. ASSUME NEW t \in Triages, Skip(t) PROVE TypeOK'
  BY <1>0, <1>6 DEF Skip, Exit, shardVars, triageVars
<1>7. ASSUME NEW t \in Triages, Proceed(t) PROVE TypeOK'
  BY <1>0, <1>7 DEF Proceed, ProceedIfLocked, shardVars, triageVars
<1>8. ASSUME NEW t \in Triages, NEW f \in Findings, Register(t, f) PROVE TypeOK'
  BY <1>0, <1>8, SMTT(20) DEF Register, shardVars, triageVars
<1>9. ASSUME NEW t \in Triages, CallAgent(t) PROVE TypeOK'
  BY <1>0, <1>9 DEF CallAgent, BackfillDone, shardVars, triageVars
<1>10. ASSUME NEW t \in Triages, BackfillFails(t) PROVE TypeOK'
  BY <1>0, <1>10, SMTT(20) DEF BackfillFails, shardVars, triageVars
<1>11. ASSUME NEW t \in Triages, Finish(t) PROVE TypeOK'
  BY <1>0, <1>11 DEF Finish, Exit, shardVars, triageVars
<1>12. ASSUME NEW t \in Triages, Kill(t) PROVE TypeOK'
  BY <1>0, <1>12 DEF Kill, Exit, shardVars, triageVars
<1>13. CASE UNCHANGED vars
  BY <1>0, <1>13 DEF vars, shardVars, triageVars
<1> QED
  BY <1>1, <1>2, <1>3, <1>4, <1>5, <1>6, <1>7, <1>8, <1>9, <1>10, <1>11, <1>12, <1>13 DEF Next, Work, Run

(* Every step keeps who holds the counter's lock.                          *)
LEMMA CounterLockStep ==
    ASSUME IInv, [Next]_vars
    PROVE  CounterLock'
<1> USE TriggerAssumption DEF CounterLock, TypeOK, Triages
<1>0. TypeOK /\ CounterLock
  BY DEF IInv
<1>1. ASSUME NEW s \in Shards, Find(s) PROVE CounterLock'
  BY <1>0, <1>1 DEF Find, shardVars, triageVars
<1>2. ASSUME NEW s \in Shards, Reduce(s) PROVE CounterLock'
  BY <1>0, <1>2 DEF Reduce, shardVars, triageVars
<1>3. ASSUME NEW s \in Shards, Lock(s) PROVE CounterLock'
  BY <1>0, <1>3 DEF Lock, LockFree, shardVars, triageVars
<1>4. ASSUME NEW s \in Shards, Store(s) PROVE CounterLock'
  BY <1>4, CounterLockStore
<1>5. CASE StartByHand
  BY <1>0, <1>5 DEF StartByHand, shardVars, triageVars
<1>6. ASSUME NEW t \in Triages, Skip(t) PROVE CounterLock'
  BY <1>0, <1>6 DEF Skip, Exit, shardVars, triageVars
<1>7. ASSUME NEW t \in Triages, Proceed(t) PROVE CounterLock'
  BY <1>0, <1>7 DEF Proceed, ProceedIfLocked, shardVars, triageVars
<1>8. ASSUME NEW t \in Triages, NEW f \in Findings, Register(t, f) PROVE CounterLock'
  BY <1>0, <1>8 DEF Register, shardVars, triageVars
<1>9. ASSUME NEW t \in Triages, CallAgent(t) PROVE CounterLock'
  BY <1>0, <1>9 DEF CallAgent, BackfillDone, shardVars, triageVars
<1>10. ASSUME NEW t \in Triages, BackfillFails(t) PROVE CounterLock'
  BY <1>0, <1>10 DEF BackfillFails, shardVars, triageVars
<1>11. ASSUME NEW t \in Triages, Finish(t) PROVE CounterLock'
  BY <1>0, <1>11 DEF Finish, Exit, shardVars, triageVars
<1>12. ASSUME NEW t \in Triages, Kill(t) PROVE CounterLock'
  BY <1>0, <1>12 DEF Kill, Exit, shardVars, triageVars
<1>13. CASE UNCHANGED vars
  BY <1>0, <1>13 DEF vars, shardVars, triageVars
<1> QED
  BY <1>1, <1>2, <1>3, <1>4, <1>5, <1>6, <1>7, <1>8, <1>9, <1>10, <1>11, <1>12, <1>13 DEF Next, Work, Run

(* Every step keeps who holds the triage's lock.                           *)
LEMMA TriageLockStep ==
    ASSUME IInv, [Next]_vars
    PROVE  TriageLock'
<1> USE TriggerAssumption DEF TriageLock, TypeOK, Triages
<1>0. TypeOK /\ TriageLock
  BY DEF IInv
<1>1. ASSUME NEW s \in Shards, Find(s) PROVE TriageLock'
  BY <1>0, <1>1 DEF Find, shardVars, triageVars
<1>2. ASSUME NEW s \in Shards, Reduce(s) PROVE TriageLock'
  BY <1>0, <1>2 DEF Reduce, shardVars, triageVars
<1>3. ASSUME NEW s \in Shards, Lock(s) PROVE TriageLock'
  BY <1>0, <1>3 DEF Lock, LockFree, shardVars, triageVars
<1>4. ASSUME NEW s \in Shards, Store(s) PROVE TriageLock'
  BY <1>4, TriageLockStore
<1>5. CASE StartByHand
  BY <1>0, <1>5 DEF StartByHand, shardVars, triageVars
<1>6. ASSUME NEW t \in Triages, Skip(t) PROVE TriageLock'
  BY <1>0, <1>6 DEF Skip, Exit, shardVars, triageVars
<1>7. ASSUME NEW t \in Triages, Proceed(t) PROVE TriageLock'
  BY <1>0, <1>7 DEF Proceed, ProceedIfLocked, shardVars, triageVars
<1>8. ASSUME NEW t \in Triages, NEW f \in Findings, Register(t, f) PROVE TriageLock'
  BY <1>0, <1>8 DEF Register, shardVars, triageVars
<1>9. ASSUME NEW t \in Triages, CallAgent(t) PROVE TriageLock'
  BY <1>0, <1>9 DEF CallAgent, BackfillDone, shardVars, triageVars
<1>10. ASSUME NEW t \in Triages, BackfillFails(t) PROVE TriageLock'
  BY <1>0, <1>10 DEF BackfillFails, shardVars, triageVars
<1>11. ASSUME NEW t \in Triages, Finish(t) PROVE TriageLock'
  BY <1>0, <1>11 DEF Finish, Exit, shardVars, triageVars
<1>12. ASSUME NEW t \in Triages, Kill(t) PROVE TriageLock'
  BY <1>0, <1>12 DEF Kill, Exit, shardVars, triageVars
<1>13. CASE UNCHANGED vars
  BY <1>0, <1>13 DEF vars, shardVars, triageVars
<1> QED
  BY <1>1, <1>2, <1>3, <1>4, <1>5, <1>6, <1>7, <1>8, <1>9, <1>10, <1>11, <1>12, <1>13 DEF Next, Work, Run

(* Every step keeps that a backlog is new.                                 *)
LEMMA BacklogIsNewStep ==
    ASSUME IInv, [Next]_vars
    PROVE  BacklogIsNew'
<1> USE TriggerAssumption DEF BacklogIsNew, TypeOK, TriageLock, Triages, Registered
<1>0. TypeOK /\ TriageLock /\ BacklogIsNew
  BY DEF IInv
<1>1. ASSUME NEW s \in Shards, Find(s) PROVE BacklogIsNew'
  BY <1>0, <1>1 DEF Find, shardVars, triageVars
<1>2. ASSUME NEW s \in Shards, Reduce(s) PROVE BacklogIsNew'
  BY <1>0, <1>2 DEF Reduce, shardVars, triageVars
<1>3. ASSUME NEW s \in Shards, Lock(s) PROVE BacklogIsNew'
  BY <1>0, <1>3 DEF Lock, LockFree, shardVars, triageVars
<1>4. ASSUME NEW s \in Shards, Store(s) PROVE BacklogIsNew'
  BY <1>4, BacklogIsNewStore
<1>5. CASE StartByHand
  BY <1>0, <1>5 DEF StartByHand, shardVars, triageVars
<1>6. ASSUME NEW t \in Triages, Skip(t) PROVE BacklogIsNew'
  BY <1>0, <1>6 DEF Skip, Exit, shardVars, triageVars
<1>7. ASSUME NEW t \in Triages, Proceed(t) PROVE BacklogIsNew'
  BY <1>0, <1>7 DEF Proceed, ProceedIfLocked, shardVars, triageVars
<1>8. ASSUME NEW t \in Triages, NEW f \in Findings, Register(t, f) PROVE BacklogIsNew'
  BY <1>0, <1>8 DEF Register, shardVars, triageVars
<1>9. ASSUME NEW t \in Triages, CallAgent(t) PROVE BacklogIsNew'
  BY <1>0, <1>9 DEF CallAgent, BackfillDone, shardVars, triageVars
<1>10. ASSUME NEW t \in Triages, BackfillFails(t) PROVE BacklogIsNew'
  BY <1>0, <1>10 DEF BackfillFails, shardVars, triageVars
<1>11. ASSUME NEW t \in Triages, Finish(t) PROVE BacklogIsNew'
  BY <1>0, <1>11 DEF Finish, Exit, shardVars, triageVars
<1>12. ASSUME NEW t \in Triages, Kill(t) PROVE BacklogIsNew'
  BY <1>0, <1>12 DEF Kill, Exit, shardVars, triageVars
<1>13. CASE UNCHANGED vars
  BY <1>0, <1>13 DEF vars, shardVars, triageVars
<1> QED
  BY <1>1, <1>2, <1>3, <1>4, <1>5, <1>6, <1>7, <1>8, <1>9, <1>10, <1>11, <1>12, <1>13 DEF Next, Work, Run

(* Every step keeps that nothing is registered twice.                      *)
LEMMA RegisteredOnceStep ==
    ASSUME IInv, [Next]_vars
    PROVE  RegisteredOnce'
<1> USE TriggerAssumption DEF RegisteredOnce, TypeOK, BacklogIsNew
<1>0. TypeOK /\ BacklogIsNew /\ RegisteredOnce
  BY DEF IInv
<1>1. ASSUME NEW s \in Shards, Find(s) PROVE RegisteredOnce'
  BY <1>0, <1>1 DEF Find, shardVars, triageVars
<1>2. ASSUME NEW s \in Shards, Reduce(s) PROVE RegisteredOnce'
  BY <1>0, <1>2 DEF Reduce, shardVars, triageVars
<1>3. ASSUME NEW s \in Shards, Lock(s) PROVE RegisteredOnce'
  BY <1>0, <1>3 DEF Lock, LockFree, shardVars, triageVars
<1>4. ASSUME NEW s \in Shards, Store(s) PROVE RegisteredOnce'
  BY <1>4, RegisteredOnceStore
<1>5. CASE StartByHand
  BY <1>0, <1>5 DEF StartByHand, shardVars, triageVars
<1>6. ASSUME NEW t \in Triages, Skip(t) PROVE RegisteredOnce'
  BY <1>0, <1>6 DEF Skip, Exit, shardVars, triageVars
<1>7. ASSUME NEW t \in Triages, Proceed(t) PROVE RegisteredOnce'
  BY <1>0, <1>7 DEF Proceed, ProceedIfLocked, shardVars, triageVars
<1>8. ASSUME NEW t \in Triages, NEW f \in Findings, Register(t, f) PROVE RegisteredOnce'
  BY <1>0, <1>8 DEF Register, shardVars, triageVars
<1>9. ASSUME NEW t \in Triages, CallAgent(t) PROVE RegisteredOnce'
  BY <1>0, <1>9 DEF CallAgent, BackfillDone, shardVars, triageVars
<1>10. ASSUME NEW t \in Triages, BackfillFails(t) PROVE RegisteredOnce'
  BY <1>0, <1>10 DEF BackfillFails, shardVars, triageVars
<1>11. ASSUME NEW t \in Triages, Finish(t) PROVE RegisteredOnce'
  BY <1>0, <1>11 DEF Finish, Exit, shardVars, triageVars
<1>12. ASSUME NEW t \in Triages, Kill(t) PROVE RegisteredOnce'
  BY <1>0, <1>12 DEF Kill, Exit, shardVars, triageVars
<1>13. CASE UNCHANGED vars
  BY <1>0, <1>13 DEF vars, shardVars, triageVars
<1> QED
  BY <1>1, <1>2, <1>3, <1>4, <1>5, <1>6, <1>7, <1>8, <1>9, <1>10, <1>11, <1>12, <1>13 DEF Next, Work, Run

(* Every step keeps what a triage owes.                                    *)
LEMMA DueIsOnItsWayStep ==
    ASSUME IInv, [Next]_vars
    PROVE  DueIsOnItsWay'
<1> USE TriggerAssumption DEF DueIsOnItsWay, TypeOK, Registered, Findings
<1>0. TypeOK /\ DueIsOnItsWay /\ InHand
  BY DEF IInv
<1>1. ASSUME NEW s \in Shards, Find(s) PROVE DueIsOnItsWay'
  BY <1>0, <1>1 DEF Find, shardVars, triageVars
<1>2. ASSUME NEW s \in Shards, Reduce(s) PROVE DueIsOnItsWay'
  <2>1. /\ reduced' \subseteq reduced \cup {holding[s]} /\ holding[s] \notin counted
        /\ UNCHANGED <<counted, triage, due, backlog, registered>>
    BY <1>0, <1>2 DEF Reduce, shardVars, triageVars, InHand
  <2> QED
    BY <1>0, <2>1
<1>3. ASSUME NEW s \in Shards, Lock(s) PROVE DueIsOnItsWay'
  BY <1>0, <1>3 DEF Lock, LockFree, shardVars, triageVars
<1>4. ASSUME NEW s \in Shards, Store(s) PROVE DueIsOnItsWay'
  BY <1>4, DueIsOnItsWayStore
<1>5. CASE StartByHand
  BY <1>0, <1>5 DEF StartByHand, shardVars, triageVars
<1>6. ASSUME NEW t \in Triages, Skip(t) PROVE DueIsOnItsWay'
  BY <1>0, <1>6 DEF Skip, Exit, shardVars, triageVars
<1>7. ASSUME NEW t \in Triages, Proceed(t) PROVE DueIsOnItsWay'
  BY <1>0, <1>7 DEF Proceed, ProceedIfLocked, shardVars, triageVars
<1>8. ASSUME NEW t \in Triages, NEW f \in Findings, Register(t, f) PROVE DueIsOnItsWay'
  BY <1>0, <1>8 DEF Register, shardVars, triageVars
<1>9. ASSUME NEW t \in Triages, CallAgent(t) PROVE DueIsOnItsWay'
  BY <1>0, <1>9 DEF CallAgent, BackfillDone, shardVars, triageVars
<1>10. ASSUME NEW t \in Triages, BackfillFails(t) PROVE DueIsOnItsWay'
  BY <1>0, <1>10 DEF BackfillFails, shardVars, triageVars
<1>11. ASSUME NEW t \in Triages, Finish(t) PROVE DueIsOnItsWay'
  BY <1>0, <1>11 DEF Finish, Exit, shardVars, triageVars
<1>12. ASSUME NEW t \in Triages, Kill(t) PROVE DueIsOnItsWay'
  BY <1>0, <1>12 DEF Kill, Exit, shardVars, triageVars
<1>13. CASE UNCHANGED vars
  BY <1>0, <1>13 DEF vars, shardVars, triageVars
<1> QED
  BY <1>1, <1>2, <1>3, <1>4, <1>5, <1>6, <1>7, <1>8, <1>9, <1>10, <1>11, <1>12, <1>13 DEF Next, Work, Run

(* Every step keeps the findings in the shards' hands.                     *)
LEMMA InHandStep ==
    ASSUME IInv, [Next]_vars
    PROVE  InHand'
<1> USE TriggerAssumption DEF InHand, TypeOK, CounterLock
<1>0. TypeOK /\ CounterLock /\ InHand
  BY DEF IInv
<1>1. ASSUME NEW s \in Shards, Find(s) PROVE InHand'
  BY <1>0, <1>1 DEF Find, shardVars, triageVars
<1>2. ASSUME NEW s \in Shards, Reduce(s) PROVE InHand'
  BY <1>0, <1>2 DEF Reduce, shardVars, triageVars
<1>3. ASSUME NEW s \in Shards, Lock(s) PROVE InHand'
  BY <1>0, <1>3 DEF Lock, LockFree, shardVars, triageVars
<1>4. ASSUME NEW s \in Shards, Store(s) PROVE InHand'
  BY <1>4, InHandStore
<1>5. CASE StartByHand
  BY <1>0, <1>5 DEF StartByHand, shardVars, triageVars
<1>6. ASSUME NEW t \in Triages, Skip(t) PROVE InHand'
  BY <1>0, <1>6 DEF Skip, Exit, shardVars, triageVars
<1>7. ASSUME NEW t \in Triages, Proceed(t) PROVE InHand'
  BY <1>0, <1>7 DEF Proceed, ProceedIfLocked, shardVars, triageVars
<1>8. ASSUME NEW t \in Triages, NEW f \in Findings, Register(t, f) PROVE InHand'
  BY <1>0, <1>8 DEF Register, shardVars, triageVars
<1>9. ASSUME NEW t \in Triages, CallAgent(t) PROVE InHand'
  BY <1>0, <1>9 DEF CallAgent, BackfillDone, shardVars, triageVars
<1>10. ASSUME NEW t \in Triages, BackfillFails(t) PROVE InHand'
  BY <1>0, <1>10 DEF BackfillFails, shardVars, triageVars
<1>11. ASSUME NEW t \in Triages, Finish(t) PROVE InHand'
  BY <1>0, <1>11 DEF Finish, Exit, shardVars, triageVars
<1>12. ASSUME NEW t \in Triages, Kill(t) PROVE InHand'
  BY <1>0, <1>12 DEF Kill, Exit, shardVars, triageVars
<1>13. CASE UNCHANGED vars
  BY <1>0, <1>13 DEF vars, shardVars, triageVars
<1> QED
  BY <1>1, <1>2, <1>3, <1>4, <1>5, <1>6, <1>7, <1>8, <1>9, <1>10, <1>11, <1>12, <1>13 DEF Next, Work, Run
-----------------------------------------------------------------------------
(* One finding is counted at a time; a trigger spends TriageEvery of them. *)
LEMMA NothingUncountedStep ==
    ASSUME IInv, [Next]_vars
    PROVE  NothingUncounted'
<1>0. TypeOK /\ CounterLock /\ InHand /\ NothingUncounted
  BY DEF IInv
<1>1. ASSUME NEW s \in Shards, Store(s) PROVE NothingUncounted'
  <2>1. IsFiniteSet(counted)
    <3>1. counted \subseteq 1..MaxFindings /\ IsFiniteSet(1..MaxFindings)
      BY <1>0, TriggerAssumption, FS_Interval DEF TypeOK, Findings
    <3> QED
      BY <3>1, FS_Subset
  <2>2. holding[s] \notin counted /\ seen[s] = count
    BY <1>0, <1>1 DEF InHand, Store
  <2>3. counted' = counted \cup {holding[s]}
    BY <1>0, <1>1, StoreEffect
  <2>4. Cardinality(counted') = Cardinality(counted) + 1
    BY <2>1, <2>2, <2>3, FS_AddElement
  <2>5. count \in Nat /\ triggers \in Nat /\ TriageEvery \in Nat /\ count <= TriageEvery - 1
    BY <1>0, TriggerAssumption DEF TypeOK
  <2>6. \/ count + 1 >= TriageEvery /\ count' = 0 /\ triggers' = triggers + 1
        \/ count' = count + 1 /\ triggers' = triggers
    BY <1>0, <1>1, <2>2, StoreEffect
  <2>7. CASE count' = count + 1 /\ triggers' = triggers
    BY <1>0, <2>4, <2>5, <2>7 DEF NothingUncounted
  <2>8. CASE count + 1 >= TriageEvery /\ count' = 0 /\ triggers' = triggers + 1
    <3>1. count + 1 = TriageEvery
      BY <2>5, <2>8
    <3>2. TriageEvery * triggers' = TriageEvery * triggers + TriageEvery
      BY <2>5, <2>8
    <3>3. TriageEvery * triggers \in Nat
      BY <2>5
    <3> QED
      BY <1>0, <2>4, <2>5, <2>8, <3>1, <3>2, <3>3 DEF NothingUncounted
  <2> QED
    BY <2>6, <2>7, <2>8
<1>2. ASSUME UNCHANGED <<counted, count, triggers>> PROVE NothingUncounted'
  BY <1>0, <1>2 DEF NothingUncounted
<1>3. (\E s \in Shards : Store(s)) \/ UNCHANGED <<counted, count, triggers>>
  BY DEF Next, Work, Run, Find, Reduce, Lock, StartByHand, Skip, Exit, Proceed, Register,
         CallAgent, BackfillFails, Finish, Kill, vars, shardVars, triageVars
<1> QED
  BY <1>1, <1>2, <1>3

(* The run starts in the invariant...                                     *)
LEMMA InitIInv == Init => IInv
<1> SUFFICES ASSUME Init PROVE IInv
  OBVIOUS
<1>1. Cardinality(counted) = 0
  BY FS_EmptySet DEF Init
<1>2. NothingUncounted
  BY <1>1, TriggerAssumption DEF Init, NothingUncounted
<1>3. TypeOK
  BY TriggerAssumption DEF Init, TypeOK, Triages, Findings
<1> QED
  BY <1>2, <1>3, TriggerAssumption
     DEF Init, IInv, CounterLock, TriageLock, BacklogIsNew, RegisteredOnce, DueIsOnItsWay, InHand,
         Triages, Findings

(* ...and every step keeps it.                                            *)
LEMMA NextIInv == IInv /\ [Next]_vars => IInv'
<1> SUFFICES ASSUME IInv, [Next]_vars PROVE IInv'
  OBVIOUS
<1> QED
  BY TypeOKStep, CounterLockStep, TriageLockStep, BacklogIsNewStep, RegisteredOnceStep,
     DueIsOnItsWayStep, InHandStep, NothingUncountedStep DEF IInv

(* The inductive invariant.                                                *)
THEOREM Invariance == Spec => []IInv
BY InitIInv, NextIInv, PTL DEF Spec

(* Types, for any number of shards and findings.                           *)
THEOREM TypeCorrect == Spec => []TypeOK
<1>1. IInv => TypeOK
  BY DEF IInv
<1> QED
  BY <1>1, Invariance, PTL

(* Every finding that was counted is in the counter or was spent on a      *)
(* triage, in every interleaving of the shards.                            *)
THEOREM CountingCorrect == Spec => []NothingUncounted
<1>1. IInv => NothingUncounted
  BY DEF IInv
<1> QED
  BY <1>1, Invariance, PTL

(* A triggered triage that runs keeps every shard out of the counter.      *)
THEOREM TriggersExclusive == Spec => []TriggersDoNotOverlap
<1>1. IInv => TriggersDoNotOverlap
  BY TriggerAssumption DEF IInv, CounterLock, TriggersDoNotOverlap, Triages
<1> QED
  BY <1>1, Invariance, PTL

(* The backfill is idempotent across concurrent and killed triages.        *)
THEOREM BackfillIdempotent == Spec => []RegisteredOnce
<1>1. IInv => RegisteredOnce
  BY DEF IInv
<1> QED
  BY <1>1, Invariance, PTL

(* The agent is called with the findings its triage was started for in the *)
(* database, unless the backfill failed.                                   *)
THEOREM BackfillComplete == Spec => []TriageSeesItsFindings
<1>1. IInv => TriageSeesItsFindings
  BY DEF IInv, DueIsOnItsWay, TriageSeesItsFindings
<1> QED
  BY <1>1, Invariance, PTL
=============================================================================
