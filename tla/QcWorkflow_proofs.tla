-------------------------- MODULE QcWorkflow_proofs --------------------------
(***************************************************************************)
(* Theorems about QcWorkflow, for every number of samples, users, leases   *)
(* and ticks.                                                              *)
(***************************************************************************)
EXTENDS QcWorkflow, TLAPS

USE LeaseLockAssumption, QcWorkflowAssumption

-----------------------------------------------------------------------------
\* Operators on the Redis keys keep their type.
LEMMA KeysType ==
    ASSUME LockTypeOK
    PROVE  /\ \A S : Freed(lock, S) \in [Samples -> [holder : Holder, ttl : 0..LockTtl]]
           /\ \A s \in Samples, l \in Holder :
                Held(lock, s, l) \in [Samples -> [holder : Holder, ttl : 0..LockTtl]]
           /\ \A S : \A s \in Samples, l \in Holder :
                Held(Freed(lock, S), s, l)
                  \in [Samples -> [holder : Holder, ttl : 0..LockTtl]]
           /\ Aged(lock) \in [Samples -> [holder : Holder, ttl : 0..LockTtl]]
<1> DEFINE K == [Samples -> [holder : Holder, ttl : 0..LockTtl]]
<1>1. \A S : Freed(lock, S) \in K
  BY DEF LockTypeOK, Freed, FreeKey, Holder
<1>2. \A k \in K, s \in Samples, l \in Holder : Held(k, s, l) \in K
  BY DEF Held
<1>3. Aged(lock) \in K
  BY DEF LockTypeOK, Aged, FreeKey, Holder
<1>4. lock \in K
  BY DEF LockTypeOK
<1> QED BY <1>1, <1>2, <1>3, <1>4

\* Closing rows keeps the type of the lease table.
LEMMA CloseAllType ==
    ASSUME lease \in [Leases -> Lease], NEW L, NEW status \in LeaseStatus
    PROVE  CloseAll(L, status) \in [Leases -> Lease]
<1> SUFFICES ASSUME NEW l \in Leases
             PROVE  (IF l \in L THEN Closed(lease[l], status) ELSE lease[l]) \in Lease
  BY DEF CloseAll
<1>1. lease[l] \in Lease /\ 0 \in 0..LeaseTtl
  OBVIOUS
<1>2. Closed(lease[l], status) \in Lease
  BY <1>1 DEF Closed, Lease
<1> QED BY <1>1, <1>2

\* Handing the tasks over, or creating the missing ones, keeps their type.
LEMMA TasksType ==
    ASSUME NEW t \in [Samples -> Task], NEW u \in Users \cup {NoUser},
           NEW status \in TaskStatus
    PROVE  /\ WithTasks(t) \in [Samples -> Task]
           /\ Reassigned(t, u, status) \in [Samples -> Task]
BY DEF WithTasks, Reassigned, Task, TaskStatus

\* So does changing the status of one task, or moving it to its next revision.
LEMMA StatusType ==
    ASSUME NEW status \in TaskStatus
    PROVE  /\ \A t \in Task : [t EXCEPT !.status = status] \in Task
           /\ \A t \in [Samples -> Task], s \in Samples :
                [t EXCEPT ![s].status = status] \in [Samples -> Task]
<1>1. \A t \in Task : [t EXCEPT !.status = status] \in Task
  BY DEF Task
<1> QED BY <1>1

LEMMA DraftedType ==
    ASSUME NEW t \in Task
    PROVE  DraftSaved(t) \in Task
<1>1. "draft_saved" \in TaskStatus
  BY DEF TaskStatus
<1>2. t.rev + 1 \in Nat
  BY DEF Task
<1> QED BY <1>1, <1>2 DEF DraftSaved, Task

LEMMA SubmittedType ==
    ASSUME NEW t \in Task, NEW k \in Nat
    PROVE  Submitted(t, k) \in Task
<1>1. "submitted" \in TaskStatus
  BY DEF TaskStatus
<1>2. t.rev + 1 \in Nat
  BY DEF Task
<1> QED BY <1>1, <1>2 DEF Submitted, Task

\* Extending a lease row keeps the type of the lease table.
LEMMA LeftType ==
    ASSUME NEW left \in 0..LeaseTtl
    PROVE  /\ \A r \in Lease : [r EXCEPT !.left = left] \in Lease
           /\ \A l \in Leases : lease \in [Leases -> Lease] =>
                [lease EXCEPT ![l].left = left] \in [Leases -> Lease]
<1>1. \A r \in Lease : [r EXCEPT !.left = left] \in Lease
  BY DEF Lease
<1> QED BY <1>1

-----------------------------------------------------------------------------
\* The type invariant.
LEMMA InitType == Init => TypeOK
<1> SUFFICES ASSUME Init PROVE TypeOK
  OBVIOUS
<1>1. LockTypeOK
  BY DEF Init, LockInit, FreeKey, LockTypeOK, Holder
<1>2. queued \in BOOLEAN /\ assignment \in Assignment
  BY DEF Init, Assignment, AssignmentStatus
<1>3. task \in [Samples -> Task]
  BY DEF Init, Task, TaskStatus
<1>4. lease \in [Leases -> Lease]
  BY DEF Init, Lease, LeaseStatus
<1>5. draft \in [Samples -> [Users -> Nat \cup {NoDraft}]]
  BY DEF Init
<1>6. history \in [Samples -> Seq(Submission)]
  BY DEF Init
<1>7. /\ snapshots \in [Samples -> SUBSET Nat]
      /\ events \in [Samples -> SUBSET Nat]
      /\ pool \in [Samples -> SUBSET Nat]
  BY DEF Init
<1> QED BY <1>1, <1>2, <1>3, <1>4, <1>5, <1>6, <1>7 DEF TypeOK

LEMMA StepType == TypeOK /\ [Next]_vars => TypeOK'
<1> SUFFICES ASSUME TypeOK, [Next]_vars
             PROVE  TypeOK'
  OBVIOUS
<1> USE DEF TypeOK
<1>k. \A s \in Samples :
        KeysAfterExpiry(s) \in [Samples -> [holder : Holder, ttl : 0..LockTtl]]
  BY KeysType DEF KeysAfterExpiry, LockTypeOK
<1>1. ASSUME NEW n \in 1..5, GenerateQueue(n) PROVE TypeOK'
  BY <1>1, TasksType DEF GenerateQueue, lockVars, loopVars, LockTypeOK, TaskStatus
<1>2. ASSUME NEW n \in 1..5, ReleaseAssignment(n) PROVE TypeOK'
  <2>1. LockTypeOK'
    BY <1>2, KeysType DEF ReleaseAssignment, LockTypeOK
  <2>2. lease' \in [Leases -> Lease]
    BY <1>2, CloseAllType DEF ReleaseAssignment, RevokedRows, LeaseStatus
  <2>3. task' \in [Samples -> Task]
    BY <1>2, TasksType DEF ReleaseAssignment, TaskStatus
  <2>4. assignment' \in Assignment
    BY <1>2 DEF ReleaseAssignment, Assignment, AssignmentStatus
  <2> QED BY <1>2, <2>1, <2>2, <2>3, <2>4 DEF ReleaseAssignment, loopVars
<1>3. ASSUME NEW n \in 1..5, NEW u \in Users, AssignBatch(u, n) PROVE TypeOK'
  <2>1. WithTasks(task) \in [Samples -> Task]
    BY TasksType DEF TaskStatus
  <2>2. task' \in [Samples -> Task]
    BY <1>3, <2>1, TasksType DEF AssignBatch, TaskStatus
  <2>3. assignment' \in Assignment
    BY <1>3 DEF AssignBatch, Assignment, AssignmentStatus
  <2> QED BY <1>3, <2>2, <2>3 DEF AssignBatch, lockVars, loopVars, LockTypeOK
<1>4. ASSUME NEW n \in 1..5, NEW u \in Users, ReassignBatch(u, n) PROVE TypeOK'
  <2>1. WithTasks(task) \in [Samples -> Task]
    BY TasksType DEF TaskStatus
  <2>2. task' \in [Samples -> Task]
    BY <1>4, <2>1, TasksType DEF ReassignBatch, TaskStatus
  <2>3. assignment' \in Assignment
    BY <1>4 DEF ReassignBatch, Assignment, AssignmentStatus
  <2>4. LockTypeOK'
    BY <1>4, KeysType DEF ReassignBatch, LockTypeOK
  <2>5. lease' \in [Leases -> Lease]
    BY <1>4, CloseAllType DEF ReassignBatch, RevokedRows, LeaseStatus
  <2> QED BY <1>4, <2>2, <2>3, <2>4, <2>5 DEF ReassignBatch, loopVars
<1>5. ASSUME NEW n \in 1..5, NEW s \in Samples, ObserveLease(s, n) PROVE TypeOK'
  <2>1. LockTypeOK'
    BY <1>5, <1>k DEF ObserveLease, LockTypeOK
  <2>2. lease' \in [Leases -> Lease]
    BY <1>5, CloseAllType DEF ObserveLease, Expired, LeaseStatus
  <2> QED BY <1>5, <2>1, <2>2 DEF ObserveLease, storeVars, loopVars
<1>6. ASSUME NEW n \in 1..5, NEW u \in Users, NEW s \in Samples, SaveDraft(u, s, n)
      PROVE  TypeOK'
  <2>1. DraftSaved(task[s]) \in Task
    BY DraftedType
  <2>3. task' \in [Samples -> Task]
    BY <1>6, <2>1 DEF SaveDraft
  <2>2. draft' \in [Samples -> [Users -> Nat \cup {NoDraft}]]
    BY <1>6 DEF SaveDraft, Task
  <2> QED BY <1>6, <2>2, <2>3 DEF SaveDraft, lockVars, loopVars, LockTypeOK
<1>7. ASSUME NEW n \in 1..5, NEW u \in Users, NEW s \in Samples, SubmitSample(u, s, n)
      PROVE  TypeOK'
  <2>1. task' \in [Samples -> Task]
    <3>1. Len(history[s]) + 1 \in Nat
      OBVIOUS
    <3> QED BY <1>7, <3>1, SubmittedType DEF SubmitSample
  <2>2. [user |-> u, base |-> task[s].rev] \in Submission
    BY DEF Task, Submission
  <2>3. history' \in [Samples -> Seq(Submission)]
    BY <1>7, <2>2 DEF SubmitSample
  <2>4. lease' \in [Leases -> Lease]
    BY <1>7, CloseAllType DEF SubmitSample, LeaseStatus
  <2> QED BY <1>7, <2>1, <2>3, <2>4 DEF SubmitSample, lockVars, loopVars, LockTypeOK
<1>8. ASSUME NEW n \in 1..5, NEW u \in Users, NEW s \in Samples, NEW l \in Leases,
             AcquireLease(u, s, l, n)
      PROVE  TypeOK'
  <2>1. Expired(s) \in [Leases -> Lease]
    BY CloseAllType DEF Expired, LeaseStatus
  <2>2. [status |-> "active", sample |-> s, user |-> u, left |-> LeaseTtl] \in Lease
    BY DEF Lease, LeaseStatus
  <2>3. lease' \in [Leases -> Lease]
    BY <1>8, <2>1, <2>2 DEF AcquireLease
  <2>4. \A h \in Holder : Held(KeysAfterExpiry(s), s, h)
                            \in [Samples -> [holder : Holder, ttl : 0..LockTtl]]
    BY <1>k DEF Held
  <2>5. LockTypeOK'
    BY <1>8, <2>4 DEF AcquireLease, LockTypeOK, Holder
  <2>6. task' \in [Samples -> Task]
    BY <1>8, StatusType DEF AcquireLease, TaskStatus
  <2> QED BY <1>8, <2>3, <2>5, <2>6 DEF AcquireLease, loopVars
<1>9. ASSUME NEW n \in 1..5, NEW u \in Users, NEW s \in Samples, NEW l \in Leases,
             ReacquireLease(u, s, l, n)
      PROVE  TypeOK'
  <2>1. LockTypeOK'
    BY <1>9, KeysType DEF ReacquireLease, LockTypeOK, Holder
  <2>2. lease' \in [Leases -> Lease]
    <3>1. LeaseTtl \in 0..LeaseTtl
      OBVIOUS
    <3> QED BY <1>9, <3>1, LeftType DEF ReacquireLease
  <2> QED BY <1>9, <2>1, <2>2 DEF ReacquireLease, storeVars, loopVars
<1>10. ASSUME NEW n \in 1..5, NEW l \in Leases, NEW s \in Samples,
              Heartbeat(l, s, n)
       PROVE  TypeOK'
  <2>1. LockTypeOK'
    BY <1>10, KeysType DEF Heartbeat, LockTypeOK, Holder
  <2>2. lease' \in [Leases -> Lease]
    <3>1. LeaseTtl \in 0..LeaseTtl
      OBVIOUS
    <3> QED BY <1>10, <3>1, LeftType DEF Heartbeat
  <2> QED BY <1>10, <2>1, <2>2 DEF Heartbeat, storeVars, loopVars
<1>11. ASSUME NEW n \in 1..5, NEW l \in Leases, NEW s \in Samples,
              ReleaseLease(l, s, n) \/ ForceRelease(l, s, n)
       PROVE  TypeOK'
  <2>1. LockTypeOK'
    BY <1>11, KeysType DEF ReleaseLease, ForceRelease, LockTypeOK
  <2>2. lease' \in [Leases -> Lease]
    BY <1>11, CloseAllType DEF ReleaseLease, ForceRelease, LeaseStatus
  <2> QED BY <1>11, <2>1, <2>2 DEF ReleaseLease, ForceRelease, storeVars, loopVars
<1>12. ASSUME NEW n \in 1..5, NEW s \in Samples, NEW i \in 1..Len(history[s]),
              Confirm(s, i, n)
       PROVE  TypeOK'
  <2>1. i \in Nat
    BY DEF Submission
  <2>2. task' \in [Samples -> Task]
    BY <1>12, StatusType DEF Confirm, TaskStatus
  <2>3. /\ snapshots' \in [Samples -> SUBSET Nat]
        /\ events' \in [Samples -> SUBSET Nat]
        /\ pool' \in [Samples -> SUBSET Nat]
    BY <1>12, <2>1 DEF Confirm
  <2> QED BY <1>12, <2>2, <2>3 DEF Confirm, lockVars, LockTypeOK
<1>13. ASSUME NEW u \in Users, NEW S \in SUBSET Samples, NEW done \in BOOLEAN,
              NEW pending \in SUBSET S, NEW seen \in SUBSET Samples,
              SaveBatchDraft(u, S, pending, seen, done)
       PROVE  TypeOK'
  <2>1. LockTypeOK'
    BY <1>13, KeysType DEF SaveBatchDraft, LockTypeOK
  <2>2. lease' \in [Leases -> Lease]
    BY <1>13, CloseAllType DEF SaveBatchDraft, LeaseStatus
  <2>3. task' \in [Samples -> Task]
    <3>1. "draft_saved" \in TaskStatus
      BY DEF TaskStatus
    <3>2. \A t \in Task : [t EXCEPT !.status = "draft_saved"] \in Task
      BY <3>1, StatusType
    <3> QED BY <1>13, <3>2 DEF SaveBatchDraft
  <2>4. assignment' \in Assignment
    BY <1>13 DEF SaveBatchDraft, Assignment, AssignmentStatus
  <2>5. draft' \in [Samples -> [Users -> Nat \cup {NoDraft}]]
    BY <1>13 DEF SaveBatchDraft, Task
  <2> QED BY <1>13, <2>1, <2>2, <2>3, <2>4, <2>5 DEF SaveBatchDraft, loopVars
<1>14. ASSUME NEW u \in Users, NEW saved \in SUBSET Drafted(u),
              NEW moved \in SUBSET saved, NEW gone \in SUBSET moved, NEW n \in 0..3,
              SubmitBatch(u, saved, moved, gone, n)
       PROVE  TypeOK'
  <2> DEFINE mine == {l \in ActiveLeases : lease[l].user = u}
  <2>1. LockTypeOK'
    BY <1>14, KeysType DEF SubmitBatch, CloseBatch, LockTypeOK
  <2>2. lease' \in [Leases -> Lease]
    BY <1>14, CloseAllType DEF SubmitBatch, CloseBatch, LeaseStatus
  <2>3. task' \in [Samples -> Task]
    <3>1. \A s \in Samples : Len(history[s]) + 1 \in Nat
      OBVIOUS
    <3>2. \A s \in Samples : Submitted(task[s], Len(history[s]) + 1) \in Task
      BY <3>1, SubmittedType
    <3> QED BY <1>14, <3>2 DEF SubmitBatch
  <2>4. assignment' \in Assignment
    BY <1>14 DEF SubmitBatch, CloseBatch, Assignment, AssignmentStatus
  <2>5. draft' \in [Samples -> [Users -> Nat \cup {NoDraft}]]
    BY <1>14 DEF SubmitBatch, NoDraft
  <2>6. \A s \in saved : [user |-> u, base |-> draft[s][u]] \in Submission
    BY <1>14 DEF SubmitBatch, Ready, Submission, Task, Drafted
  <2>7. history' \in [Samples -> Seq(Submission)]
    BY <1>14, <2>6 DEF SubmitBatch
  <2> QED BY <1>14, <2>1, <2>2, <2>3, <2>4, <2>5, <2>7 DEF SubmitBatch, CloseBatch, loopVars
<1>15. ASSUME NEW s \in Samples, Return(s) PROVE TypeOK'
  <2>1. task' \in [Samples -> Task]
    BY <1>15, StatusType DEF Return, TaskStatus
  <2> QED BY <1>15, <2>1 DEF Return, lockVars, loopVars, LockTypeOK
<1>16. ASSUME Tick PROVE TypeOK'
  <2>1. LockTypeOK'
    BY <1>16, KeysType DEF Tick, LockTypeOK
  <2>2. lease' \in [Leases -> Lease]
    <3> SUFFICES ASSUME NEW l \in Leases, lease[l].left > 0
                 PROVE  [lease[l] EXCEPT !.left = @ - 1] \in Lease
      BY <1>16 DEF Tick
    <3>1. lease[l].left - 1 \in 0..LeaseTtl
      BY DEF Lease
    <3> QED BY <3>1, LeftType
  <2> QED BY <1>16, <2>1, <2>2 DEF Tick, storeVars, loopVars
<1>17. ASSUME Environment PROVE TypeOK'
  <2>1. [s \in Samples |-> FreeKey] \in [Samples -> [holder : Holder, ttl : 0..LockTtl]]
    BY DEF FreeKey, Holder
  <2>2. redisUp' \in BOOLEAN
    BY <1>17 DEF Environment, RedisLoss, RedisOutage, LockTypeOK
  <2>3. LockTypeOK'
    BY <1>17, <2>1, <2>2 DEF Environment, RedisLoss, RedisOutage, LockTypeOK
  <2> QED BY <1>17, <2>3 DEF Environment, storeVars, loopVars
<1>18. CASE UNCHANGED vars
  BY <1>18 DEF vars, lockVars, storeVars, loopVars, LockTypeOK
<1>19. CASE Next
  <2> HIDE DEF TypeOK
  <2> QED BY <1>19, <1>1, <1>2, <1>3, <1>4, <1>5, <1>6, <1>7, <1>8, <1>9, <1>10,
             <1>11, <1>12, <1>13, <1>14, <1>15, <1>16, <1>17 DEF Next
<1> QED BY <1>18, <1>19

\* Every variable keeps its type, at every crash point and in every outage.
THEOREM TypeCorrect == Spec => []TypeOK
<1> QED BY InitType, StepType, PTL DEF Spec

-----------------------------------------------------------------------------
\* One active lease per sample.

\* Rows leave ACTIVE, or change their expiry, but none becomes ACTIVE.
NoneActivated ==
    \A l \in Leases : lease'[l].status = "active" =>
        /\ lease[l].status = "active"
        /\ lease'[l].sample = lease[l].sample

LEMMA NoneActivatedKeeps ==
    ASSUME OneActiveLeasePerSample, NoneActivated
    PROVE  OneActiveLeasePerSample'
BY DEF OneActiveLeasePerSample, NoneActivated

\* Closing rows activates none.
LEMMA CloseAllActivatesNone ==
    ASSUME lease \in [Leases -> Lease], NEW L, NEW status, status # "active",
           lease' = CloseAll(L, status)
    PROVE  NoneActivated
<1> SUFFICES ASSUME NEW l \in Leases, lease'[l].status = "active"
             PROVE  lease[l].status = "active" /\ lease'[l].sample = lease[l].sample
  BY DEF NoneActivated
<1>1. CASE l \in L
  <2>1. lease'[l] = Closed(lease[l], status)
    BY <1>1 DEF CloseAll
  <2>2. Closed(lease[l], status).status = status
    BY DEF Closed, Lease
  <2> QED BY <2>1, <2>2
<1>2. CASE l \notin L
  BY <1>2 DEF CloseAll
<1> QED BY <1>1, <1>2

\* Extending or ageing rows activates none.
LEMMA LeftActivatesNone ==
    ASSUME lease \in [Leases -> Lease], NEW l \in Leases, NEW left,
           lease' = [lease EXCEPT ![l].left = left]
    PROVE  NoneActivated
<1>1. \A m \in Leases : lease'[m].status = lease[m].status /\ lease'[m].sample = lease[m].sample
  BY DEF Lease
<1> QED BY <1>1 DEF NoneActivated

LEMMA StepOneActive ==
    TypeOK /\ OneActiveLeasePerSample /\ [Next]_vars => OneActiveLeasePerSample'
<1> SUFFICES ASSUME TypeOK, OneActiveLeasePerSample, [Next]_vars
             PROVE  OneActiveLeasePerSample'
  OBVIOUS
<1>t. lease \in [Leases -> Lease]
  BY DEF TypeOK
<1>u. ASSUME UNCHANGED lease PROVE NoneActivated
  BY <1>u DEF NoneActivated
<1>1. ASSUME NEW n \in 1..5,
             GenerateQueue(n) \/ \E u \in Users : AssignBatch(u, n)
      PROVE  NoneActivated
  BY <1>1, <1>u DEF GenerateQueue, AssignBatch
<1>2. ASSUME NEW n \in 1..5,
             ReleaseAssignment(n) \/ \E u \in Users : ReassignBatch(u, n)
      PROVE  NoneActivated
  BY <1>2, <1>t, <1>u, CloseAllActivatesNone
  DEF ReassignBatch, ReleaseAssignment, RevokedRows
<1>3. ASSUME NEW n \in 1..5, NEW s \in Samples, ObserveLease(s, n) PROVE NoneActivated
  BY <1>3, <1>t, <1>u, CloseAllActivatesNone DEF ObserveLease, Expired
<1>4. ASSUME NEW n \in 1..5, NEW u \in Users, NEW s \in Samples,
             SaveDraft(u, s, n) \/ SubmitSample(u, s, n)
      PROVE  NoneActivated
  BY <1>4, <1>t, <1>u, CloseAllActivatesNone DEF SaveDraft, SubmitSample
<1>5. ASSUME NEW n \in 1..5, NEW u \in Users, NEW s \in Samples, NEW l \in Leases,
             AcquireLease(u, s, l, n)
      PROVE  OneActiveLeasePerSample'
  \* The due rows of s are closed, and s had no other.
  <2>1. \A m \in Leases : Expired(s)[m].status = "active" =>
          /\ lease[m].status = "active"
          /\ Expired(s)[m].sample = lease[m].sample
          /\ lease[m].sample # s
    <3> SUFFICES ASSUME NEW m \in Leases, Expired(s)[m].status = "active"
                 PROVE  /\ lease[m].status = "active"
                        /\ Expired(s)[m].sample = lease[m].sample
                        /\ lease[m].sample # s
      OBVIOUS
    <3>1. m \notin Due(s)
      <4> SUFFICES ASSUME m \in Due(s) PROVE FALSE
        OBVIOUS
      <4>1. Expired(s)[m] = Closed(lease[m], "expired")
        BY DEF Expired, CloseAll
      <4>2. Closed(lease[m], "expired").status = "expired"
        BY <1>t DEF Closed, Lease
      <4> QED BY <4>1, <4>2
    <3>2. Expired(s)[m] = lease[m]
      BY <3>1 DEF Expired, CloseAll
    <3>3. m \notin ActiveOn(s)
      BY <1>5, <3>1 DEF AcquireLease, Current
    <3> QED BY <3>2, <3>3 DEF ActiveOn
  <2>2. CASE n = 1
    BY <1>5, <2>1, <2>2, NoneActivatedKeeps DEF AcquireLease, NoneActivated
  <2>3. CASE n # 1
    <3> DEFINE row == [status |-> "active", sample |-> s, user |-> u, left |-> LeaseTtl]
    <3>1. lease' = [Expired(s) EXCEPT ![l] = row]
      BY <1>5, <2>3 DEF AcquireLease
    <3>2. \A m \in Leases : lease'[m] = IF m = l THEN row ELSE Expired(s)[m]
      BY <3>1 DEF Expired, CloseAll
    <3>3. \A m \in Leases : m # l /\ lease'[m].status = "active" =>
            /\ lease[m].status = "active"
            /\ lease'[m].sample = lease[m].sample
            /\ lease'[m].sample # s
      BY <2>1, <3>2
    <3>4. lease'[l].sample = s
      BY <3>2
    <3> QED BY <3>3, <3>4 DEF OneActiveLeasePerSample
  <2> QED BY <2>2, <2>3
<1>6. ASSUME NEW n \in 1..5, NEW s \in Samples, NEW l \in Leases,
             Heartbeat(l, s, n) \/ \E u \in Users : ReacquireLease(u, s, l, n)
      PROVE  NoneActivated
  BY <1>6, <1>t, <1>u, LeftActivatesNone DEF ReacquireLease, Heartbeat
<1>7. ASSUME NEW n \in 1..5, NEW l \in Leases, NEW s \in Samples,
             ReleaseLease(l, s, n) \/ ForceRelease(l, s, n)
      PROVE  NoneActivated
  BY <1>7, <1>t, <1>u, CloseAllActivatesNone DEF ReleaseLease, ForceRelease
<1>8. ASSUME NEW n \in 1..5, NEW s \in Samples, NEW i \in 1..Len(history[s]),
             Confirm(s, i, n)
      PROVE  NoneActivated
  BY <1>8, <1>u DEF Confirm
<1>9. ASSUME NEW u \in Users, NEW S \in SUBSET Samples, NEW done \in BOOLEAN,
             NEW pending \in SUBSET S, NEW seen \in SUBSET Samples,
             SaveBatchDraft(u, S, pending, seen, done)
      PROVE  NoneActivated
  BY <1>9, <1>t, CloseAllActivatesNone DEF SaveBatchDraft
<1>10. ASSUME NEW u \in Users, NEW saved \in SUBSET Drafted(u),
              NEW moved \in SUBSET saved, NEW gone \in SUBSET moved, NEW n \in 0..3,
              SubmitBatch(u, saved, moved, gone, n)
       PROVE  NoneActivated
  BY <1>10, <1>t, <1>u, CloseAllActivatesNone DEF SubmitBatch, CloseBatch
<1>11. ASSUME Tick PROVE NoneActivated
  <2>1. \A m \in Leases :
          lease'[m].status = lease[m].status /\ lease'[m].sample = lease[m].sample
    BY <1>11, <1>t DEF Tick, Lease
  <2> QED BY <2>1 DEF NoneActivated
<1>12. ASSUME Environment \/ UNCHANGED vars PROVE NoneActivated
  BY <1>12, <1>u DEF Environment, vars
<1>13. ASSUME NEW s \in Samples, Return(s) PROVE NoneActivated
  BY <1>13, <1>u DEF Return
<1> HIDE DEF NoneActivated, OneActiveLeasePerSample
<1> QED
  BY <1>1, <1>2, <1>3, <1>4, <1>5, <1>6, <1>7, <1>8, <1>9, <1>10, <1>11, <1>12, <1>13,
     NoneActivatedKeeps DEF Next

\* However requests, expiry, revocation, Redis failures and crashes interleave, a
\* sample never has two ACTIVE lease rows.
THEOREM OneActive == Spec => []OneActiveLeasePerSample
<1>1. Init => OneActiveLeasePerSample
  BY DEF Init, OneActiveLeasePerSample
<1> QED BY <1>1, StepOneActive, TypeCorrect, PTL DEF Spec

-----------------------------------------------------------------------------
\* The leases of the assignee.

\* No row becomes ACTIVE or changes hands.
NoneHandedOut ==
    \A l \in Leases : lease'[l].status = "active" =>
        lease[l].status = "active" /\ lease'[l].user = lease[l].user

\* Nobody who could edit the batch no longer can.
StillEditable == \A u \in Users \cup {NoUser} : EditableBy(u) => EditableBy(u)'

LEMMA NoneHandedOutKeeps ==
    ASSUME TypeOK, LeasesOfAssignee, NoneHandedOut, StillEditable
    PROVE  LeasesOfAssignee'
<1> SUFFICES ASSUME NEW l \in Leases, lease'[l].status = "active"
             PROVE  assignment'.user = lease'[l].user /\ assignment'.status \in Editable
  BY DEF LeasesOfAssignee, ActiveLeases, EditableBy
<1>1. lease[l].status = "active" /\ lease'[l].user = lease[l].user
  BY DEF NoneHandedOut
<1>2. EditableBy(lease[l].user)
  BY <1>1 DEF LeasesOfAssignee, ActiveLeases
<1>3. lease[l].user \in Users \cup {NoUser}
  BY DEF TypeOK, Lease
<1> QED BY <1>1, <1>2, <1>3 DEF StillEditable, EditableBy

\* After every ACTIVE row is closed there is none left.
LEMMA NoneLeft ==
    ASSUME lease \in [Leases -> Lease], NEW status, status # "active",
           lease' = CloseAll(ActiveLeases, status)
    PROVE  LeasesOfAssignee'
<1>1. \A l \in Leases : lease'[l].status # "active"
  BY DEF CloseAll, Closed, ActiveLeases, Lease
<1> QED BY <1>1 DEF LeasesOfAssignee, ActiveLeases

LEMMA CloseAllHandsOutNone ==
    ASSUME lease \in [Leases -> Lease], NEW L, NEW status, status # "active",
           lease' = CloseAll(L, status)
    PROVE  NoneHandedOut
BY DEF CloseAll, Closed, Lease, NoneHandedOut

LEMMA LeftHandsOutNone ==
    ASSUME lease \in [Leases -> Lease], NEW l \in Leases, NEW left,
           lease' = [lease EXCEPT ![l].left = left]
    PROVE  NoneHandedOut
<1>1. \A m \in Leases : lease'[m].status = lease[m].status /\ lease'[m].user = lease[m].user
  BY DEF Lease
<1> QED BY <1>1 DEF NoneHandedOut

LEMMA StepAssignee ==
    ASSUME Crashes = FALSE, TypeOK, LeasesOfAssignee, [Next]_vars
    PROVE  LeasesOfAssignee'
<1> DEFINE kept == NoneHandedOut /\ StillEditable
<1>t. lease \in [Leases -> Lease]
  BY DEF TypeOK
<1>w. \A k \in Nat, n \in Nat : n \in Writes(k) => n = k
  BY DEF Writes
<1>a. ASSUME UNCHANGED assignment PROVE StillEditable
  BY <1>a DEF StillEditable, EditableBy
<1>l. ASSUME UNCHANGED lease PROVE NoneHandedOut
  BY <1>l DEF NoneHandedOut
<1>1. ASSUME NEW n \in 1..5, GenerateQueue(n) PROVE kept
  BY <1>1, <1>a, <1>l DEF GenerateQueue
<1>2. ASSUME NEW n \in 1..5, NEW u \in Users, AssignBatch(u, n) PROVE kept
  BY <1>2, <1>l DEF AssignBatch, StillEditable, EditableBy, Taken, Editable
<1>3. ASSUME NEW n \in 1..5,
             ReleaseAssignment(n) \/ \E u \in Users : ReassignBatch(u, n)
      PROVE  LeasesOfAssignee'
  <2>1. lease' = CloseAll(ActiveLeases, "revoked")
    BY <1>3, <1>w DEF ReleaseAssignment, ReassignBatch, RevokedRows
  <2> QED BY <2>1, <1>t, NoneLeft
<1>4. ASSUME NEW n \in 1..5, NEW s \in Samples, ObserveLease(s, n) PROVE kept
  BY <1>4, <1>a, <1>l, <1>t, CloseAllHandsOutNone DEF ObserveLease, Expired, storeVars
<1>5. ASSUME NEW n \in 1..5, NEW u \in Users, NEW s \in Samples, NEW l \in Leases,
             AcquireLease(u, s, l, n)
      PROVE  LeasesOfAssignee'
  <2> DEFINE row == [status |-> "active", sample |-> s, user |-> u, left |-> LeaseTtl]
  <2>1. lease' = [Expired(s) EXCEPT ![l] = row]
    BY <1>5, <1>w DEF AcquireLease
  <2>2. \A m \in Leases : Expired(s)[m].status = "active" =>
          lease[m].status = "active" /\ Expired(s)[m].user = lease[m].user
    BY <1>t DEF Expired, CloseAll, Closed, Lease
  <2>3. \A m \in Leases : lease'[m] = IF m = l THEN row ELSE Expired(s)[m]
    BY <2>1 DEF Expired, CloseAll
  <2>4. assignment' = assignment /\ EditableBy(u)
    BY <1>5 DEF AcquireLease
  <2> SUFFICES ASSUME NEW m \in Leases, lease'[m].status = "active"
               PROVE  EditableBy(lease'[m].user)
    BY <2>4 DEF LeasesOfAssignee, ActiveLeases, EditableBy
  <2>5. CASE m = l
    BY <2>3, <2>4, <2>5
  <2>6. CASE m # l
    BY <2>2, <2>3, <2>6 DEF LeasesOfAssignee, ActiveLeases
  <2> QED BY <2>5, <2>6
<1>6. ASSUME NEW n \in 1..5, NEW s \in Samples, NEW l \in Leases,
             Heartbeat(l, s, n) \/ \E u \in Users : ReacquireLease(u, s, l, n)
      PROVE  kept
  BY <1>6, <1>t, <1>a, <1>l, LeftHandsOutNone DEF ReacquireLease, Heartbeat, storeVars
<1>7. ASSUME NEW n \in 1..5, NEW l \in Leases, NEW s \in Samples,
             ReleaseLease(l, s, n) \/ ForceRelease(l, s, n)
      PROVE  kept
  BY <1>7, <1>t, <1>a, <1>l, CloseAllHandsOutNone DEF ReleaseLease, ForceRelease, storeVars
<1>8. ASSUME NEW n \in 1..5, NEW u \in Users, NEW s \in Samples,
             SaveDraft(u, s, n) \/ SubmitSample(u, s, n)
      PROVE  kept
  BY <1>8, <1>t, <1>a, <1>l, CloseAllHandsOutNone DEF SaveDraft, SubmitSample
<1>9. ASSUME NEW n \in 1..5, NEW s \in Samples, NEW i \in 1..Len(history[s]),
             Confirm(s, i, n)
      PROVE  kept
  BY <1>9, <1>a, <1>l DEF Confirm
<1>10. ASSUME NEW u \in Users, NEW S \in SUBSET Samples, NEW done \in BOOLEAN,
              NEW pending \in SUBSET S, NEW seen \in SUBSET Samples,
              SaveBatchDraft(u, S, pending, seen, done)
       PROVE  kept
  <2>1. NoneHandedOut
    BY <1>10, <1>t, CloseAllHandsOutNone DEF SaveBatchDraft
  <2>2. \/ assignment' = assignment
        \/ assignment' = [assignment EXCEPT !.status = "in_progress"]
    BY <1>10 DEF SaveBatchDraft
  <2>3. StillEditable
    BY <2>2 DEF StillEditable, EditableBy, Editable, TypeOK, Assignment
  <2> QED BY <2>1, <2>3
<1>11. ASSUME NEW u \in Users, NEW saved \in SUBSET Drafted(u),
              NEW moved \in SUBSET saved, NEW gone \in SUBSET moved, NEW n \in 0..3,
              SubmitBatch(u, saved, moved, gone, n)
       PROVE  LeasesOfAssignee'
  \* Every ACTIVE row is u's, and u's rows are closed.
  <2>1. ActiveLeases = {l \in ActiveLeases : lease[l].user = u}
    BY <1>11 DEF SubmitBatch, LeasesOfAssignee, EditableBy
  <2>2. n = 3
    BY <1>11 DEF SubmitBatch
  <2>3. lease' = CloseAll({l \in ActiveLeases : lease[l].user = u}, "released")
    BY <1>11, <2>2 DEF SubmitBatch, CloseBatch
  <2>4. lease' = CloseAll(ActiveLeases, "released")
    BY <2>1, <2>3
  <2> QED BY <2>4, <1>t, NoneLeft
<1>12. ASSUME NEW s \in Samples, Return(s) PROVE kept
  BY <1>12, <1>a, <1>l DEF Return
<1>13. ASSUME Tick PROVE kept
  <2>1. \A m \in Leases :
          lease'[m].status = lease[m].status /\ lease'[m].user = lease[m].user
    BY <1>13, <1>t DEF Tick, Lease
  <2>2. StillEditable
    BY <1>13, <1>a DEF Tick, storeVars
  <2> QED BY <2>1, <2>2 DEF NoneHandedOut
<1>14. ASSUME Environment \/ UNCHANGED vars PROVE kept
  BY <1>14, <1>a, <1>l DEF Environment, vars, storeVars
<1>15. kept => LeasesOfAssignee'
  BY NoneHandedOutKeeps
<1> HIDE DEF kept
<1> QED
  BY <1>1, <1>2, <1>3, <1>4, <1>5, <1>6, <1>7, <1>8, <1>9, <1>10, <1>11, <1>12, <1>13,
     <1>14, <1>15 DEF Next

\* With no handler cut short, an ACTIVE lease belongs to the batch's assignee, and
\* the batch can be edited.
THEOREM AssigneeLeases ==
    ASSUME Crashes = FALSE
    PROVE  Spec => []LeasesOfAssignee
<1>1. Init => LeasesOfAssignee
  BY DEF Init, LeasesOfAssignee, ActiveLeases
<1>2. TypeOK /\ LeasesOfAssignee /\ [Next]_vars => LeasesOfAssignee'
  BY StepAssignee
<1> QED BY <1>1, <1>2, TypeCorrect, PTL DEF Spec

-----------------------------------------------------------------------------
\* The Redis key and the row.

\* Without Redis there are no keys.
NoKeysWithoutRedis == ~RedisOn => \A s \in Samples : lock[s].holder = NoLease

Keys == KeyAgreesWithRow /\ NoKeysWithoutRedis

\* No row becomes current again, and no key comes to name another lease.
NoneSpeaksUp ==
    /\ \A s \in Samples : Current(s)' \subseteq Current(s)
    /\ \A s \in Samples : lock'[s].holder \in {lock[s].holder, NoLease}

LEMMA NoneSpeaksUpKeeps ==
    ASSUME Keys, NoneSpeaksUp
    PROVE  Keys'
<1>1. KeyAgreesWithRow'
  BY DEF Keys, KeyAgreesWithRow, NoneSpeaksUp
<1>2. NoKeysWithoutRedis'
  BY DEF Keys, NoKeysWithoutRedis, NoneSpeaksUp
<1> QED BY <1>1, <1>2 DEF Keys

\* Deleting keys, or letting them age, gives none another holder.
LEMMA FreedHolders ==
    ASSUME NEW S, lock' = Freed(lock, S), NEW s \in Samples
    PROVE  lock'[s].holder \in {lock[s].holder, NoLease}
BY DEF Freed, FreeKey

LEMMA AgedHolders ==
    ASSUME LockTypeOK, lock' = Aged(lock), NEW s \in Samples
    PROVE  lock'[s].holder \in {lock[s].holder, NoLease}
BY DEF Aged, FreeKey, LockTypeOK

\* Closing rows makes none current.
LEMMA CloseAllCurrent ==
    ASSUME lease \in [Leases -> Lease], NEW L, NEW status, status # "active",
           lease' = CloseAll(L, status), NEW s
    PROVE  Current(s)' \subseteq Current(s)
<1>1. \A l \in Leases : lease'[l].status = "active" => lease'[l] = lease[l]
  BY DEF CloseAll, Closed, Lease
<1> QED BY <1>1 DEF Current, Due, ActiveOn

\* Nor does extending the row of a current lease.
LEMMA ExtendedCurrent ==
    ASSUME lease \in [Leases -> Lease], NEW l \in Leases, Live(l), NEW left,
           lease' = [lease EXCEPT ![l].left = left], NEW s
    PROVE  Current(s)' \subseteq Current(s)
<1>1. \A m \in Leases : m # l => lease'[m] = lease[m]
  OBVIOUS
<1>2. lease'[l].status = lease[l].status /\ lease'[l].sample = lease[l].sample
  BY DEF Lease
<1>3. lease[l].status = "active" /\ lease[l].left # 0
  BY DEF Live, Lease
<1> QED BY <1>1, <1>2, <1>3 DEF Current, Due, ActiveOn

\* A current lease is live.
LEMMA CurrentIsLive ==
    ASSUME lease \in [Leases -> Lease], NEW s, NEW l \in Current(s)
    PROVE  Live(l)
BY DEF Current, Due, ActiveOn, Live, Lease

LEMMA StepKeys ==
    TypeOK /\ OneActiveLeasePerSample /\ Keys /\ [Next]_vars => Keys'
<1> SUFFICES ASSUME TypeOK, OneActiveLeasePerSample, Keys, [Next]_vars
             PROVE  Keys'
  OBVIOUS
<1>t. lease \in [Leases -> Lease] /\ LockTypeOK
  BY DEF TypeOK
<1>k. lock \in [Samples -> [holder : Holder, ttl : 0..LockTtl]]
  BY <1>t DEF LockTypeOK
<1>l. ASSUME UNCHANGED lease PROVE \A s \in Samples : Current(s)' \subseteq Current(s)
  BY <1>l DEF Current, Due, ActiveOn
<1>h. ASSUME UNCHANGED lock
      PROVE  \A s \in Samples : lock'[s].holder \in {lock[s].holder, NoLease}
  BY <1>h
<1>1. ASSUME NEW n \in 1..5,
             \/ GenerateQueue(n)
             \/ \E u \in Users : AssignBatch(u, n)
             \/ \E u \in Users, s \in Samples : SaveDraft(u, s, n)
             \/ \E s \in Samples : \E i \in 1..Len(history[s]) : Confirm(s, i, n)
      PROVE  NoneSpeaksUp
  BY <1>1, <1>l, <1>h DEF GenerateQueue, AssignBatch, SaveDraft, Confirm, lockVars, NoneSpeaksUp
<1>2. ASSUME NEW n \in 1..5, ReleaseAssignment(n) \/ \E u \in Users : ReassignBatch(u, n)
      PROVE  NoneSpeaksUp
  <2>1. lease' = lease \/ lease' = CloseAll(ActiveLeases, "revoked")
    BY <1>2 DEF ReleaseAssignment, ReassignBatch, RevokedRows
  <2>2. lock' = lock \/ lock' = Freed(lock, SamplesOf(ActiveLeases))
    BY <1>2 DEF ReleaseAssignment, ReassignBatch
  <2> QED BY <2>1, <2>2, <1>t, <1>l, <1>h, CloseAllCurrent, FreedHolders DEF NoneSpeaksUp
<1>3. ASSUME NEW n \in 1..5, NEW s \in Samples, ObserveLease(s, n) PROVE NoneSpeaksUp
  <2>1. lease' = lease \/ lease' = CloseAll(Due(s), "expired")
    BY <1>3 DEF ObserveLease, Expired
  <2>2. lock' = lock \/ lock' = Freed(lock, {s})
    BY <1>3 DEF ObserveLease, KeysAfterExpiry
  <2> QED BY <2>1, <2>2, <1>t, <1>l, <1>h, CloseAllCurrent, FreedHolders DEF NoneSpeaksUp
<1>4. ASSUME NEW n \in 1..5, NEW u \in Users, NEW s \in Samples, SubmitSample(u, s, n)
      PROVE  NoneSpeaksUp
  <2>1. lock' = lock /\ (lease' = lease \/ lease' = CloseAll(Current(s), "released"))
    BY <1>4 DEF SubmitSample, lockVars
  <2> QED BY <2>1, <1>t, <1>l, <1>h, CloseAllCurrent DEF NoneSpeaksUp
<1>5. ASSUME NEW n \in 1..5, NEW u \in Users, NEW s \in Samples, NEW l \in Leases,
             AcquireLease(u, s, l, n)
      PROVE  Keys'
  <2> DEFINE row == [status |-> "active", sample |-> s, user |-> u, left |-> LeaseTtl]
             k == KeysAfterExpiry(s)
             name == IF n = 1 THEN Orphan ELSE l
  <2>1. lock' = Held(k, s, name) /\ CanAcquire(k, s) /\ Current(s) = {}
    BY <1>5 DEF AcquireLease
  \* Before the new row, s has no current one, and another sample has what it had.
  <2>2. \A r \in Samples : \A m \in Leases :
          Expired(s)[m].status = "active" /\ Expired(s)[m].sample = r /\ Expired(s)[m].left # 0
            => m \in Current(r) /\ r # s
    <3>1. \A m \in Leases : Expired(s)[m].status = "active" => Expired(s)[m] = lease[m]
      BY <1>t DEF Expired, CloseAll, Closed, Lease
    <3> QED BY <2>1, <3>1 DEF Current, Due, ActiveOn
  <2>3. \A r \in Samples : r # s => lock'[r].holder = lock[r].holder
    BY <2>1 DEF Held, KeysAfterExpiry, Freed
  <2>4. RedisOn => lock'[s].holder = name
    <3>1. k \in [Samples -> [holder : Holder, ttl : 0..LockTtl]]
      BY <1>k DEF KeysAfterExpiry, Freed, FreeKey, Holder
    <3> HIDE DEF k, name
    <3> QED BY <2>1, <3>1 DEF Held, CanAcquire
  <2>5. ~RedisOn => \A r \in Samples : lock'[r].holder = NoLease
    BY <2>1 DEF Held, KeysAfterExpiry, Freed, FreeKey, Keys, NoKeysWithoutRedis
  <2>6. \A r \in Samples : \A m \in Current(r)' :
          (r # s /\ m \in Current(r)) \/ (r = s /\ m = l /\ n # 1)
    <3>1. CASE n = 1
      <4>1. lease' = Expired(s)
        BY <1>5, <3>1 DEF AcquireLease
      <4> QED BY <2>2, <4>1 DEF Current, Due, ActiveOn
    <3>2. CASE n # 1
      <4>1. lease' = [Expired(s) EXCEPT ![l] = row]
        BY <1>5, <3>2 DEF AcquireLease
      <4>2. \A m \in Leases : lease'[m] = IF m = l THEN row ELSE Expired(s)[m]
        BY <4>1 DEF Expired, CloseAll
      <4> HIDE DEF row
      <4>3. row.sample = s
        BY DEF row
      <4> QED BY <2>2, <3>2, <4>2, <4>3 DEF Current, Due, ActiveOn
    <3> QED BY <3>1, <3>2
  <2>7. KeyAgreesWithRow'
    <3> SUFFICES ASSUME NEW r \in Samples, NEW m \in Current(r)'
                 PROVE  lock'[r].holder \in {m, NoLease}
      BY DEF KeyAgreesWithRow
    <3>1. CASE r # s /\ m \in Current(r)
      BY <2>3, <3>1 DEF Keys, KeyAgreesWithRow
    <3>2. CASE r = s /\ m = l /\ n # 1
      BY <2>4, <2>5, <3>2
    <3> QED BY <2>6, <3>1, <3>2
  <2>8. NoKeysWithoutRedis'
    BY <2>5 DEF NoKeysWithoutRedis
  <2> QED BY <2>7, <2>8 DEF Keys
<1>6. ASSUME NEW n \in 1..5, NEW u \in Users, NEW s \in Samples, NEW l \in Leases,
             ReacquireLease(u, s, l, n)
      PROVE  Keys'
  <2>1. /\ l \in Current(s) /\ lock' = Held(lock, s, l)
        /\ lease' = lease \/ lease' = [lease EXCEPT ![l].left = LeaseTtl]
    BY <1>6 DEF ReacquireLease
  <2>2. \A r \in Samples : Current(r)' \subseteq Current(r)
    BY <2>1, <1>t, <1>l, CurrentIsLive, ExtendedCurrent
  <2>3. Current(s) = {l}
    BY <2>1 DEF Current, Due, ActiveOn, OneActiveLeasePerSample
  <2>4. \A r \in Samples : lock'[r].holder = lock[r].holder \/ (r = s /\ lock'[r].holder = l)
    BY <2>1, <1>k DEF Held
  <2>5. KeyAgreesWithRow'
    BY <2>2, <2>3, <2>4 DEF Keys, KeyAgreesWithRow
  <2>6. NoKeysWithoutRedis'
    BY <2>1 DEF Keys, NoKeysWithoutRedis, Held
  <2> QED BY <2>5, <2>6 DEF Keys
<1>7. ASSUME NEW n \in 1..5, NEW l \in Leases, NEW s \in Samples, Heartbeat(l, s, n)
      PROVE  NoneSpeaksUp
  <2>1. /\ Live(l) /\ HeldBy(lock, s, l) /\ lock' = Held(lock, s, l)
        /\ lease' = lease \/ lease' = [lease EXCEPT ![l].left = LeaseTtl]
    BY <1>7 DEF Heartbeat
  <2>2. \A r \in Samples : Current(r)' \subseteq Current(r)
    BY <2>1, <1>t, <1>l, ExtendedCurrent
  <2>3. \A r \in Samples : lock'[r].holder = lock[r].holder
    BY <2>1, <1>k DEF Held, HeldBy
  <2> QED BY <2>2, <2>3 DEF NoneSpeaksUp
<1>8. ASSUME NEW n \in 1..5, NEW l \in Leases, NEW s \in Samples,
             ReleaseLease(l, s, n) \/ ForceRelease(l, s, n)
      PROVE  NoneSpeaksUp
  <2>1. /\ lock' = Freed(lock, {s})
        /\ lease' = lease \/ lease' = CloseAll({l}, "released")
    BY <1>8 DEF ReleaseLease, ForceRelease
  <2> QED BY <2>1, <1>t, <1>l, CloseAllCurrent, FreedHolders DEF NoneSpeaksUp
<1>9. ASSUME NEW u \in Users, NEW S \in SUBSET Samples, NEW done \in BOOLEAN,
             NEW pending \in SUBSET S, NEW seen \in SUBSET Samples,
             SaveBatchDraft(u, S, pending, seen, done)
      PROVE  NoneSpeaksUp
  BY <1>9, <1>t, CloseAllCurrent, FreedHolders DEF SaveBatchDraft, NoneSpeaksUp
<1>10. ASSUME NEW u \in Users, NEW saved \in SUBSET Drafted(u),
              NEW moved \in SUBSET saved, NEW gone \in SUBSET moved, NEW n \in 0..3,
              SubmitBatch(u, saved, moved, gone, n)
       PROVE  NoneSpeaksUp
  <2> DEFINE mine == {l \in ActiveLeases : lease[l].user = u}
  <2>1. /\ lock' = lock \/ lock' = Freed(lock, SamplesOf(mine))
        /\ lease' = lease \/ lease' = CloseAll(mine, "released")
    BY <1>10 DEF SubmitBatch, CloseBatch
  <2> HIDE DEF mine
  <2> QED BY <2>1, <1>t, <1>l, <1>h, CloseAllCurrent, FreedHolders DEF NoneSpeaksUp
<1>11. ASSUME Tick PROVE NoneSpeaksUp
  <2>1. \A m \in Leases : /\ lease'[m].status = lease[m].status
                          /\ lease'[m].sample = lease[m].sample
                          /\ lease'[m].left # 0 => lease[m].left # 0
    BY <1>11, <1>t DEF Tick, Lease
  <2>2. \A s \in Samples : Current(s)' \subseteq Current(s)
    BY <2>1 DEF Current, Due, ActiveOn
  <2> QED BY <2>2, <1>11, <1>t, AgedHolders DEF Tick, NoneSpeaksUp
<1>12. ASSUME Environment PROVE NoneSpeaksUp
  <2>1. lease' = lease
    BY <1>12 DEF Environment
  <2>2. \A s \in Samples : lock'[s].holder \in {lock[s].holder, NoLease}
    BY <1>12 DEF Environment, RedisLoss, RedisOutage, FreeKey
  <2> QED BY <2>1, <2>2, <1>l DEF NoneSpeaksUp
<1>13. ASSUME UNCHANGED vars \/ \E s \in Samples : Return(s) PROVE NoneSpeaksUp
  BY <1>13, <1>l, <1>h DEF Return, vars, lockVars, NoneSpeaksUp
<1> HIDE DEF NoneSpeaksUp, Keys
<1> QED
  BY <1>1, <1>2, <1>3, <1>4, <1>5, <1>6, <1>7, <1>8, <1>9, <1>10, <1>11, <1>12, <1>13,
     NoneSpeaksUpKeeps DEF Next

\* A Redis key never speaks for another lease than the sample's unexpired row,
\* whatever was lost, left behind or cut short.
THEOREM KeyAgrees == Spec => []KeyAgreesWithRow
<1>1. Init => Keys
  <2> SUFFICES ASSUME Init PROVE Keys
    OBVIOUS
  <2>1. \A s \in Samples : lock[s].holder = NoLease
    BY DEF Init, LockInit, FreeKey
  <2> QED BY <2>1 DEF Keys, KeyAgreesWithRow, NoKeysWithoutRedis
<1>2. Keys => KeyAgreesWithRow
  BY DEF Keys
<1> QED BY <1>1, <1>2, StepKeys, OneActive, TypeCorrect, PTL DEF Spec
=============================================================================
