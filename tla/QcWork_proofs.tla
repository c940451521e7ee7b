---------------------------- MODULE QcWork_proofs ----------------------------
(***************************************************************************)
(* Theorems about the work QcWorkflow keeps: what a completed task stands  *)
(* on, and, when no handler is cut short, the ledger of submissions.       *)
(***************************************************************************)
EXTENDS QcWorkflow_proofs

-----------------------------------------------------------------------------
\* A completed task stands on its closed-loop rows.

\* No task becomes COMPLETED and no closed-loop row goes.
NoneCompleted ==
    \A s \in Samples :
        /\ task'[s].status = "completed" => task[s].status = "completed"
        /\ snapshots[s] \subseteq snapshots'[s]
        /\ events[s] \subseteq events'[s]
        /\ pool[s] \subseteq pool'[s]

LEMMA NoneCompletedKeeps ==
    ASSUME CompletedIsMaterialized, NoneCompleted
    PROVE  CompletedIsMaterialized'
BY DEF CompletedIsMaterialized, NoneCompleted

\* An action that leaves the closed-loop rows alone and completes no task.
LEMMA LoopUntouched ==
    ASSUME UNCHANGED loopVars,
           \A s \in Samples : task'[s].status = "completed" => task[s].status = "completed"
    PROVE  NoneCompleted
BY DEF NoneCompleted, loopVars

\* What happens to a whole table of tasks completes none of them.
LEMMA TasksCompleteNone ==
    ASSUME NEW t \in [Samples -> Task], NEW u, NEW status, status # "completed",
           NEW s \in Samples
    PROVE  /\ WithTasks(t)[s].status = "completed" => t[s].status = "completed"
           /\ Reassigned(t, u, status)[s].status = "completed" => t[s].status = "completed"
BY DEF WithTasks, Reassigned, Task

LEMMA StatusCompletesNone ==
    ASSUME NEW t \in [Samples -> Task], NEW status, status # "completed",
           NEW s \in Samples, NEW r \in Samples,
           [t EXCEPT ![s].status = status][r].status = "completed"
    PROVE  t[r].status = "completed"
BY DEF Task

LEMMA SubmittedStatus ==
    ASSUME NEW t \in Task, NEW k
    PROVE  Submitted(t, k).status = "submitted"
BY DEF Submitted, Task

LEMMA StepMaterialized ==
    TypeOK /\ CompletedIsMaterialized /\ [Next]_vars => CompletedIsMaterialized'
<1> SUFFICES ASSUME TypeOK, CompletedIsMaterialized, [Next]_vars
             PROVE  CompletedIsMaterialized'
  OBVIOUS
<1>t. task \in [Samples -> Task]
  BY DEF TypeOK
<1>u. ASSUME UNCHANGED <<task, loopVars>> PROVE NoneCompleted
  BY <1>u, LoopUntouched
<1>1. ASSUME NEW n \in 1..5, GenerateQueue(n) PROVE NoneCompleted
  BY <1>1, <1>t, LoopUntouched, TasksCompleteNone DEF GenerateQueue
<1>2. ASSUME NEW n \in 1..5, ReleaseAssignment(n) PROVE NoneCompleted
  BY <1>2, <1>t, LoopUntouched, TasksCompleteNone DEF ReleaseAssignment
<1>3. ASSUME NEW n \in 1..5, NEW u \in Users, AssignBatch(u, n) \/ ReassignBatch(u, n)
      PROVE  NoneCompleted
  <2>1. WithTasks(task) \in [Samples -> Task]
    BY <1>t, TasksType DEF TaskStatus
  <2>2. \A s \in Samples :
          Reassigned(WithTasks(task), u, "assigned")[s].status = "completed"
            => task[s].status = "completed"
    <3> SUFFICES ASSUME NEW s \in Samples,
                        Reassigned(WithTasks(task), u, "assigned")[s].status = "completed"
                 PROVE  task[s].status = "completed"
      OBVIOUS
    <3>1. WithTasks(task)[s].status = "completed"
      BY <2>1, TasksCompleteNone
    <3> QED BY <3>1, <1>t, TasksCompleteNone
  <2>3. \A s \in Samples :
          WithTasks(task)[s].status = "completed" => task[s].status = "completed"
    BY <1>t, TasksCompleteNone
  <2>4. /\ UNCHANGED loopVars
        /\ \/ task' = WithTasks(task)
           \/ task' = Reassigned(WithTasks(task), u, "assigned")
    BY <1>3 DEF AssignBatch, ReassignBatch
  <2> QED BY <2>2, <2>3, <2>4, LoopUntouched
<1>4. ASSUME NEW n \in 1..5, NEW s \in Samples,
             \/ ObserveLease(s, n)
             \/ \E l \in Leases : Heartbeat(l, s, n) \/ ReleaseLease(l, s, n)
                                    \/ ForceRelease(l, s, n)
             \/ \E u \in Users, l \in Leases : ReacquireLease(u, s, l, n)
      PROVE  NoneCompleted
  BY <1>4, <1>u
  DEF ObserveLease, Heartbeat, ReleaseLease, ForceRelease, ReacquireLease, storeVars
<1>5. ASSUME NEW n \in 1..5, NEW u \in Users, NEW s \in Samples, NEW l \in Leases,
             AcquireLease(u, s, l, n)
      PROVE  NoneCompleted
  <2>1. /\ UNCHANGED loopVars
        /\ task' = task \/ task' = [task EXCEPT ![s].status = "in_progress"]
    BY <1>5 DEF AcquireLease
  <2>2. CASE task' = task
    BY <2>1, <2>2, LoopUntouched
  <2>3. CASE task' = [task EXCEPT ![s].status = "in_progress"]
    BY <2>1, <2>3, <1>t, LoopUntouched, StatusCompletesNone
  <2> QED BY <2>1, <2>2, <2>3
<1>6. ASSUME NEW n \in 1..5, NEW u \in Users, NEW s \in Samples, SaveDraft(u, s, n)
      PROVE  NoneCompleted
  <2>1. DraftSaved(task[s]).status = "draft_saved"
    BY <1>t DEF DraftSaved, Task
  <2>2. UNCHANGED loopVars /\ (task' = task \/ task' = [task EXCEPT ![s] = DraftSaved(task[s])])
    BY <1>6, <1>t DEF SaveDraft
  <2> QED BY <2>1, <2>2, <1>t, LoopUntouched
<1>7. ASSUME NEW n \in 1..5, NEW u \in Users, NEW s \in Samples, SubmitSample(u, s, n)
      PROVE  NoneCompleted
  <2>1. /\ UNCHANGED loopVars
        /\ \/ task' = task
           \/ task' = [task EXCEPT ![s] = Submitted(task[s], Len(history[s]) + 1)]
    BY <1>7 DEF SubmitSample
  <2> QED BY <2>1, <1>t, LoopUntouched, SubmittedStatus
<1>8. ASSUME NEW u \in Users, NEW S \in SUBSET Samples, NEW done \in BOOLEAN,
             NEW pending \in SUBSET S, NEW seen \in SUBSET Samples,
             SaveBatchDraft(u, S, pending, seen, done)
      PROVE  NoneCompleted
  <2>1. \A t \in Task : [t EXCEPT !.status = "draft_saved"].status = "draft_saved"
    BY DEF Task
  <2>2. \A s \in Samples : \/ task'[s] = task[s]
                           \/ task'[s] = [task[s] EXCEPT !.status = "draft_saved"]
    BY <1>8 DEF SaveBatchDraft
  <2>3. UNCHANGED loopVars
    BY <1>8 DEF SaveBatchDraft
  <2> QED BY <2>1, <2>2, <2>3, <1>t, LoopUntouched
<1>9. ASSUME NEW u \in Users, NEW saved \in SUBSET Drafted(u),
             NEW moved \in SUBSET saved, NEW gone \in SUBSET moved, NEW n \in 0..3,
             SubmitBatch(u, saved, moved, gone, n)
      PROVE  NoneCompleted
  <2>1. \A s \in Samples : \/ task'[s] = task[s]
                           \/ task'[s] = Submitted(task[s], Len(history[s]) + 1)
    BY <1>9 DEF SubmitBatch
  <2>2. UNCHANGED loopVars
    BY <1>9 DEF SubmitBatch
  <2> QED BY <2>1, <2>2, <1>t, LoopUntouched, SubmittedStatus
<1>10. ASSUME NEW n \in 1..5, NEW s \in Samples, NEW i \in 1..Len(history[s]),
              Confirm(s, i, n)
       PROVE  CompletedIsMaterialized'
  <2>1. /\ snapshots' = [snapshots EXCEPT ![s] = @ \cup {i}]
        /\ \A r \in Samples : events[r] \subseteq events'[r] /\ pool[r] \subseteq pool'[r]
    BY <1>10 DEF Confirm, TypeOK
  <2>2. \A r \in Samples : snapshots[r] \subseteq snapshots'[r]
    BY <2>1 DEF TypeOK
  <2>3. CASE n # 4
    <3>1. task' = task
      BY <1>10, <2>3 DEF Confirm
    <3> QED BY <3>1, <2>1, <2>2, NoneCompletedKeeps DEF NoneCompleted
  <2>4. CASE n = 4
    <3>1. /\ task' = [task EXCEPT ![s].status = "completed"]
          /\ s \in Blank \/ (i \in events'[s] /\ i \in pool'[s])
      BY <1>10, <2>4 DEF Confirm, TypeOK
    <3>2. i \in snapshots'[s]
      BY <2>1 DEF TypeOK
    <3>3. \A r \in Samples : r # s => task'[r] = task[r]
      BY <3>1, <1>t
    <3> SUFFICES ASSUME NEW r \in Samples, task'[r].status = "completed"
                 PROVE  \E j \in snapshots'[r] : r \in Blank \/ j \in events'[r] \cap pool'[r]
      BY DEF CompletedIsMaterialized
    <3>4. CASE r = s
      BY <3>1, <3>2, <3>4
    <3>5. CASE r # s
      BY <3>3, <3>5, <2>1, <2>2 DEF CompletedIsMaterialized
    <3> QED BY <3>4, <3>5
  <2> QED BY <2>3, <2>4
<1>11. ASSUME NEW s \in Samples, Return(s) PROVE NoneCompleted
  <2>1. UNCHANGED loopVars /\ task' = [task EXCEPT ![s].status = "returned"]
    BY <1>11 DEF Return
  <2> QED BY <2>1, <1>t, LoopUntouched, StatusCompletesNone
<1>12. ASSUME Tick \/ Environment \/ UNCHANGED vars PROVE NoneCompleted
  BY <1>12, <1>u DEF Tick, Environment, vars, storeVars
<1> HIDE DEF NoneCompleted, CompletedIsMaterialized
<1> QED
  BY <1>1, <1>2, <1>3, <1>4, <1>5, <1>6, <1>7, <1>8, <1>9, <1>10, <1>11, <1>12,
     NoneCompletedKeeps DEF Next

\* No crash inside confirm_submission and no later hand-over leaves a COMPLETED
\* task without the snapshot, events and pool item of a confirmed submission.
THEOREM Materialized == Spec => []CompletedIsMaterialized
<1>1. Init => CompletedIsMaterialized
  BY DEF Init, CompletedIsMaterialized
<1> QED BY <1>1, StepMaterialized, TypeCorrect, PTL DEF Spec

-----------------------------------------------------------------------------
\* With no handler cut short, the workflow keeps the ledger of ReviewLedger.

\* What the ledger sees of a step that does no work.
NoWork ==
    /\ \A s \in Samples : task'[s].rev = task[s].rev
    /\ UNCHANGED <<history, snapshots>>

LEMMA NoWorkStutters ==
    ASSUME NoWork
    PROVE  UNCHANGED Ledger!ledgerVars
BY DEF NoWork, Ledger!ledgerVars

\* Task tables that differ in status and assignee alone have the same revisions.
LEMMA SameRevisions ==
    ASSUME NEW t \in [Samples -> Task], NEW u, NEW status, NEW s \in Samples
    PROVE  /\ WithTasks(t)[s].rev = t[s].rev
           /\ Reassigned(t, u, status)[s].rev = t[s].rev
BY DEF WithTasks, Reassigned, Task

LEMMA StatusKeepsRevision ==
    ASSUME NEW t \in [Samples -> Task], NEW status, NEW s \in Samples, NEW r \in Samples
    PROVE  [t EXCEPT ![s].status = status][r].rev = t[r].rev
BY DEF Task

LEMMA SubmittedRevision ==
    ASSUME NEW t \in Task, NEW k
    PROVE  Submitted(t, k).rev = t.rev + 1
BY DEF Submitted, Task

LEMMA StepLedger ==
    ASSUME Crashes = FALSE, TypeOK, [Next]_vars
    PROVE  [Ledger!LedgerNext]_(Ledger!ledgerVars)
<1> DEFINE rev == [s \in Samples |-> task[s].rev]
           done == [Ledger!LedgerNext]_(Ledger!ledgerVars)
<1>t. task \in [Samples -> Task]
  BY DEF TypeOK
<1>w. \A k \in Nat, n \in Nat : n \in Writes(k) => n = k
  BY DEF Writes
<1>s. ASSUME NoWork PROVE done
  BY <1>s, NoWorkStutters
<1>u. ASSUME UNCHANGED <<task, history, snapshots>> PROVE NoWork
  BY <1>u DEF NoWork
<1>1. ASSUME NEW n \in 1..5, GenerateQueue(n) PROVE NoWork
  BY <1>1, <1>t, SameRevisions DEF GenerateQueue, NoWork, loopVars
<1>2. ASSUME NEW n \in 1..5, ReleaseAssignment(n) PROVE NoWork
  BY <1>2, <1>t, SameRevisions DEF ReleaseAssignment, NoWork, loopVars
<1>3. ASSUME NEW n \in 1..5, NEW u \in Users, AssignBatch(u, n) \/ ReassignBatch(u, n)
      PROVE  NoWork
  <2>1. WithTasks(task) \in [Samples -> Task]
    BY <1>t, TasksType DEF TaskStatus
  <2>2. \A s \in Samples :
          Reassigned(WithTasks(task), u, "assigned")[s].rev = WithTasks(task)[s].rev
    BY <2>1, SameRevisions
  <2>3. \A s \in Samples : WithTasks(task)[s].rev = task[s].rev
    BY <1>t, SameRevisions
  <2>4. /\ UNCHANGED <<history, snapshots>>
        /\ \/ task' = WithTasks(task)
           \/ task' = Reassigned(WithTasks(task), u, "assigned")
    BY <1>3 DEF AssignBatch, ReassignBatch, loopVars
  <2> QED BY <2>2, <2>3, <2>4 DEF NoWork
<1>4. ASSUME NEW n \in 1..5, NEW s \in Samples,
             \/ ObserveLease(s, n)
             \/ \E l \in Leases : Heartbeat(l, s, n) \/ ReleaseLease(l, s, n)
                                    \/ ForceRelease(l, s, n)
             \/ \E u \in Users, l \in Leases : ReacquireLease(u, s, l, n)
      PROVE  NoWork
  BY <1>4, <1>u DEF ObserveLease, Heartbeat, ReleaseLease, ForceRelease, ReacquireLease,
                    storeVars, loopVars
<1>5. ASSUME NEW n \in 1..5, NEW u \in Users, NEW s \in Samples, NEW l \in Leases,
             AcquireLease(u, s, l, n)
      PROVE  NoWork
  <2>1. /\ UNCHANGED <<history, snapshots>>
        /\ task' = task \/ task' = [task EXCEPT ![s].status = "in_progress"]
    BY <1>5 DEF AcquireLease, loopVars
  <2>2. CASE task' = task
    BY <2>1, <2>2, <1>u
  <2>3. CASE task' = [task EXCEPT ![s].status = "in_progress"]
    BY <2>1, <2>3, <1>t, StatusKeepsRevision DEF NoWork
  <2> QED BY <2>1, <2>2, <2>3
<1>6. ASSUME NEW n \in 1..5, NEW u \in Users, NEW s \in Samples, SaveDraft(u, s, n)
      PROVE  done
  <2>1. DraftSaved(task[s]).rev = task[s].rev + 1
    BY <1>t DEF DraftSaved, Task
  <2>2. n = 2
    BY <1>6, <1>w DEF SaveDraft
  <2>3. task' = [task EXCEPT ![s] = DraftSaved(task[s])] /\ UNCHANGED <<history, snapshots>>
    BY <1>6, <1>t, <2>2 DEF SaveDraft, loopVars
  <2>4. rev' = [rev EXCEPT ![s] = @ + 1]
    BY <2>1, <2>3, <1>t
  <2>5. Ledger!Checkpoint(s)
    BY <2>3, <2>4 DEF Ledger!Checkpoint
  <2> QED BY <2>5 DEF Ledger!LedgerNext
<1>7. ASSUME NEW n \in 1..5, NEW u \in Users, NEW s \in Samples, SubmitSample(u, s, n)
      PROVE  done
  <2>1. n = 3
    BY <1>7, <1>w DEF SubmitSample
  <2>2. /\ task' = [task EXCEPT ![s] = Submitted(task[s], Len(history[s]) + 1)]
        /\ history' = [history EXCEPT ![s] = Append(@, [user |-> u, base |-> task[s].rev])]
        /\ UNCHANGED snapshots
    BY <1>7, <2>1 DEF SubmitSample, loopVars
  <2>3. \A r \in Samples :
          task'[r].rev = IF r \in {s} THEN task[r].rev + 1 ELSE task[r].rev
    BY <2>2, <1>t, SubmittedRevision
  <2>4. history' = [r \in Samples |->
                      IF r \in {s} THEN Append(history[r], [user |-> u, base |-> rev[r]])
                      ELSE history[r]]
    BY <2>2 DEF TypeOK
  <2>5. Ledger!Submit(u, {s})
    BY <2>2, <2>3, <2>4 DEF Ledger!Submit
  <2> QED BY <2>5 DEF Ledger!LedgerNext
<1>8. ASSUME NEW u \in Users, NEW S \in SUBSET Samples, NEW finished \in BOOLEAN,
             NEW pending \in SUBSET S, NEW seen \in SUBSET Samples,
             SaveBatchDraft(u, S, pending, seen, finished)
      PROVE  NoWork
  <2>1. \A t \in Task : [t EXCEPT !.status = "draft_saved"].rev = t.rev
    BY DEF Task
  <2>2. \A s \in Samples : \/ task'[s] = task[s]
                           \/ task'[s] = [task[s] EXCEPT !.status = "draft_saved"]
    BY <1>8 DEF SaveBatchDraft
  <2>3. UNCHANGED <<history, snapshots>>
    BY <1>8 DEF SaveBatchDraft, loopVars
  <2> QED BY <2>1, <2>2, <2>3, <1>t DEF NoWork
<1>9. ASSUME NEW u \in Users, NEW saved \in SUBSET Drafted(u),
             NEW moved \in SUBSET saved, NEW gone \in SUBSET moved, NEW n \in 0..3,
             SubmitBatch(u, saved, moved, gone, n)
      PROVE  done
  <2>1. saved = Drafted(u) /\ moved = Drafted(u)
    <3>1. n = 3
      BY <1>9 DEF SubmitBatch
    <3>2. gone = Drafted(u)
      BY <1>9, <3>1 DEF SubmitBatch
    <3> QED BY <3>2
  <2>2. \A s \in saved : draft[s][u] = rev[s]
    BY <1>9, <2>1 DEF SubmitBatch, Ready, Drafted
  <2>3. \A s \in Samples :
          task'[s].rev = IF s \in saved THEN task[s].rev + 1 ELSE task[s].rev
    BY <1>9, <1>t, <2>1, SubmittedRevision DEF SubmitBatch
  <2>4. history' = [s \in Samples |->
                      IF s \in saved THEN Append(history[s], [user |-> u, base |-> rev[s]])
                      ELSE history[s]]
    BY <1>9, <2>2 DEF SubmitBatch
  <2>5. UNCHANGED snapshots
    BY <1>9 DEF SubmitBatch, loopVars
  <2>6. saved \in SUBSET Samples
    BY DEF Drafted
  <2>7. Ledger!Submit(u, saved)
    BY <2>3, <2>4, <2>5 DEF Ledger!Submit
  <2> QED BY <2>6, <2>7 DEF Ledger!LedgerNext
<1>10. ASSUME NEW n \in 1..5, NEW s \in Samples, NEW i \in 1..Len(history[s]),
              Confirm(s, i, n)
       PROVE  done
  <2>1. n = 4
    BY <1>10, <1>w DEF Confirm
  <2>2. /\ snapshots' = [snapshots EXCEPT ![s] = @ \cup {i}]
        /\ UNCHANGED history
        /\ task' = [task EXCEPT ![s].status = "completed"]
    BY <1>10, <2>1 DEF Confirm
  <2>3. rev' = rev
    BY <2>2, <1>t, StatusKeepsRevision
  <2>4. Ledger!Accept(s, i)
    BY <2>2, <2>3 DEF Ledger!Accept
  <2> QED BY <2>4 DEF Ledger!LedgerNext
<1>11. ASSUME NEW s \in Samples, Return(s) PROVE NoWork
  <2>1. UNCHANGED <<history, snapshots>> /\ task' = [task EXCEPT ![s].status = "returned"]
    BY <1>11 DEF Return, loopVars
  <2> QED BY <2>1, <1>t, StatusKeepsRevision DEF NoWork
<1>12. ASSUME Tick \/ Environment \/ UNCHANGED vars PROVE NoWork
  BY <1>12, <1>u DEF Tick, Environment, vars, storeVars, loopVars
<1> HIDE DEF NoWork, done
<1>13. done
  BY <1>s, <1>1, <1>2, <1>3, <1>4, <1>5, <1>6, <1>7, <1>8, <1>9, <1>10, <1>11, <1>12
  DEF Next
<1> QED BY <1>13 DEF done

\* Every behaviour in which each handler runs to its end is one of the ledger:
\* a submission is made against the sample's current revision and moves it on,
\* is never altered, and is accepted only once it is there.
THEOREM KeepsLedger ==
    ASSUME Crashes = FALSE
    PROVE  Spec => LedgerRefined
<1>1. Init => Ledger!LedgerInit
  BY DEF Init, Ledger!LedgerInit
<1>2. TypeOK /\ [Next]_vars => [Ledger!LedgerNext]_(Ledger!ledgerVars)
  BY StepLedger
<1> QED BY <1>1, <1>2, TypeCorrect, PTL DEF Spec, LedgerRefined, Ledger!LedgerSpec

-----------------------------------------------------------------------------
\* What the ledger guarantees about the submissions of a sample.

LEMMA StepNoLostUpdate ==
    ASSUME TypeOK, NoLostUpdate, [Ledger!LedgerNext]_(Ledger!ledgerVars)
    PROVE  NoLostUpdate'
<1> DEFINE rev == [s \in Samples |-> task[s].rev]
<1>t. /\ history \in [Samples -> Seq(Submission)]
      /\ \A s \in Samples : task[s].rev \in Nat
  BY DEF TypeOK, Task
<1>b. \A s \in Samples : \A i \in DOMAIN history[s] : history[s][i].base \in Nat
  <2> SUFFICES ASSUME NEW s \in Samples, NEW i \in DOMAIN history[s]
               PROVE  history[s][i].base \in Nat
    OBVIOUS
  <2>1. history[s] \in Seq(Submission) /\ i \in 1..Len(history[s])
    BY <1>t
  <2>2. history[s][i] \in Submission
    BY <2>1
  <2> QED BY <2>2 DEF Submission
<1>1. ASSUME NEW s \in Samples, Ledger!Checkpoint(s) PROVE NoLostUpdate'
  <2>1. history' = history /\ rev' = [rev EXCEPT ![s] = @ + 1]
    BY <1>1 DEF Ledger!Checkpoint
  <2>2. \A r \in Samples : rev'[r] \in {rev[r], rev[r] + 1}
    BY <2>1
  <2>3. \A r \in Samples : task'[r].rev \in {task[r].rev, task[r].rev + 1}
    BY <2>2
  <2> SUFFICES ASSUME NEW r \in Samples, NEW i \in DOMAIN history[r]
               PROVE  history[r][i].base < task'[r].rev
    BY <2>1 DEF NoLostUpdate
  <2>4. history[r][i].base \in Nat /\ history[r][i].base < task[r].rev
    BY <1>b DEF NoLostUpdate
  <2>5. task[r].rev \in Nat
    BY <1>t
  <2>6. task'[r].rev = task[r].rev \/ task'[r].rev = task[r].rev + 1
    BY <2>3
  <2> HIDE DEF rev
  <2> QED BY <2>4, <2>5, <2>6
<1>2. ASSUME NEW u \in Users, NEW S \in SUBSET Samples, Ledger!Submit(u, S)
      PROVE  NoLostUpdate'
  <2> SUFFICES ASSUME NEW s \in Samples
               PROVE  /\ \A i \in DOMAIN history'[s] : history'[s][i].base < task'[s].rev
                      /\ \A i, j \in DOMAIN history'[s] :
                           i < j => history'[s][i].base < history'[s][j].base
    BY DEF NoLostUpdate
  <2>1. task'[s].rev = IF s \in S THEN task[s].rev + 1 ELSE task[s].rev
    <3>1. rev' = [r \in Samples |-> IF r \in S THEN rev[r] + 1 ELSE rev[r]]
      BY <1>2 DEF Ledger!Submit
    <3>2. rev'[s] = IF s \in S THEN rev[s] + 1 ELSE rev[s]
      BY <3>1
    <3> QED BY <3>2
  <2>2. history'[s] = IF s \in S
                      THEN Append(history[s], [user |-> u, base |-> task[s].rev])
                      ELSE history[s]
    BY <1>2 DEF Ledger!Submit
  <2>3. CASE s \notin S
    BY <2>1, <2>2, <2>3 DEF NoLostUpdate
  <2>4. CASE s \in S
    <3> DEFINE h == history[s]
               k == Len(h) + 1
    <3>1. h \in Seq(Submission) /\ k \in Nat /\ DOMAIN h = 1..(k - 1)
      BY <1>t
    <3>2. [user |-> u, base |-> task[s].rev] \in Submission
      BY <1>t DEF Submission
    <3>3. /\ DOMAIN history'[s] = 1..k
          /\ \A i \in 1..(k - 1) : history'[s][i] = h[i]
          /\ history'[s][k] = [user |-> u, base |-> task[s].rev]
      BY <2>2, <2>4, <3>1, <3>2
    <3>4. \A i \in 1..(k - 1) : history'[s][i].base < task[s].rev
      BY <3>1, <3>3 DEF NoLostUpdate
    <3>5. history'[s][k].base = task[s].rev
      BY <3>3
    <3>6. \A i \in 1..k : history'[s][i].base \in Nat
      BY <3>1, <3>3, <3>5, <1>t, <1>b
    <3>7. \A i \in 1..k : history'[s][i].base < task'[s].rev
      BY <3>1, <3>4, <3>5, <3>6, <2>1, <2>4, <1>t
    <3>8. \A i, j \in 1..(k - 1) : i < j => history'[s][i].base < history'[s][j].base
      BY <3>1, <3>3 DEF NoLostUpdate
    <3>9. \A i, j \in 1..k : i < j => history'[s][i].base < history'[s][j].base
      <4> SUFFICES ASSUME NEW i \in 1..k, NEW j \in 1..k, i < j
                   PROVE  history'[s][i].base < history'[s][j].base
        OBVIOUS
      <4>1. CASE j = k
        BY <4>1, <3>1, <3>4, <3>5
      <4>2. CASE j # k
        BY <4>2, <3>1, <3>8
      <4> QED BY <4>1, <4>2
    <3> QED BY <3>3, <3>7, <3>9
  <2> QED BY <2>3, <2>4
<1>3. ASSUME NEW s \in Samples, NEW i \in 1..Len(history[s]), Ledger!Accept(s, i)
      PROVE  NoLostUpdate'
  <2>1. history' = history /\ rev' = rev
    BY <1>3 DEF Ledger!Accept
  <2>2. \A r \in Samples : rev'[r] = rev[r]
    BY <2>1
  <2> QED BY <2>1, <2>2 DEF NoLostUpdate
<1>4. ASSUME UNCHANGED Ledger!ledgerVars PROVE NoLostUpdate'
  <2>1. history' = history /\ rev' = rev
    BY <1>4 DEF Ledger!ledgerVars
  <2>2. \A r \in Samples : rev'[r] = rev[r]
    BY <2>1
  <2> QED BY <2>1, <2>2 DEF NoLostUpdate
<1> QED BY <1>1, <1>2, <1>3, <1>4 DEF Ledger!LedgerNext

\* With no handler cut short, no two submissions of a sample start from the same
\* revision.
THEOREM NoUpdateLost ==
    ASSUME Crashes = FALSE
    PROVE  Spec => []NoLostUpdate
<1>1. Init => NoLostUpdate
  <2> SUFFICES ASSUME Init, NEW s \in Samples PROVE DOMAIN history[s] = {}
    BY DEF NoLostUpdate
  <2>1. history[s] = << >>
    BY DEF Init
  <2> QED BY <2>1
<1>2. TypeOK /\ NoLostUpdate /\ [Next]_vars => NoLostUpdate'
  BY StepLedger, StepNoLostUpdate
<1> QED BY <1>1, <1>2, TypeCorrect, PTL DEF Spec

-----------------------------------------------------------------------------
\* A submitted batch is closed.

\* If the batch is submitted after the step it was before, its assignee has no
\* new draft, and nobody a new lease.
NoneReopened ==
    assignment'.status = "submitted" =>
        /\ assignment' = assignment
        /\ \A s \in Samples :
             draft'[s][assignment.user] # NoDraft => draft[s][assignment.user] # NoDraft
        /\ NoneHandedOut

LEMMA NoneReopenedKeeps ==
    ASSUME SubmittedBatchIsClosed, NoneReopened
    PROVE  SubmittedBatchIsClosed'
<1> SUFFICES ASSUME assignment'.status = "submitted"
             PROVE  /\ \A s \in Samples : draft'[s][assignment'.user] = NoDraft
                    /\ \A l \in Leases : lease'[l].status = "active" =>
                          lease'[l].user # assignment'.user
  BY DEF SubmittedBatchIsClosed, Drafted, ActiveLeases
<1>1. /\ \A s \in Samples : draft[s][assignment.user] = NoDraft
      /\ \A l \in Leases : lease[l].status = "active" => lease[l].user # assignment.user
  BY DEF NoneReopened, SubmittedBatchIsClosed, Drafted, ActiveLeases
<1> QED BY <1>1 DEF NoneReopened, NoneHandedOut

\* What an assignee does to a batch he may edit leaves it unsubmitted, unless he
\* submits it.
LEMMA EditingReopensNone ==
    ASSUME NEW u, EditableBy(u), TypeOK,
           \/ assignment' = assignment
           \/ assignment' = [assignment EXCEPT !.status = "in_progress"]
    PROVE  NoneReopened
BY DEF EditableBy, Editable, NoneReopened, TypeOK, Assignment

LEMMA StepClosed ==
    TypeOK /\ SubmittedBatchIsClosed /\ [Next]_vars => SubmittedBatchIsClosed'
<1> SUFFICES ASSUME TypeOK, SubmittedBatchIsClosed, [Next]_vars
             PROVE  SubmittedBatchIsClosed'
  OBVIOUS
<1>t. lease \in [Leases -> Lease]
  BY DEF TypeOK
<1>l. ASSUME UNCHANGED <<assignment, draft, lease>> PROVE NoneReopened
  BY <1>l DEF NoneReopened, NoneHandedOut
<1>c. ASSUME UNCHANGED <<assignment, draft>>, NEW L, NEW status, status # "active",
             lease' = CloseAll(L, status)
      PROVE  NoneReopened
  BY <1>c, <1>t, CloseAllHandsOutNone DEF NoneReopened
<1>1. ASSUME NEW n \in 1..5, GenerateQueue(n) PROVE NoneReopened
  BY <1>1, <1>l DEF GenerateQueue
<1>2. ASSUME NEW n \in 1..5, ReleaseAssignment(n) PROVE NoneReopened
  BY <1>2 DEF ReleaseAssignment, NoneReopened, TypeOK, Assignment
<1>3. ASSUME NEW n \in 1..5, NEW u \in Users, AssignBatch(u, n) PROVE NoneReopened
  BY <1>3 DEF AssignBatch, Taken, NoneReopened, NoneHandedOut
<1>4. ASSUME NEW n \in 1..5, NEW u \in Users, ReassignBatch(u, n) PROVE NoneReopened
  <2>1. CASE n >= 4
    BY <1>4, <2>1 DEF ReassignBatch, NoneReopened
  <2>2. CASE ~(n >= 4)
    <3>1. /\ UNCHANGED <<assignment, draft>>
          /\ lease' = lease \/ lease' = CloseAll(ActiveLeases, "revoked")
      BY <1>4, <2>2 DEF ReassignBatch, RevokedRows
    <3> QED BY <3>1, <1>l, <1>c
  <2> QED BY <2>1, <2>2
<1>5. ASSUME NEW n \in 1..5, NEW s \in Samples, ObserveLease(s, n) PROVE NoneReopened
  <2>1. /\ UNCHANGED <<assignment, draft>>
        /\ lease' = lease \/ lease' = CloseAll(Due(s), "expired")
    BY <1>5 DEF ObserveLease, Expired, storeVars
  <2> QED BY <2>1, <1>l, <1>c
<1>6. ASSUME NEW n \in 1..5, NEW u \in Users, NEW s \in Samples,
             \/ SaveDraft(u, s, n) \/ SubmitSample(u, s, n)
             \/ \E l \in Leases : AcquireLease(u, s, l, n) \/ ReacquireLease(u, s, l, n)
      PROVE  NoneReopened
  BY <1>6, EditingReopensNone
  DEF SaveDraft, SubmitSample, MayEdit, AcquireLease, ReacquireLease, storeVars
<1>7. ASSUME NEW n \in 1..5, NEW l \in Leases, NEW s \in Samples, Heartbeat(l, s, n)
      PROVE  NoneReopened
  BY <1>7, <1>t, <1>l, LeftHandsOutNone DEF Heartbeat, storeVars, NoneReopened
<1>8. ASSUME NEW n \in 1..5, NEW l \in Leases, NEW s \in Samples,
             ReleaseLease(l, s, n) \/ ForceRelease(l, s, n)
      PROVE  NoneReopened
  <2>1. /\ UNCHANGED <<assignment, draft>>
        /\ lease' = lease \/ lease' = CloseAll({l}, "released")
    BY <1>8 DEF ReleaseLease, ForceRelease, storeVars
  <2> QED BY <2>1, <1>l, <1>c
<1>9. ASSUME NEW n \in 1..5, NEW s \in Samples, NEW i \in 1..Len(history[s]),
             Confirm(s, i, n)
      PROVE  NoneReopened
  BY <1>9, <1>l DEF Confirm
<1>10. ASSUME NEW u \in Users, NEW S \in SUBSET Samples, NEW done \in BOOLEAN,
              NEW pending \in SUBSET S, NEW seen \in SUBSET Samples,
              SaveBatchDraft(u, S, pending, seen, done)
       PROVE  NoneReopened
  BY <1>10, EditingReopensNone DEF SaveBatchDraft
<1>11. ASSUME NEW u \in Users, NEW saved \in SUBSET Drafted(u),
              NEW moved \in SUBSET saved, NEW gone \in SUBSET moved, NEW n \in 0..3,
              SubmitBatch(u, saved, moved, gone, n)
       PROVE  SubmittedBatchIsClosed'
  <2>1. CASE n # 3
    <3>1. EditableBy(u) /\ assignment' = assignment
      BY <1>11, <2>1 DEF SubmitBatch, CloseBatch
    <3> QED BY <3>1, EditingReopensNone, NoneReopenedKeeps
  <2>2. CASE n = 3
    <3> DEFINE mine == {l \in ActiveLeases : lease[l].user = u}
    <3>1. /\ EditableBy(u) /\ gone = Drafted(u)
          /\ lease' = CloseAll(mine, "released")
          /\ assignment' = [assignment EXCEPT !.status = "submitted"]
          /\ draft' = [s \in Samples |->
                         IF s \in gone THEN [draft[s] EXCEPT ![u] = NoDraft] ELSE draft[s]]
      BY <1>11, <2>2 DEF SubmitBatch, CloseBatch
    <3>2. assignment'.user = u
      BY <3>1 DEF EditableBy, TypeOK, Assignment
    <3>3. \A s \in Samples : draft'[s][u] = NoDraft
      BY <3>1 DEF Drafted, TypeOK
    <3>4. \A l \in Leases : lease'[l].status = "active" => lease'[l].user # u
      BY <3>1, <1>t DEF CloseAll, Closed, ActiveLeases, Lease
    <3> QED BY <3>2, <3>3, <3>4 DEF SubmittedBatchIsClosed, Drafted, ActiveLeases
  <2> QED BY <2>1, <2>2
<1>12. ASSUME Tick PROVE NoneReopened
  <2>1. \A m \in Leases :
          lease'[m].status = lease[m].status /\ lease'[m].user = lease[m].user
    BY <1>12, <1>t DEF Tick, Lease
  <2> QED BY <2>1, <1>12 DEF Tick, storeVars, NoneReopened, NoneHandedOut
<1>13. ASSUME Environment \/ UNCHANGED vars \/ \E s \in Samples : Return(s)
       PROVE  NoneReopened
  BY <1>13, <1>l DEF Environment, Return, vars, storeVars
<1> HIDE DEF NoneReopened, SubmittedBatchIsClosed
<1> QED
  BY <1>1, <1>2, <1>3, <1>4, <1>5, <1>6, <1>7, <1>8, <1>9, <1>10, <1>11, <1>12, <1>13,
     NoneReopenedKeeps DEF Next

\* Wherever a handler stops, a batch marked SUBMITTED has no draft of its assignee
\* left and no lease of his to edit under.
THEOREM SubmittedIsClosed == Spec => []SubmittedBatchIsClosed
<1>1. Init => SubmittedBatchIsClosed
  BY DEF Init, SubmittedBatchIsClosed
<1> QED BY <1>1, StepClosed, TypeCorrect, PTL DEF Spec

-----------------------------------------------------------------------------
\* With no handler cut short, a task and its submissions agree.

Over == {"submitted", "completed"}

\* Nothing is submitted, and no task comes to need a submission.
NothingSubmitted ==
    /\ UNCHANGED history
    /\ \A s \in Samples : /\ task'[s].latest = task[s].latest
                          /\ task'[s].status \in Over => task[s].status \in Over

LEMMA NothingSubmittedKeeps ==
    ASSUME TaskTracksHistory, NothingSubmitted
    PROVE  TaskTracksHistory'
BY DEF TaskTracksHistory, NothingSubmitted, Over

\* What happens to a whole table of tasks submits none of them.
LEMMA TasksSubmitNone ==
    ASSUME NEW t \in [Samples -> Task], NEW u, NEW status, status \notin Over,
           NEW s \in Samples
    PROVE  /\ WithTasks(t)[s].latest = t[s].latest
           /\ Reassigned(t, u, status)[s].latest = t[s].latest
           /\ WithTasks(t)[s].status \in Over => t[s].status \in Over
           /\ Reassigned(t, u, status)[s].status \in Over => t[s].status \in Over
BY DEF WithTasks, Reassigned, Task, Over

\* Nor does another status for one of them.
LEMMA StatusSubmitsNone ==
    ASSUME NEW status, NEW s \in Samples, TypeOK, UNCHANGED history,
           task' = [task EXCEPT ![s].status = status],
           status \in Over => task[s].status \in Over
    PROVE  NothingSubmitted
BY DEF NothingSubmitted, TypeOK, Task

LEMMA SubmittedLatest ==
    ASSUME NEW t \in Task, NEW k
    PROVE  Submitted(t, k).latest = k
BY DEF Submitted, Task

\* The samples of S get a submission each, and their tasks say so.
LEMMA SubmittedTracks ==
    ASSUME TypeOK, TaskTracksHistory, NEW S, NEW entry,
           entry \in [Samples -> Submission],
           \A s \in Samples :
             /\ task'[s] = IF s \in S THEN Submitted(task[s], Len(history[s]) + 1)
                           ELSE task[s]
             /\ history'[s] = IF s \in S THEN Append(history[s], entry[s]) ELSE history[s]
    PROVE  TaskTracksHistory'
<1> SUFFICES ASSUME NEW s \in Samples
             PROVE  /\ task'[s].latest = Len(history'[s])
                    /\ task'[s].status \in Over => history'[s] # << >>
  BY DEF TaskTracksHistory, Over
<1>1. CASE s \notin S
  BY <1>1 DEF TaskTracksHistory, Over
<1>2. CASE s \in S
  <2>1. /\ history[s] \in Seq(Submission) /\ entry[s] \in Submission
        /\ task[s] \in Task
    BY DEF TypeOK
  <2>2. /\ task'[s] = Submitted(task[s], Len(history[s]) + 1)
        /\ history'[s] = Append(history[s], entry[s])
    BY <1>2
  <2>3. Len(history'[s]) = Len(history[s]) + 1 /\ history'[s] # << >>
    BY <2>1, <2>2
  <2> QED BY <2>1, <2>2, <2>3, SubmittedLatest
<1> QED BY <1>1, <1>2

LEMMA StepTracks ==
    ASSUME Crashes = FALSE, TypeOK, TaskTracksHistory, [Next]_vars
    PROVE  TaskTracksHistory'
<1>t. task \in [Samples -> Task]
  BY DEF TypeOK
<1>w. \A k \in Nat, n \in Nat : n \in Writes(k) => n = k
  BY DEF Writes
<1>u. ASSUME UNCHANGED <<task, history>> PROVE NothingSubmitted
  BY <1>u DEF NothingSubmitted
<1>1. ASSUME NEW n \in 1..5, GenerateQueue(n) PROVE NothingSubmitted
  BY <1>1, <1>t, TasksSubmitNone DEF GenerateQueue, NothingSubmitted, Over
<1>2. ASSUME NEW n \in 1..5, ReleaseAssignment(n) PROVE NothingSubmitted
  BY <1>2, <1>t, TasksSubmitNone DEF ReleaseAssignment, NothingSubmitted, Over
<1>3. ASSUME NEW n \in 1..5, NEW u \in Users, AssignBatch(u, n) \/ ReassignBatch(u, n)
      PROVE  NothingSubmitted
  <2> DEFINE t == WithTasks(task)
  <2>1. t \in [Samples -> Task]
    BY <1>t, TasksType DEF TaskStatus
  <2>2. UNCHANGED history /\ (task' = t \/ task' = Reassigned(t, u, "assigned"))
    BY <1>3 DEF AssignBatch, ReassignBatch
  <2>3. \A s \in Samples : /\ t[s].latest = task[s].latest
                           /\ t[s].status \in Over => task[s].status \in Over
    BY <1>t, TasksSubmitNone DEF Over
  <2> HIDE DEF t
  <2>4. \A s \in Samples :
          /\ Reassigned(t, u, "assigned")[s].latest = t[s].latest
          /\ Reassigned(t, u, "assigned")[s].status \in Over => t[s].status \in Over
    BY <2>1, TasksSubmitNone DEF Over
  <2> QED BY <2>2, <2>3, <2>4 DEF NothingSubmitted
<1>4. ASSUME NEW n \in 1..5, NEW s \in Samples,
             \/ ObserveLease(s, n)
             \/ \E l \in Leases : Heartbeat(l, s, n) \/ ReleaseLease(l, s, n)
                                    \/ ForceRelease(l, s, n)
             \/ \E u \in Users, l \in Leases : ReacquireLease(u, s, l, n)
      PROVE  NothingSubmitted
  BY <1>4, <1>u
  DEF ObserveLease, Heartbeat, ReleaseLease, ForceRelease, ReacquireLease, storeVars
<1>5. ASSUME NEW n \in 1..5, NEW u \in Users, NEW s \in Samples, NEW l \in Leases,
             AcquireLease(u, s, l, n)
      PROVE  NothingSubmitted
  <2>1. /\ UNCHANGED history
        /\ task' = task \/ task' = [task EXCEPT ![s].status = "in_progress"]
    BY <1>5 DEF AcquireLease
  <2> QED BY <2>1, <1>u, StatusSubmitsNone DEF Over
<1>6. ASSUME NEW n \in 1..5, NEW u \in Users, NEW s \in Samples, SaveDraft(u, s, n)
      PROVE  NothingSubmitted
  <2>1. /\ DraftSaved(task[s]).status = "draft_saved"
        /\ DraftSaved(task[s]).latest = task[s].latest
    BY <1>t DEF DraftSaved, Task
  <2>2. /\ UNCHANGED history
        /\ task' = task \/ task' = [task EXCEPT ![s] = DraftSaved(task[s])]
    BY <1>6, <1>t DEF SaveDraft
  <2> QED BY <2>1, <2>2, <1>t DEF NothingSubmitted, Over
<1>7. ASSUME NEW n \in 1..5, NEW u \in Users, NEW s \in Samples, SubmitSample(u, s, n)
      PROVE  TaskTracksHistory'
  <2> DEFINE entry == [r \in Samples |-> [user |-> u, base |-> task[r].rev]]
  <2>1. n = 3
    BY <1>7, <1>w DEF SubmitSample
  <2>2. /\ task' = [task EXCEPT ![s] = Submitted(@, Len(history[s]) + 1)]
        /\ history' = [history EXCEPT ![s] = Append(@, entry[s])]
    BY <1>7, <2>1 DEF SubmitSample
  <2>3. entry \in [Samples -> Submission]
    BY <1>t DEF Submission, Task
  <2> HIDE DEF entry
  <2>4. \A r \in Samples :
          /\ task'[r] = IF r \in {s} THEN Submitted(task[r], Len(history[r]) + 1) ELSE task[r]
          /\ history'[r] = IF r \in {s} THEN Append(history[r], entry[r]) ELSE history[r]
    BY <2>2 DEF TypeOK
  <2> QED BY <2>3, <2>4, SubmittedTracks
<1>8. ASSUME NEW u \in Users, NEW S \in SUBSET Samples, NEW finished \in BOOLEAN,
             NEW pending \in SUBSET S, NEW seen \in SUBSET Samples,
             SaveBatchDraft(u, S, pending, seen, finished)
      PROVE  NothingSubmitted
  <2>1. \A t \in Task : LET r == [t EXCEPT !.status = "draft_saved"]
                        IN  r.status = "draft_saved" /\ r.latest = t.latest
    BY DEF Task
  <2>2. \A s \in Samples : \/ task'[s] = task[s]
                           \/ task'[s] = [task[s] EXCEPT !.status = "draft_saved"]
    BY <1>8 DEF SaveBatchDraft
  <2>3. UNCHANGED history
    BY <1>8 DEF SaveBatchDraft
  <2> QED BY <2>1, <2>2, <2>3, <1>t DEF NothingSubmitted, Over
<1>9. ASSUME NEW u \in Users, NEW saved \in SUBSET Drafted(u),
             NEW moved \in SUBSET saved, NEW gone \in SUBSET moved, NEW n \in 0..3,
             SubmitBatch(u, saved, moved, gone, n)
      PROVE  TaskTracksHistory'
  <2> DEFINE entry == [s \in Samples |->
                         [user |-> u,
                          base |-> IF s \in saved THEN draft[s][u] ELSE 0]]
  <2>1. saved = Drafted(u) /\ moved = Drafted(u)
    <3>1. n = 3
      BY <1>9 DEF SubmitBatch
    <3>2. gone = Drafted(u)
      BY <1>9, <3>1 DEF SubmitBatch
    <3> QED BY <3>2
  <2>2. entry \in [Samples -> Submission]
    <3>1. \A s \in saved : draft[s][u] \in Nat
      BY <2>1 DEF Drafted, TypeOK
    <3> QED BY <3>1 DEF Submission
  <2>3. \A s \in Samples :
          /\ task'[s] = IF s \in saved THEN Submitted(task[s], Len(history[s]) + 1)
                        ELSE task[s]
          /\ history'[s] = IF s \in saved THEN Append(history[s], entry[s]) ELSE history[s]
    BY <1>9, <2>1 DEF SubmitBatch
  <2> HIDE DEF entry
  <2> QED BY <2>2, <2>3, SubmittedTracks
<1>10. ASSUME NEW n \in 1..5, NEW s \in Samples, NEW i \in 1..Len(history[s]),
              Confirm(s, i, n)
       PROVE  NothingSubmitted
  <2>1. /\ UNCHANGED history /\ task[s].status = "submitted"
        /\ task' = task \/ task' = [task EXCEPT ![s].status = "completed"]
    BY <1>10 DEF Confirm
  <2> QED BY <2>1, <1>u, StatusSubmitsNone DEF Over
<1>11. ASSUME NEW s \in Samples, Return(s) PROVE NothingSubmitted
  <2>1. UNCHANGED history /\ task' = [task EXCEPT ![s].status = "returned"]
    BY <1>11 DEF Return
  <2> QED BY <2>1, StatusSubmitsNone DEF Over
<1>12. ASSUME Tick \/ Environment \/ UNCHANGED vars PROVE NothingSubmitted
  BY <1>12, <1>u DEF Tick, Environment, vars, storeVars
<1> HIDE DEF NothingSubmitted, TaskTracksHistory
<1> QED
  BY <1>1, <1>2, <1>3, <1>4, <1>5, <1>6, <1>7, <1>8, <1>9, <1>10, <1>11, <1>12,
     NothingSubmittedKeeps DEF Next

\* With no handler cut short, a task names its newest submission, and has one when
\* it is SUBMITTED or COMPLETED.
THEOREM TracksHistory ==
    ASSUME Crashes = FALSE
    PROVE  Spec => []TaskTracksHistory
<1>1. Init => TaskTracksHistory
  <2> SUFFICES ASSUME Init PROVE TaskTracksHistory
    OBVIOUS
  <2>1. \A s \in Samples : /\ history[s] = << >>
                           /\ task[s].latest = 0 /\ task[s].status = "none"
    BY DEF Init
  <2>2. Len(<< >>) = 0
    OBVIOUS
  <2> QED BY <2>1, <2>2 DEF TaskTracksHistory
<1>2. TypeOK /\ TaskTracksHistory /\ [Next]_vars => TaskTracksHistory'
  BY StepTracks
<1> QED BY <1>1, <1>2, TypeCorrect, PTL DEF Spec

-----------------------------------------------------------------------------
\* With no handler cut short, the tasks follow the assignment.

\* The property, with what makes it inductive: samples without a task have no
\* assignee either, and a batch is taken only once all its tasks exist.
Follows ==
    /\ \A s \in Samples :
         task[s].assignee = IF assignment.status \in Taken THEN assignment.user ELSE NoUser
    /\ assignment.status \in Taken => \A s \in Samples : HasTask(s)

\* Nobody takes or gives up the batch, and nobody is given or loses a task.
SameHands ==
    /\ assignment'.user = assignment.user
    /\ assignment'.status \in Taken <=> assignment.status \in Taken
    /\ \A s \in Samples : /\ task'[s].assignee = task[s].assignee
                          /\ HasTask(s) => task'[s].status # "none"

LEMMA SameHandsKeeps ==
    ASSUME Follows, SameHands
    PROVE  Follows'
BY DEF Follows, SameHands, HasTask

\* Everybody's task is handed to u.
LEMMA HandedOver ==
    ASSUME NEW t \in [Samples -> Task], NEW u \in Users \cup {NoUser}, NEW status,
           status # "none", NEW s \in Samples
    PROVE  /\ Reassigned(t, u, status)[s].assignee
                = IF t[s].status = "none" THEN NoUser ELSE u
           /\ Reassigned(t, u, status)[s].status # "none" <=> t[s].status # "none"
           /\ WithTasks(t)[s].status # "none"
           /\ WithTasks(t)[s].assignee = t[s].assignee
BY DEF Reassigned, WithTasks, Task

\* A task that changes its status and nothing else stays where it is.
LEMMA SameAssignee ==
    ASSUME NEW t \in Task, NEW status, status # "none"
    PROVE  /\ [t EXCEPT !.status = status].assignee = t.assignee
           /\ [t EXCEPT !.status = status].status # "none"
BY DEF Task

\* So does one that is worked on.
LEMMA WorkKeepsAssignee ==
    ASSUME NEW t \in Task
    PROVE  /\ DraftSaved(t).assignee = t.assignee /\ DraftSaved(t).status # "none"
           /\ \A k : Submitted(t, k).assignee = t.assignee /\ Submitted(t, k).status # "none"
BY DEF DraftSaved, Submitted, Task

LEMMA StepFollows ==
    ASSUME Crashes = FALSE, TypeOK, Follows, [Next]_vars
    PROVE  Follows'
<1>t. task \in [Samples -> Task]
  BY DEF TypeOK
<1>w. \A k \in Nat, n \in Nat : n \in Writes(k) => n = k
  BY DEF Writes
<1>u. ASSUME UNCHANGED <<assignment, task>> PROVE SameHands
  BY <1>u DEF SameHands, HasTask
\* One task changes its status.
<1>s. ASSUME NEW s \in Samples, NEW status, status # "none", UNCHANGED assignment,
             task' = [task EXCEPT ![s].status = status]
      PROVE  SameHands
  <2>1. \A r \in Samples : task'[r] = IF r = s THEN [task[r] EXCEPT !.status = status]
                                      ELSE task[r]
    BY <1>s, <1>t
  <2>2. \A r \in Samples : /\ task'[r].assignee = task[r].assignee
                           /\ task[r].status # "none" => task'[r].status # "none"
    BY <1>s, <1>t, <2>1, SameAssignee
  <2> QED BY <1>s, <2>2 DEF SameHands, HasTask
<1>1. ASSUME NEW n \in 1..5, GenerateQueue(n) PROVE SameHands
  <2>1. UNCHANGED assignment /\ (task' = task \/ task' = WithTasks(task))
    BY <1>1 DEF GenerateQueue
  <2>2. \A s \in Samples : /\ WithTasks(task)[s].assignee = task[s].assignee
                           /\ WithTasks(task)[s].status # "none"
    BY <1>t DEF WithTasks, Task
  <2> QED BY <2>1, <2>2, <1>u DEF SameHands
<1>2. ASSUME NEW n \in 1..5, ReleaseAssignment(n) PROVE Follows'
  <2>1. n = 4
    BY <1>2, <1>w DEF ReleaseAssignment
  <2>2. /\ task' = Reassigned(task, NoUser, "queued")
        /\ assignment'.status = "revoked"
    BY <1>2, <2>1 DEF ReleaseAssignment, TypeOK, Assignment
  <2>3. \A s \in Samples : task'[s].assignee = NoUser
    BY <2>2, <1>t, HandedOver
  <2> QED BY <2>2, <2>3 DEF Follows, Taken
<1>3. ASSUME NEW n \in 1..5, NEW u \in Users, AssignBatch(u, n) \/ ReassignBatch(u, n)
      PROVE  Follows'
  <2> DEFINE t == WithTasks(task)
  <2>1. t \in [Samples -> Task] /\ \A s \in Samples : t[s].status # "none"
    BY <1>t, TasksType, HandedOver DEF TaskStatus
  <2>2. /\ task' = Reassigned(t, u, "assigned")
        /\ assignment' = [status |-> "assigned", user |-> u]
    BY <1>3, <1>w DEF AssignBatch, ReassignBatch
  <2> HIDE DEF t
  <2>3. \A s \in Samples : task'[s].assignee = u /\ task'[s].status # "none"
    BY <2>1, <2>2, HandedOver
  <2> QED BY <2>2, <2>3 DEF Follows, Taken, HasTask
<1>4. ASSUME NEW n \in 1..5, NEW s \in Samples,
             \/ ObserveLease(s, n)
             \/ \E l \in Leases : Heartbeat(l, s, n) \/ ReleaseLease(l, s, n)
                                    \/ ForceRelease(l, s, n)
             \/ \E u \in Users, l \in Leases : ReacquireLease(u, s, l, n)
      PROVE  SameHands
  BY <1>4, <1>u
  DEF ObserveLease, Heartbeat, ReleaseLease, ForceRelease, ReacquireLease, storeVars
<1>5. ASSUME NEW n \in 1..5, NEW u \in Users, NEW s \in Samples, NEW l \in Leases,
             AcquireLease(u, s, l, n)
      PROVE  SameHands
  <2>1. /\ UNCHANGED assignment
        /\ task' = task \/ task' = [task EXCEPT ![s].status = "in_progress"]
    BY <1>5 DEF AcquireLease
  <2> QED BY <2>1, <1>u, <1>s
<1>6. ASSUME NEW n \in 1..5, NEW u \in Users, NEW s \in Samples,
             SaveDraft(u, s, n) \/ SubmitSample(u, s, n)
      PROVE  SameHands
  <2>1. /\ UNCHANGED assignment
        /\ \A r \in Samples : \/ task'[r] = task[r]
                              \/ task'[r] = DraftSaved(task[r])
                              \/ task'[r] = Submitted(task[r], Len(history[s]) + 1)
    BY <1>6, <1>t DEF SaveDraft, SubmitSample
  <2>2. \A r \in Samples : /\ task'[r].assignee = task[r].assignee
                           /\ task[r].status # "none" => task'[r].status # "none"
    BY <2>1, <1>t, WorkKeepsAssignee
  <2> QED BY <2>1, <2>2 DEF SameHands, HasTask
<1>7. ASSUME NEW u \in Users, NEW S \in SUBSET Samples, NEW finished \in BOOLEAN,
             NEW pending \in SUBSET S, NEW seen \in SUBSET Samples,
             SaveBatchDraft(u, S, pending, seen, finished)
      PROVE  SameHands
  <2>1. \A s \in Samples : \/ task'[s] = task[s]
                           \/ task'[s] = [task[s] EXCEPT !.status = "draft_saved"]
    BY <1>7 DEF SaveBatchDraft
  <2>2. \A r \in Samples : /\ task'[r].assignee = task[r].assignee
                           /\ task[r].status # "none" => task'[r].status # "none"
    <3>1. \A t \in Task : /\ [t EXCEPT !.status = "draft_saved"].assignee = t.assignee
                          /\ [t EXCEPT !.status = "draft_saved"].status # "none"
      BY SameAssignee
    <3> QED BY <2>1, <3>1, <1>t
  <2>3. /\ assignment'.user = assignment.user
        /\ assignment'.status \in Taken /\ assignment.status \in Taken
    BY <1>7 DEF SaveBatchDraft, EditableBy, Editable, Taken, TypeOK, Assignment
  <2> QED BY <2>2, <2>3 DEF SameHands, HasTask
<1>8. ASSUME NEW u \in Users, NEW saved \in SUBSET Drafted(u),
             NEW moved \in SUBSET saved, NEW gone \in SUBSET moved, NEW n \in 0..3,
             SubmitBatch(u, saved, moved, gone, n)
      PROVE  SameHands
  <2>1. \A s \in Samples : \/ task'[s] = task[s]
                           \/ task'[s] = Submitted(task[s], Len(history[s]) + 1)
    BY <1>8 DEF SubmitBatch
  <2>2. \A r \in Samples : /\ task'[r].assignee = task[r].assignee
                           /\ task[r].status # "none" => task'[r].status # "none"
    BY <2>1, <1>t, WorkKeepsAssignee
  <2>3. /\ assignment'.user = assignment.user
        /\ assignment'.status \in Taken /\ assignment.status \in Taken
    BY <1>8 DEF SubmitBatch, CloseBatch, EditableBy, Editable, Taken, TypeOK, Assignment
  <2> QED BY <2>2, <2>3 DEF SameHands, HasTask
<1>9. ASSUME NEW n \in 1..5, NEW s \in Samples, NEW i \in 1..Len(history[s]),
             Confirm(s, i, n)
      PROVE  SameHands
  <2>1. /\ UNCHANGED assignment
        /\ task' = task \/ task' = [task EXCEPT ![s].status = "completed"]
    BY <1>9 DEF Confirm
  <2> QED BY <2>1, <1>u, <1>s
<1>10. ASSUME NEW s \in Samples, Return(s) PROVE SameHands
  <2>1. UNCHANGED assignment /\ task' = [task EXCEPT ![s].status = "returned"]
    BY <1>10 DEF Return
  <2> QED BY <2>1, <1>s
<1>11. ASSUME Tick \/ Environment \/ UNCHANGED vars PROVE SameHands
  BY <1>11, <1>u DEF Tick, Environment, vars, storeVars
<1> HIDE DEF SameHands, Follows
<1> QED
  BY <1>1, <1>2, <1>3, <1>4, <1>5, <1>6, <1>7, <1>8, <1>9, <1>10, <1>11,
     SameHandsKeeps DEF Next

\* With no handler cut short, while the batch is taken every task has its assignee,
\* and otherwise none has one.
THEOREM TasksFollow ==
    ASSUME Crashes = FALSE
    PROVE  Spec => []TasksFollowAssignment
<1>1. Init => Follows
  BY DEF Init, Follows, Taken
<1>2. TypeOK /\ Follows /\ [Next]_vars => Follows'
  BY StepFollows
<1>3. Follows => TasksFollowAssignment
  BY DEF Follows, TasksFollowAssignment
<1> QED BY <1>1, <1>2, <1>3, TypeCorrect, PTL DEF Spec
=============================================================================
