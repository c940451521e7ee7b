----------------------------- MODULE QcWorkflow -----------------------------
(***************************************************************************)
(* The annotation workflow of one concrete batch, as service.py runs it:   *)
(* queue generation, batch assignment, sample leases, drafts, submissions, *)
(* and the lead's confirm / return.                                        *)
(*                                                                         *)
(* One process serves all requests and no handler awaits, so a handler is  *)
(* one atomic action.  It writes to the store several times, though, and a *)
(* store call is its own transaction: the parameter n of an action is the  *)
(* number of its writes that reached the store, fewer than all of them     *)
(* when the process died or a store call failed (only if Crashes).         *)
(*                                                                         *)
(* Left out: audit events, timestamps and the in-memory edit list, which   *)
(* no handler that changes this state reads; the batch-draft manifest,     *)
(* which only the summary responses read; label operations and their       *)
(* validation (an edit is legal or its request changes nothing).  The keys *)
(* a handler deletes in a loop go together.                                *)
(***************************************************************************)
EXTENDS LeaseLock, Integers, Sequences, FiniteSets

CONSTANTS
    Users,        \* the active users who may be given the batch
    NoUser,
    NoSample,
    Blank,        \* samples whose submitted edits leave the payload unchanged
    LeaseTtl,     \* life of a lease row, in ticks (10 minutes in the code)
    MaxRevision,  \* bound on task_revision
    MaxSubmissions, \* bound on the submissions of a sample
    Crashes       \* may a handler stop between two of its writes?

ASSUME QcWorkflowAssumption ==
    /\ NoUser \notin Users
    /\ NoSample \notin Samples
    /\ Blank \subseteq Samples
    /\ LeaseTtl \in Nat \ {0}
    /\ MaxRevision \in Nat
    /\ MaxSubmissions \in Nat
    /\ Crashes \in BOOLEAN

VARIABLES
    queued,       \* qc_queue_id is set on the registered batch
    assignment,   \* the batch's assignment row
    task,         \* task[s]: the QC task of sample s
    lease,        \* lease[l]: the lease row of id l
    draft,        \* draft[s][u]: base revision of u's draft of s, or NoDraft
    history,      \* history[s]: the submissions of s, oldest first
    snapshots,    \* snapshots[s]: submissions with a confirmed snapshot
    events,       \* events[s]: submissions whose modification events are stored
    pool          \* pool[s]: submissions with an ACTIVE sample pool item

storeVars == <<queued, assignment, task, draft, history>>
loopVars == <<snapshots, events, pool>>
vars == <<lockVars, lease, storeVars, loopVars>>

AssignmentStatus ==
    {"none", "assigned", "in_progress", "submitted", "returned", "revoked"}
TaskStatus ==
    {"none", "queued", "assigned", "in_progress", "draft_saved", "submitted",
     "returned", "completed"}
LeaseStatus == {"unused", "active", "released", "expired", "revoked"}

NoDraft == -1

Assignment == [status : AssignmentStatus, user : Users \cup {NoUser}]
Task == [status : TaskStatus, assignee : Users \cup {NoUser},
         rev : Nat, latest : Nat]
Lease == [status : LeaseStatus, sample : Samples \cup {NoSample},
          user : Users \cup {NoUser}, left : 0..LeaseTtl]
Submission == [user : Users, base : Nat]

\* How many of a handler's k writes reach the store.
Writes(k) == IF Crashes THEN 1..k ELSE {k}

-----------------------------------------------------------------------------
\* Assignment and tasks.

\* The statuses that make a batch taken, and those that let it be edited.
Taken == {"assigned", "in_progress", "submitted", "returned"}
Editable == {"assigned", "in_progress", "returned"}

\* _require_assigned_batch_for_user(require_editable=True)
EditableBy(u) == assignment.user = u /\ assignment.status \in Editable

HasTask(s) == task[s].status # "none"

\* _ensure_qc_tasks_for_dataset: create the missing tasks.
WithTasks(t) ==
    [s \in Samples |->
        IF t[s].status = "none" THEN [t[s] EXCEPT !.status = "queued"] ELSE t[s]]

\* Mutant: completed tasks are skipped altogether.
ReassignedButCompleted(t, u, status) ==
    [s \in Samples |->
        IF t[s].status \in {"completed", "none"} THEN t[s]
        ELSE [t[s] EXCEPT !.assignee = u, !.status = status]]

\* Every task is handed to u; completed ones keep their status.
Reassigned(t, u, status) ==
    [s \in Samples |->
        [t[s] EXCEPT
            !.assignee = IF t[s].status = "none" THEN NoUser ELSE u,
            !.status = IF @ \in {"completed", "none"} THEN @ ELSE status]]

-----------------------------------------------------------------------------
\* Lease rows.

\* A row that leaves ACTIVE; its expires_at no longer matters.
Closed(r, status) == [r EXCEPT !.status = status, !.left = 0]

ActiveOn(s) == {l \in Leases : lease[l].status = "active" /\ lease[l].sample = s}

\* expires_at <= now
Due(s) == {l \in ActiveOn(s) : lease[l].left = 0}
Current(s) == ActiveOn(s) \ Due(s)

\* Mutant: a heartbeat no longer looks at the row's status and expiry.
LiveWhateverStatus(l) == lease[l].status # "unused"

\* status == ACTIVE and expires_at > now, as heartbeat_sample_lease asks.
Live(l) == lease[l].status = "active" /\ lease[l].left > 0

CloseAll(L, status) ==
    [l \in Leases |-> IF l \in L THEN Closed(lease[l], status) ELSE lease[l]]

ActiveLeases == {l \in Leases : lease[l].status = "active"}
SamplesOf(L) == {lease[l].sample : l \in L}

\* Mutant: the revoked rows are built but not saved.
NoRowsRevoked == lease

\* The rows _revoke_all_active_leases saves.
RevokedRows == CloseAll(ActiveLeases, "revoked")

\* Mutant: the expired rows are not saved.
NotExpired(s) == lease

\* _active_lease_for_sample: due rows are expired and the sample's key deleted.
Expired(s) == CloseAll(Due(s), "expired")
KeysAfterExpiry(s) == IF Due(s) = {} THEN lock ELSE Freed(lock, {s})

-----------------------------------------------------------------------------
Init ==
    /\ LockInit
    /\ queued = FALSE
    /\ assignment = [status |-> "none", user |-> NoUser]
    /\ task = [s \in Samples |->
                 [status |-> "none", assignee |-> NoUser, rev |-> 0, latest |-> 0]]
    /\ lease = [l \in Leases |->
                 [status |-> "unused", sample |-> NoSample, user |-> NoUser, left |-> 0]]
    /\ draft = [s \in Samples |-> [u \in Users |-> NoDraft]]
    /\ history = [s \in Samples |-> << >>]
    /\ snapshots = [s \in Samples |-> {}]
    /\ events = [s \in Samples |-> {}]
    /\ pool = [s \in Samples |-> {}]

-----------------------------------------------------------------------------
\* The queue and the assignment (managers).

\* generate_qc_queue on a batch that is ingested and has an active label
\* config: the queue id is persisted, then the missing tasks are created.
GenerateQueue(n) ==
    /\ n \in Writes(2)
    /\ queued' = TRUE
    /\ task' = IF n = 2 THEN WithTasks(task) ELSE task
    /\ UNCHANGED <<lockVars, lease, assignment, draft, history, loopVars>>

\* assign_batch on a batch nobody holds.
AssignBatch(u, n) ==
    /\ n \in Writes(3)
    /\ queued
    /\ assignment.status \notin Taken
    /\ assignment' = IF n >= 2 THEN [status |-> "assigned", user |-> u] ELSE assignment
    /\ task' = IF n = 3 THEN Reassigned(WithTasks(task), u, "assigned")
                        ELSE WithTasks(task)
    /\ UNCHANGED <<lockVars, lease, queued, draft, history, loopVars>>

\* assign_batch(allow_reassign=True) on a batch somebody holds: first every
\* active lease is revoked (key deleted, then the rows saved).
ReassignBatch(u, n) ==
    /\ n \in Writes(5)
    /\ queued
    /\ assignment.status \in Taken
    /\ lock' = IF n >= 2 THEN Freed(lock, SamplesOf(ActiveLeases)) ELSE lock
    /\ lease' = IF n >= 3 THEN RevokedRows ELSE lease
    /\ assignment' = IF n >= 4 THEN [status |-> "assigned", user |-> u] ELSE assignment
    /\ task' = IF n = 5 THEN Reassigned(WithTasks(task), u, "assigned")
                        ELSE WithTasks(task)
    /\ UNCHANGED <<redisUp, queued, draft, history, loopVars>>

\* release_batch_assignment, whatever the status of the row: here the leases
\* are revoked last.
ReleaseAssignment(n) ==
    /\ n \in Writes(4)
    /\ assignment.status # "none"
    /\ assignment' = [assignment EXCEPT !.status = "revoked"]
    /\ task' = IF n >= 2 THEN Reassigned(task, NoUser, "queued") ELSE task
    /\ lock' = IF n >= 3 THEN Freed(lock, SamplesOf(ActiveLeases)) ELSE lock
    /\ lease' = IF n = 4 THEN RevokedRows ELSE lease
    /\ UNCHANGED <<redisUp, queued, draft, history, loopVars>>

-----------------------------------------------------------------------------
\* Sample leases (annotators).

\* Any request that looks the sample's lease up, and goes no further.
ObserveLease(s, n) ==
    /\ n \in Writes(2)
    /\ Due(s) # {}
    /\ lock' = KeysAfterExpiry(s)
    /\ lease' = IF n = 2 THEN Expired(s) ELSE lease
    /\ UNCHANGED <<redisUp, storeVars, loopVars>>

\* acquire_sample_lease, nobody holding the sample.  A crash after SET NX
\* leaves a key whose lease id no row has.
AcquireLease(u, s, l, n) ==
    /\ n \in Writes(3)
    /\ EditableBy(u) /\ HasTask(s)
    /\ Current(s) = {}
    /\ CanAcquire(KeysAfterExpiry(s), s)
    /\ lease[l].status = "unused"
    /\ lock' = Held(KeysAfterExpiry(s), s, IF n = 1 THEN Orphan ELSE l)
    /\ lease' = IF n = 1 THEN Expired(s)
                ELSE [Expired(s) EXCEPT ![l] =
                        [status |-> "active", sample |-> s, user |-> u, left |-> LeaseTtl]]
    /\ task' = IF n = 3 THEN [task EXCEPT ![s].status = "in_progress"] ELSE task
    /\ UNCHANGED <<redisUp, queued, assignment, draft, history, loopVars>>

\* acquire_sample_lease by the user who holds it already: the key is refreshed
\* or, when it was lost, set again; then the row is extended.
ReacquireLease(u, s, l, n) ==
    /\ n \in Writes(2)
    /\ EditableBy(u) /\ HasTask(s)
    /\ l \in Current(s) /\ lease[l].user = u
    /\ HeldBy(lock, s, l) \/ CanAcquire(lock, s)
    /\ lock' = Held(lock, s, l)
    /\ lease' = IF n = 2 THEN [lease EXCEPT ![l].left = LeaseTtl] ELSE lease
    /\ UNCHANGED <<redisUp, storeVars, loopVars>>

\* heartbeat_sample_lease by the owner.  The row is found by its id alone; the
\* key is the one of the sample s the request names.
Heartbeat(l, s, n) ==
    /\ n \in Writes(2)
    /\ Live(l)
    /\ HeldBy(lock, s, l)
    /\ lock' = Held(lock, s, l)
    /\ lease' = IF n = 2 THEN [lease EXCEPT ![l].left = LeaseTtl] ELSE lease
    /\ UNCHANGED <<redisUp, storeVars, loopVars>>

\* release_sample_lease by the owner, whatever the status of the row: it
\* succeeds only if the key still carries the lease.
ReleaseLease(l, s, n) ==
    /\ n \in Writes(2)
    /\ lease[l].status # "unused"
    /\ HeldBy(lock, s, l)
    /\ lock' = Freed(lock, {s})
    /\ lease' = IF n = 2 THEN CloseAll({l}, "released") ELSE lease
    /\ UNCHANGED <<redisUp, storeVars, loopVars>>

\* release_sample_lease by another user holding lease:force_release: the key of
\* sample s goes, whichever lease it carries.
ForceRelease(l, s, n) ==
    /\ n \in Writes(2)
    /\ lease[l].status # "unused"
    /\ lock' = Freed(lock, {s})
    /\ lease' = IF n = 2 THEN CloseAll({l}, "released") ELSE lease
    /\ UNCHANGED <<redisUp, storeVars, loopVars>>
-----------------------------------------------------------------------------
\* Drafts and submissions (annotators).

\* The checks both sample-level label-edit requests pass: an editable batch, the
\* user's own unexpired lease, a base revision that is the task's.
MayEdit(u, s) ==
    /\ EditableBy(u) /\ HasTask(s)
    /\ \E l \in Current(s) : lease[l].user = u
    /\ task[s].rev < MaxRevision

\* The task of a sample whose draft has just been saved on its own.
DraftSaved(t) == [t EXCEPT !.status = "draft_saved", !.rev = @ + 1]

\* submit_label_edits, save_draft: the draft keeps the revision it was based
\* on while the task moves to the next one.
SaveDraft(u, s, n) ==
    /\ n \in Writes(2)
    /\ MayEdit(u, s)
    /\ draft' = [draft EXCEPT ![s][u] = task[s].rev]
    /\ task' = IF n = 1 THEN task
               ELSE [task EXCEPT ![s] = DraftSaved(@)]
    /\ UNCHANGED <<lockVars, lease, queued, assignment, history, loopVars>>

\* Mutants: latest_submission_id is not updated; task_revision is not.
SubmittedNotLatest(t, k) == [t EXCEPT !.status = "submitted", !.rev = @ + 1]
SubmittedSameRevision(t, k) == [t EXCEPT !.status = "submitted", !.latest = k]

\* The task of a sample whose k-th submission has just been stored.
Submitted(t, k) ==
    [t EXCEPT !.status = "submitted", !.rev = @ + 1, !.latest = k]

\* submit_label_edits, submit_changes: the row of the lease is released, its
\* Redis key is not; a draft the user has is kept.
SubmitSample(u, s, n) ==
    /\ n \in Writes(3)
    /\ MayEdit(u, s)
    /\ Len(history[s]) < MaxSubmissions
    /\ history' = [history EXCEPT
                     ![s] = Append(@, [user |-> u, base |-> task[s].rev])]
    /\ task' = IF n = 1 THEN task
               ELSE [task EXCEPT ![s] = Submitted(@, Len(history[s]) + 1)]
    /\ lease' = IF n = 3 THEN CloseAll(Current(s), "released") ELSE lease
    /\ UNCHANGED <<lockVars, queued, assignment, draft, loopVars>>

\* save_my_batch_draft.  The entries are stored one by one; a refused entry
\* (done = FALSE) leaves the earlier ones, S, stored and nothing after them.
\* An entry need not name a lease; the lookup for a refused one that does
\* (sample in seen) may have expired it.  A crash may come between the draft
\* and the task of the entry being stored, pending.
SaveBatchDraft(u, S, pending, seen, done) ==
    /\ EditableBy(u)
    /\ \A s \in S : HasTask(s)
    /\ pending \subseteq S /\ Cardinality(pending) <= (IF Crashes THEN 1 ELSE 0)
    /\ Cardinality(seen) <= 1
    /\ done => pending = {} /\ seen = {}
    /\ draft' = [s \in Samples |->
                   IF s \in S THEN [draft[s] EXCEPT ![u] = task[s].rev] ELSE draft[s]]
    /\ task' = [s \in Samples |->
                  IF s \in S \ pending
                     /\ task[s].status \in {"assigned", "in_progress", "returned", "queued"}
                  THEN [task[s] EXCEPT !.status = "draft_saved"] ELSE task[s]]
    /\ assignment' =
         IF done /\ assignment.status \in {"assigned", "returned"}
         THEN [assignment EXCEPT !.status = "in_progress"] ELSE assignment
    /\ lease' = CloseAll(UNION {Due(s) : s \in seen}, "expired")
    /\ lock' = Freed(lock, {s \in seen : Due(s) # {}})
    /\ UNCHANGED <<redisUp, queued, history, loopVars>>

Drafted(u) == {s \in Samples : draft[s][u] # NoDraft}

\* Mutant: the base revision of a draft is not compared.
ReadyWithoutBase(u, s) == HasTask(s) /\ task[s].assignee = u

\* What submit_label_edit_batch asks of every draft before it stores anything.
Ready(u, s) ==
    /\ HasTask(s)
    /\ task[s].assignee = u
    /\ draft[s][u] = task[s].rev

\* Mutant: the assignment is saved before the leases are given back.
CloseBatchFirst(u, n) ==
    LET mine == {l \in ActiveLeases : lease[l].user = u}
    IN  /\ assignment' = IF n >= 1 THEN [assignment EXCEPT !.status = "submitted"] ELSE assignment
        /\ lock' = IF n >= 2 THEN Freed(lock, SamplesOf(mine)) ELSE lock
        /\ lease' = IF n = 3 THEN CloseAll(mine, "released") ELSE lease

\* _release_user_active_leases (keys, then rows), then the assignment: the
\* first n of the three.
CloseBatch(u, n) ==
    LET mine == {l \in ActiveLeases : lease[l].user = u}
    IN  /\ lock' = IF n >= 1 THEN Freed(lock, SamplesOf(mine)) ELSE lock
        /\ lease' = IF n >= 2 THEN CloseAll(mine, "released") ELSE lease
        /\ assignment' = IF n = 3 THEN [assignment EXCEPT !.status = "submitted"] ELSE assignment

\* submit_label_edit_batch.  Each draft in turn: the submission is stored (its
\* sample joins saved), the task is (moved), the draft is deleted (gone); the
\* batch is closed after the last.
SubmitBatch(u, saved, moved, gone, n) ==
    /\ EditableBy(u)
    /\ \A s \in Drafted(u) :
         /\ Ready(u, s)
         /\ task[s].rev < MaxRevision
         /\ Len(history[s]) < MaxSubmissions
    /\ gone \subseteq moved /\ moved \subseteq saved /\ saved \subseteq Drafted(u)
    /\ Cardinality(saved \ gone) <= 1
    /\ n > 0 => gone = Drafted(u)
    /\ ~Crashes => n = 3
    /\ history' = [s \in Samples |->
                     IF s \in saved
                     THEN Append(history[s], [user |-> u, base |-> draft[s][u]])
                     ELSE history[s]]
    /\ task' = [s \in Samples |->
                  IF s \in moved THEN Submitted(task[s], Len(history[s]) + 1) ELSE task[s]]
    /\ draft' = [s \in Samples |->
                   IF s \in gone THEN [draft[s] EXCEPT ![u] = NoDraft] ELSE draft[s]]
    /\ CloseBatch(u, n)
    /\ UNCHANGED <<redisUp, queued, loopVars>>

-----------------------------------------------------------------------------
\* Review (qc_lead).

\* Mutant: the task is completed before the closed-loop rows are stored.
ConfirmTaskFirst(s, i, n) ==
    /\ n \in Writes(4)
    /\ i \in 1..Len(history[s])
    /\ task[s].status = "submitted"
    /\ task' = [task EXCEPT ![s].status = "completed"]
    /\ snapshots' = IF n >= 2 THEN [snapshots EXCEPT ![s] = @ \cup {i}] ELSE snapshots
    /\ events' = IF n >= 3 /\ s \notin Blank
                 THEN [events EXCEPT ![s] = @ \cup {i}] ELSE events
    /\ pool' = IF n = 4 /\ s \notin Blank
               THEN [pool EXCEPT ![s] = @ \cup {i}] ELSE pool
    /\ UNCHANGED <<lockVars, lease, queued, assignment, draft, history>>

\* confirm_submission: any submission of the sample, while its task is
\* submitted.  The closed-loop rows come first, keyed by the submission
\* (an event also by the lead, whom this model leaves out), so that the same
\* lead's second attempt adds nothing.  Edits that change nothing produce neither
\* events nor a pool item.
Confirm(s, i, n) ==
    /\ n \in Writes(4)
    /\ i \in 1..Len(history[s])
    /\ task[s].status = "submitted"
    /\ snapshots' = [snapshots EXCEPT ![s] = @ \cup {i}]
    /\ events' = IF n >= 2 /\ s \notin Blank
                 THEN [events EXCEPT ![s] = @ \cup {i}] ELSE events
    /\ pool' = IF n >= 3 /\ s \notin Blank
               THEN [pool EXCEPT ![s] = @ \cup {i}] ELSE pool
    /\ task' = IF n = 4 THEN [task EXCEPT ![s].status = "completed"] ELSE task
    /\ UNCHANGED <<lockVars, lease, queued, assignment, draft, history>>

\* return_submission: the task alone changes; the batch stays submitted and
\* what a confirmation stored stays stored.
Return(s) ==
    /\ history[s] # << >>
    /\ task[s].status \in {"submitted", "completed"}
    /\ task' = [task EXCEPT ![s].status = "returned"]
    /\ UNCHANGED <<lockVars, lease, queued, assignment, draft, history, loopVars>>

-----------------------------------------------------------------------------
\* Time passes for the lease rows and for the Redis keys alike.
Tick ==
    /\ \/ \E l \in ActiveLeases : lease[l].left > 0
       \/ \E s \in Samples : lock[s].holder # NoLease
    /\ lease' = [l \in Leases |->
                   IF lease[l].left > 0 THEN [lease[l] EXCEPT !.left = @ - 1] ELSE lease[l]]
    /\ lock' = Aged(lock)
    /\ UNCHANGED <<redisUp, storeVars, loopVars>>

Environment ==
    /\ RedisLoss \/ RedisOutage
    /\ UNCHANGED <<lease, storeVars, loopVars>>

Next ==
    \/ \E n \in 1..5 :
         \/ GenerateQueue(n)
         \/ ReleaseAssignment(n)
         \/ \E u \in Users : AssignBatch(u, n) \/ ReassignBatch(u, n)
         \/ \E s \in Samples : ObserveLease(s, n)
         \/ \E u \in Users, s \in Samples : SaveDraft(u, s, n) \/ SubmitSample(u, s, n)
         \/ \E u \in Users, s \in Samples, l \in Leases :
              AcquireLease(u, s, l, n) \/ ReacquireLease(u, s, l, n)
         \/ \E l \in Leases, s \in Samples :
              Heartbeat(l, s, n) \/ ReleaseLease(l, s, n) \/ ForceRelease(l, s, n)
         \/ \E s \in Samples : \E i \in 1..Len(history[s]) : Confirm(s, i, n)
    \/ \E u \in Users, S \in SUBSET Samples, done \in BOOLEAN :
         \E pending \in SUBSET S, seen \in SUBSET Samples :
           SaveBatchDraft(u, S, pending, seen, done)
    \/ \E u \in Users : \E saved \in SUBSET Drafted(u) : \E moved \in SUBSET saved :
         \E gone \in SUBSET moved, n \in 0..3 : SubmitBatch(u, saved, moved, gone, n)
    \/ \E s \in Samples : Return(s)
    \/ Tick
    \/ Environment

\* Nobody is obliged to send a request; only time is sure to pass.
Spec == Init /\ [][Next]_vars
FairSpec == Spec /\ WF_vars(Tick)

-----------------------------------------------------------------------------
\* The type invariant.
TypeOK ==
    /\ LockTypeOK
    /\ queued \in BOOLEAN
    /\ assignment \in Assignment
    /\ task \in [Samples -> Task]
    /\ lease \in [Leases -> Lease]
    /\ draft \in [Samples -> [Users -> Nat \cup {NoDraft}]]
    /\ history \in [Samples -> Seq(Submission)]
    /\ snapshots \in [Samples -> SUBSET Nat]
    /\ events \in [Samples -> SUBSET Nat]
    /\ pool \in [Samples -> SUBSET Nat]

\* "A sample has one active lease" (docs/backend/modules/qc-workflow.md): however
\* requests, expiry, revocation, Redis failures and crashes interleave, no two
\* rows of a sample are ACTIVE.
OneActiveLeasePerSample ==
    \A l, m \in Leases :
        /\ lease[l].status = "active" /\ lease[m].status = "active"
        /\ lease[l].sample = lease[m].sample
        => l = m

\* A task is COMPLETED only over a confirmed snapshot and, when the edits change
\* something, over its modification events and its sample pool item: no crash
\* inside confirm_submission, and no later hand-over, leaves it without them.
CompletedIsMaterialized ==
    \A s \in Samples : task[s].status = "completed" =>
        \E i \in snapshots[s] : s \in Blank \/ i \in events[s] \cap pool[s]

\* submit_label_edit_batch marks the batch SUBMITTED last: whenever it is so
\* marked, also after a crash, its assignee has no draft left to submit and no
\* lease left to edit under.
SubmittedBatchIsClosed ==
    assignment.status = "submitted" =>
        /\ Drafted(assignment.user) = {}
        /\ \A l \in ActiveLeases : lease[l].user # assignment.user

\* The Redis key of a sample never speaks for a lease other than the ACTIVE row:
\* key and row are written by separate calls, the key may vanish on its own, and
\* a submit leaves its key behind, yet no key of an older lease, and no key
\* without a row, coexists with an unexpired row.
KeyAgreesWithRow ==
    \A s \in Samples : \A l \in Current(s) : lock[s].holder \in {l, NoLease}

\* With no crash, the ACTIVE leases belong to the user the batch is assigned to,
\* and only while the batch can be edited: reassigning, releasing and submitting
\* the batch each take the leases away.
LeasesOfAssignee ==
    \A l \in ActiveLeases : EditableBy(lease[l].user)

\* With no crash, a task and its submissions agree: latest_submission_id names
\* the newest one, and a SUBMITTED or COMPLETED task has one.
TaskTracksHistory ==
    \A s \in Samples :
        /\ task[s].latest = Len(history[s])
        /\ task[s].status \in {"submitted", "completed"} => history[s] # << >>

\* With no crash, the tasks follow the assignment: while the batch is taken every
\* task has its assignee, otherwise none has one.
TasksFollowAssignment ==
    \A s \in Samples : HasTask(s) =>
        task[s].assignee =
            IF assignment.status \in Taken THEN assignment.user ELSE NoUser

\* With no crash, no two submissions of a sample start from the same revision:
\* drafts kept across submissions, hand-overs and returns cannot silently
\* overwrite work they have not seen.
NoLostUpdate ==
    \A s \in Samples :
        /\ \A i \in DOMAIN history[s] : history[s][i].base < task[s].rev
        /\ \A i, j \in DOMAIN history[s] :
             i < j => history[s][i].base < history[s][j].base

\* A key whose lease is no longer ACTIVE (a submit left it, or a crash did) goes
\* away with its time to live: nothing can refresh it.
Stale(s) ==
    /\ lock[s].holder # NoLease
    /\ lock[s].holder \notin ActiveOn(s)
StaleKeysGoAway == \A s \in Samples : Stale(s) ~> ~Stale(s)

\* The ledger the workflow keeps.
Ledger == INSTANCE ReviewLedger WITH
    revision <- [s \in Samples |-> task[s].rev],
    entries <- history,
    accepted <- snapshots

\* With no crash, the workflow implements the ledger of submissions.
LedgerRefined == Ledger!LedgerSpec

=============================================================================
