--------------------------- MODULE CorrectionPool ---------------------------
(***************************************************************************)
(* The closed loop behind the QC workflow, for one dataset batch: what     *)
(* confirm_submission stores (a baseline and a confirmed snapshot, the     *)
(* modification events of their difference, an item of the correction      *)
(* sample pool), what the leads do to pool items, and the export jobs that *)
(* read the pool.  One request runs at a time, and may end after any of    *)
(* its writes: the process stops or the next write raises, which is the    *)
(* same for the loop, since memory holds nothing of it but the imported    *)
(* samples, which a restart reads again.  It is not the same for a         *)
(* deletion, which takes the batch out of memory first.                    *)
(*                                                                         *)
(* An annotation is the set of fields that have the value the edits give   *)
(* them: an import starts with some of them, edits add to them, and one    *)
(* event stands for one field that changed.  Snapshots are named by what   *)
(* makes them equal for save_annotation_snapshot; and by the losses before *)
(* them, since one that is made again is not the one that an item names.   *)
(* Leases, drafts and assignments are in QcWorkflow.                       *)
(***************************************************************************)
EXTENDS Naturals, FiniteSets

CONSTANTS
    Samples, Fields, Leads, Configs, NoConfig,
    MaxSubs,      \* bound on the submissions of the batch
    MaxJobs,      \* bound on the export jobs
    MaxReimports, \* bound on the imports of other annotations
    MaxDeletions, \* bound on the deletions of the batch, ended or not
    Stores        \* the platform state stores: "files", "database" or both

ASSUME CorrectionPoolAssumption ==
    /\ NoConfig \notin Configs
    /\ "none" \notin Samples /\ "gone" \notin Samples
    /\ MaxSubs \in Nat /\ MaxJobs \in Nat /\ MaxReimports \in Nat
    /\ MaxDeletions \in Nat
    /\ Stores \subseteq {"files", "database"}

VARIABLES
    store,        \* the configured store
    served,       \* is the batch registered (_accepted_dataset_ids)?
    imported,     \* imported[s]: the annotation of sample s in the runtime
    status,       \* status[s]: of the task of s ("open": any other)
    config,       \* config[s]: the label config the task records
    subs,         \* subs[i]: submission i, NoSub, or Gone with its batch
    snaps,        \* the annotation snapshots
    events,       \* the modification events
    pool,         \* pool[k]: the item of confirmed snapshot k
    jobs,         \* jobs[j]: the row of export job j, or NoJob
    artifacts,    \* artifacts[j]: the items that the file of job j holds
    reimports,    \* imports of other annotations
    deletions,    \* deletions of the batch, ended or not
    losses,       \* deletions that took items their snapshots
    torn          \* submissions that outlived the snapshots or events (history)

review == <<imported, status, config, subs>>
loop == <<snaps, events, pool>>
exports == <<jobs, artifacts>>
past == <<reimports, deletions, losses, torn>>
vars == <<store, served, review, loop, exports, past>>

SubIds == 1..MaxSubs
Jobs == 1..MaxJobs
NoSub == [sample |-> "none", edits |-> {}]
NoJob == [status |-> "none", ofBatch |-> FALSE, items |-> 0]
Gone == [sample |-> "gone", edits |-> {}]

Sub == [sample : Samples, edits : SUBSET Fields]
Snapshot == [kind : {"baseline", "confirmed"}, sample : Samples, sub : 0..MaxSubs,
             fields : SUBSET Fields, config : Configs \cup {NoConfig}, after : 0..MaxDeletions]
Event == [sub : SubIds, lead : Leads, field : Fields]
ItemStatus == {"active", "removed"}
JobStatus == {"queued", "running", "completed", "failed", "cancelled"}

Existing == {i \in SubIds : subs[i] \notin {NoSub, Gone}}

\* list_modification_events: without a submission id (0) all of them.
EventsOf(E, i) == {e \in E : i = 0 \/ e.sub = i}

-----------------------------------------------------------------------------
\* _persist_submission_snapshots_and_events: what confirming submission i stores.

\* The annotation as it is imported now.
Baseline(s) ==
    [kind |-> "baseline", sample |-> s, sub |-> 0, fields |-> imported[s],
     config |-> config[s], after |-> losses]

\* _apply_label_edit_operations_to_payload over the baseline.
Confirmed(i) ==
    LET s == subs[i].sample
    IN  [kind |-> "confirmed", sample |-> s, sub |-> i,
         fields |-> imported[s] \cup subs[i].edits, config |-> config[s],
         after |-> losses]

\* _diff_snapshots_to_events, _event_key_payload: the key names the lead too.
Diff(i, lead) ==
    {[sub |-> i, lead |-> lead, field |-> f] :
        f \in Confirmed(i).fields \ imported[subs[i].sample]}

\* save_modification_events: one transaction, or one line after another, of which
\* those a stopped process (whole = FALSE) has written are in the file.
Stored(new, whole) ==
    IF whole THEN {events \cup new}
    ELSE IF store = "database" THEN {events}
    ELSE {events \cup E : E \in SUBSET new}

\* _upsert_sample_pool_item: without events nothing is stored, else the snapshot's
\* item is (again) active and has the events given.
Pooled(k, E) ==
    IF E = {} THEN pool
    ELSE [l \in {k} \cup DOMAIN pool |->
            IF l = k THEN [status |-> "active", events |-> E] ELSE pool[l]]

-----------------------------------------------------------------------------
Init ==
    /\ store \in Stores
    /\ served = TRUE
    /\ imported \in [Samples -> SUBSET Fields]
    /\ status = [s \in Samples |-> "open"]
    /\ config = [s \in Samples |-> NoConfig]
    /\ subs = [i \in SubIds |-> NoSub]
    /\ snaps = {} /\ events = {} /\ pool = <<>>
    /\ jobs = [j \in Jobs |-> NoJob]
    /\ artifacts = [j \in Jobs |-> {}]
    /\ reimports = 0 /\ deletions = 0 /\ losses = 0 /\ torn = {}

\* submit_label_edits, submit_label_edit_batch as seen from here: a submission is
\* stored, then the task refers to it (not so if the process stops in between).
Submit(i, s, E, c, whole) ==
    /\ served
    /\ subs[i] = NoSub /\ \A h \in 1..(i - 1) : subs[h] # NoSub
    /\ subs' = [subs EXCEPT ![i] = [sample |-> s, edits |-> E]]
    /\ IF whole
       THEN /\ status' = [status EXCEPT ![s] = "submitted"]
            /\ config' = [config EXCEPT ![s] = c]
       ELSE UNCHANGED <<status, config>>
    /\ UNCHANGED <<store, past, served, imported, loop, exports>>

\* acquire_sample_lease reopens the task whatever its status.
Reopen(s) ==
    /\ served /\ status[s] # "open"
    /\ status' = [status EXCEPT ![s] = "open"]
    /\ UNCHANGED <<store, past, served, imported, config, subs, loop, exports>>

\* Mutant: the events are derived before the snapshots are stored.
ConfirmEventsFirst(i, lead, n) ==
    LET s == subs[i].sample
        all == events \cup Diff(i, lead)
    IN  /\ served /\ i \in Existing /\ status[s] = "submitted"
        /\ events' \in Stored(Diff(i, lead), n >= 1)
        /\ snaps' = IF n >= 3 THEN snaps \cup {Baseline(s), Confirmed(i)}
                    ELSE IF n = 2 THEN snaps \cup {Baseline(s)} ELSE snaps
        /\ pool' = IF n >= 2 THEN Pooled(Confirmed(i), EventsOf(all, i)) ELSE pool
        /\ status' = IF n = 5 THEN [status EXCEPT ![s] = "completed"] ELSE status
        /\ UNCHANGED <<store, past, served, imported, config, subs, exports>>

\* confirm_submission of any submission of the sample, stopped after n of its five
\* writes: baseline, confirmed snapshot, events, pool item, task.
Confirm(i, lead, n) ==
    LET s == subs[i].sample
        all == events \cup Diff(i, lead)
    IN  /\ served /\ i \in Existing /\ status[s] = "submitted"
        /\ snaps' = IF n >= 2 THEN snaps \cup {Baseline(s), Confirmed(i)}
                    ELSE IF n = 1 THEN snaps \cup {Baseline(s)} ELSE snaps
        /\ IF n >= 2 THEN events' \in Stored(Diff(i, lead), n >= 3) ELSE events' = events
        /\ pool' = IF n >= 4 THEN Pooled(Confirmed(i), EventsOf(all, i)) ELSE pool
        /\ status' = IF n = 5 THEN [status EXCEPT ![s] = "completed"] ELSE status
        /\ UNCHANGED <<store, past, served, imported, config, subs, exports>>

\* return_submission, also of a completed task: the pool is not touched.
Return(i) ==
    /\ served /\ i \in Existing
    /\ status[subs[i].sample] \in {"submitted", "completed"}
    /\ status' = [status EXCEPT ![subs[i].sample] = "open"]
    /\ UNCHANGED <<store, past, served, imported, config, subs, loop, exports>>

\* Mutant: baseline snapshots count too.
PoolableOfAnyKind(k) == EventsOf(events, k.sub) # {}

\* confirmed_snapshot_required, meaningful_event_required.
Poolable(k) == k.kind = "confirmed" /\ EventsOf(events, k.sub) # {}

\* create_or_reactivate_sample_pool_item: the filters may select any snapshot.
UpsertItem(k) ==
    /\ served
    /\ Poolable(k)
    /\ pool' = Pooled(k, EventsOf(events, k.sub))
    /\ UNCHANGED <<store, past, served, review, snaps, events, exports>>

\* Mutant: removing an item drops the events it was made of.
RemoveItemAndEvents(k) ==
    /\ pool' = [pool EXCEPT ![k].status = "removed"]
    /\ events' = events \ pool[k].events
    /\ UNCHANGED <<store, past, served, review, snaps, exports>>

\* remove_sample_pool_item.
RemoveItem(k) ==
    /\ pool' = [pool EXCEPT ![k].status = "removed"]
    /\ UNCHANGED <<store, past, served, review, snaps, events, exports>>

-----------------------------------------------------------------------------
\* Export jobs.

\* _export_source_items: the active items among those the filters select.
Sources(wanted) == {k \in wanted : pool[k].status = "active"}

\* Can it be read?  A filter may name the batch after it was deleted.
Selected(wanted, ofBatch) == (ofBatch => served) /\ Sources(wanted) # {}

\* Mutant: items without a snapshot are passed over.
ExportableInPart(wanted) == served

\* _build_coco_payload: every item needs its sample and its snapshot, from which
\* what the file holds of it is made.
Exportable(wanted) == served /\ Sources(wanted) \subseteq snaps
Payload(wanted) == Sources(wanted) \cap snaps

\* Mutant: the job is completed before its file is written.
CompletedFirst == <<"queued", "running", "completed", "file">>

\* The writes of create_export_job: rows of the job and, between them, its file.
ExportWrites == <<"queued", "running", "file", "completed">>

Wrote(n) == {ExportWrites[m] : m \in 1..n}
RowAfter(n) == IF "completed" \in Wrote(n) THEN "completed"
               ELSE IF "running" \in Wrote(n) THEN "running" ELSE "queued"

NewJob(j) == jobs[j] = NoJob /\ \A h \in 1..(j - 1) : jobs[h] # NoJob

\* create_export_job, ended or stopped after n writes.  A file cut short holds no
\* item that can be read.
CreateExport(j, wanted, ofBatch, n) ==
    LET row == RowAfter(n)
    IN  /\ NewJob(j)
        /\ n >= 2 => Selected(wanted, ofBatch)
        /\ n >= 3 => Exportable(wanted)
        /\ jobs' = [jobs EXCEPT ![j] =
             [status |-> row, ofBatch |-> ofBatch,
              items |-> IF row = "completed" THEN Cardinality(Sources(wanted)) ELSE 0]]
        /\ artifacts' = IF "file" \in Wrote(n) THEN [artifacts EXCEPT ![j] = Payload(wanted)]
                        ELSE artifacts
        /\ UNCHANGED <<store, past, served, review, loop>>

\* create_export_job that fails: nothing selected, a snapshot missing, an unsupported
\* format, a file or, with the file there, a row that cannot be written.
FailExport(j, wanted, ofBatch) ==
    /\ NewJob(j)
    /\ jobs' = [jobs EXCEPT ![j] = [status |-> "failed", ofBatch |-> ofBatch, items |-> 0]]
    /\ \/ artifacts' = artifacts
       \/ /\ Selected(wanted, ofBatch) /\ Exportable(wanted)
          /\ artifacts' = [artifacts EXCEPT ![j] = Payload(wanted)]
    /\ UNCHANGED <<store, past, served, review, loop>>

\* _effective_batch_dataset_id of the batch the job's filter names raises when that
\* batch is gone.
Readable(j) == jobs[j].ofBatch => served

\* Mutant: any job can be cancelled.
CancellableWhatever == JobStatus
Cancellable == {"queued", "running", "cancelled"}

\* cancel_export_job.
CancelExport(j) ==
    /\ Readable(j)
    /\ jobs[j].status \in Cancellable
    /\ jobs' = [jobs EXCEPT ![j].status = "cancelled"]
    /\ UNCHANGED <<store, past, served, review, loop, artifacts>>

-----------------------------------------------------------------------------
\* Files of a batch's QC directory that hold more than one submission.
Shared == {"tasks", "snapshots", "events"}

\* delete_dataset_batch, ended after n of its writes (QC state, pool rows, registry).
\* Of the QC state the submissions `left` and the files `kept` are there afterwards:
\* short of the first write anything or, in the database, everything.  Short of the
\* last one a process that stopped serves the batch again when it is started, and
\* one that goes on does not.
DeleteBatch(n, left, kept) ==
    /\ served
    /\ IF n >= 1 THEN left = {} /\ kept = {}
       ELSE store = "database" => left = Existing /\ kept = Shared
    /\ served' \in IF n < 3 THEN BOOLEAN ELSE {FALSE}
    /\ subs' = [i \in SubIds |-> IF i \in Existing \ left THEN Gone ELSE subs[i]]
    /\ IF "tasks" \in kept THEN UNCHANGED <<status, config>>
       ELSE /\ status' = [s \in Samples |-> "open"]
            /\ config' = [s \in Samples |-> NoConfig]
    /\ snaps' = IF "snapshots" \in kept THEN snaps ELSE {}
    /\ events' = IF "events" \in kept THEN events ELSE {}
    /\ pool' = IF n >= 2 THEN <<>> ELSE pool
    /\ torn' = IF UNCHANGED <<snaps, events>> THEN torn ELSE left
    /\ losses' = IF DOMAIN pool' \cap snaps \subseteq snaps' THEN losses ELSE losses + 1
    /\ deletions' = deletions + 1 /\ deletions' <= MaxDeletions
    /\ UNCHANGED <<store, imported, reimports, exports>>

\* The samples are read from their source, which may have changed.
Import(I) ==
    /\ imported' = I
    /\ reimports' = IF I = imported THEN reimports ELSE reimports + 1
    /\ reimports' <= MaxReimports

\* The batch is registered again under its id, whatever a deletion has left of it.
\* After a deletion that failed, a restart can bring it back too.
Register(I) ==
    /\ ~served
    /\ served' = TRUE
    /\ Import(I)
    /\ UNCHANGED <<store, deletions, losses, torn, status, config, subs, loop, exports>>

\* A restart after the source files have changed.
Reimport(I) ==
    /\ served
    /\ Import(I)
    /\ UNCHANGED <<store, deletions, losses, torn, served, status, config, subs, loop, exports>>

Next ==
    \/ \E i \in SubIds, s \in Samples, E \in SUBSET Fields, c \in Configs, whole \in BOOLEAN :
         Submit(i, s, E, c, whole)
    \/ \E s \in Samples : Reopen(s)
    \/ \E i \in Existing, lead \in Leads, n \in 1..5 : Confirm(i, lead, n)
    \/ \E i \in Existing : Return(i)
    \/ \E k \in snaps : UpsertItem(k)
    \/ \E k \in DOMAIN pool : RemoveItem(k)
    \/ \E j \in Jobs, wanted \in SUBSET DOMAIN pool, ofBatch \in BOOLEAN :
         \/ \E n \in 1..4 : CreateExport(j, wanted, ofBatch, n)
         \/ FailExport(j, wanted, ofBatch)
    \/ \E j \in Jobs : CancelExport(j)
    \/ \E n \in 0..3, left \in SUBSET Existing, kept \in SUBSET Shared :
         DeleteBatch(n, left, kept)
    \/ \E I \in [Samples -> SUBSET Fields] : Register(I) \/ Reimport(I)

Spec == Init /\ [][Next]_vars

-----------------------------------------------------------------------------
TypeOK ==
    /\ store \in Stores /\ served \in BOOLEAN
    /\ imported \in [Samples -> SUBSET Fields]
    /\ status \in [Samples -> {"open", "submitted", "completed"}]
    /\ config \in [Samples -> Configs \cup {NoConfig}]
    /\ subs \in [SubIds -> Sub \cup {NoSub, Gone}]
    /\ \A k \in snaps : k \in Snapshot
    /\ \A e \in events : e \in Event
    /\ \A k \in DOMAIN pool :
         /\ k \in Snapshot /\ k.kind = "confirmed"
         /\ pool[k].status \in ItemStatus /\ \A e \in pool[k].events : e \in Event
    /\ jobs \in [Jobs -> [status : JobStatus, ofBatch : BOOLEAN, items : Nat] \cup {NoJob}]
    /\ DOMAIN artifacts = Jobs /\ \A j \in Jobs : \A k \in artifacts[j] : k \in Snapshot
    /\ reimports \in 0..MaxReimports
    /\ deletions \in 0..MaxDeletions /\ losses \in 0..deletions
    /\ torn \in SUBSET SubIds

\* Confirmed snapshot k is what its submission makes of a stored baseline.
MadeOfBaseline(k) ==
    \E b \in snaps : /\ b.kind = "baseline" /\ b.sample = k.sample
                     /\ k.fields = b.fields \cup subs[k.sub].edits

\* "Item links batch, sample, snapshot, event tags" and "No meaningful changes do not
\* enter sample pool" (BE-POOL-001, BE-CLOSED-005): as long as its submission is
\* there, a pool item has events, and tells only of edits that this submission made.
\* It also has its confirmed snapshot, the submission's edits of a stored baseline,
\* and its events among the stored ones; and with the database store these account
\* for all of the submission's edits to a stored baseline, however often it was
\* confirmed, wherever a confirmation or a deletion ended and whatever was imported
\* since.  Excepted from that is a submission that a deletion of the batch cut short
\* has left with only a part of the QC files (torn); those made after it are not.
\* The two baselines may differ: a confirmation after a reimport that stops before
\* its events leaves a snapshot for which UpsertItem finds those of an earlier
\* confirmation only.
PoolExplained ==
    \A k \in DOMAIN pool : k.sub \in Existing =>
        LET edits == subs[k.sub].edits
            told == {e.field : e \in pool[k].events}
        IN  /\ pool[k].events # {} /\ told \subseteq edits
            /\ k.sub \notin torn =>
                 /\ k \in snaps /\ MadeOfBaseline(k)
                 /\ pool[k].events \subseteq EventsOf(events, k.sub)
                 /\ store = "database" =>
                      \E b \in snaps : /\ b.kind = "baseline" /\ b.sample = k.sample
                                       /\ edits \ b.fields \subseteq told

\* "Status transitions do not delete source data" (BE-POOL-003): unless its batch is
\* deleted, if only in part, what a submission has led to (snapshots, events, items
\* and the events they name) stays.
SourcesKept ==
    [][\A i \in SubIds \ torn' : subs'[i] \in Sub =>
        /\ {k \in snaps : k.sub = i} \subseteq snaps'
        /\ EventsOf(events, i) \subseteq events'
        /\ \A k \in DOMAIN pool : k.sub = i =>
             k \in DOMAIN pool' /\ pool[k].events \subseteq pool'[k].events]_vars

\* A job says completed only when its whole file is there, wherever the process
\* stopped or a write failed; and what the file holds is, as long as the submission
\* it came from is there in full, a stored snapshot, made by that submission's edits:
\* no item that a half-done deletion left without its snapshot was exported.
CompletedIsDownloadable ==
    \A j \in Jobs : jobs[j].status = "completed" =>
        /\ artifacts[j] # {} /\ Cardinality(artifacts[j]) = jobs[j].items
        /\ \A k \in artifacts[j] : k.sub \in Existing \ torn => k \in snaps /\ MadeOfBaseline(k)

\* "Completed job cannot be cancelled incorrectly" (BE-EXPORT-003): a job that has
\* ended stays as it ended, and so does its file.
JobsSettle ==
    [][\A j \in Jobs : jobs[j].status \in {"completed", "failed", "cancelled"} =>
        jobs'[j] = jobs[j] /\ artifacts'[j] = artifacts[j]]_vars

\* What the list of export jobs (export-search.md: GET /api/exports,
\* ExportJobListResponse) needs: the batch that a job's filter names can be resolved.
\* list_export_jobs resolves it for every job and does not catch the error.
ExportsListable == \A j \in Jobs : jobs[j] # NoJob => Readable(j)
=============================================================================
