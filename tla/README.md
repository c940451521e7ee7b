# TLA+ verification of the urban-violation data platform

TLA+ models of the backend in `src/src/urban_violation_backend/` (paths below
are relative to it unless they start with `docs/` or `deploy/`), model-checked with
TLC on small instances and, where it says so, proved with TLAPS for every value
of the constants.

## 1. The system

A FastAPI backend serves annotators, QC leads and managers who review
pre-annotated images. One object, `FixtureRuntimeService` (`service.py`), holds
the operations; it persists through a `PlatformStateStore` (JSON files,
`state_store.py`) or its database twin (`db/foundation.py`), and may use Redis
(`runtime_coordination.py`) as an advisory coordinator.

| component | state it keeps | operations | hard behaviour | what makes it correct |
|---|---|---|---|---|
| QC workflow and leases (`service.py` 1149-1240, 3258-3286, 4303-5547) | assignment row of a batch; a task per sample (status, assignee, revision, latest submission); lease rows; drafts per user; submissions | generate queue, assign / reassign / release, acquire / heartbeat / release / force-release a lease, save draft, submit sample, save batch draft, submit batch, confirm, return | leases expire lazily; Redis and rows disagree; a handler makes several writes; drafts outlive assignments | one active lease per sample; leases belong to the assignee; no update lost; what is COMPLETED is materialized |
| Runtime coordination (`runtime_coordination.py`) | Redis keys: sample lease locks, runtime locks, import progress, session cache | SET NX EX, compare-and-expire, compare-and-delete, forced delete | key loss, outage, expiry out of step with the rows | fails closed; a key never speaks for another lease than the row |
| Dataset registry, import jobs (`service.py` 690-900, 1149-1240, 3440-3500, 6080-6470; `routes.py` 680-760) | types and registered batches in memory and in a file; jobs and runtimes in memory; uploaded sources | create type, register from a directory or from an archive, scan / validate / confirm / retry, generate queue, delete batch, restart | the upload handler awaits; restart between memory and file; phases without preconditions; locks left behind | memory and file agree; no work outlives its batch; a registered source stays |
| Label configs (`labels.py`, `db/foundation.py`) | version rows, active pointer; one file each | save, activate, list, reload | several files a change; failed writes; old stores with duplicates | one row a version; a restart serves what was served; history stays |
| Closed loop (`service.py` 1600-2400, 2690-2860) | snapshots, modification events, sample pool items, training evaluations | confirm (writer), manual upsert and removal of items, evaluation comparison | stopped and repeated confirmation, reimported annotations, deletion | an item has its snapshot and the events that explain it |
| Export jobs (`service.py` 3060-3234) | job rows, artifact files | create, list, cancel, download | crash between row and artifact; the batch goes away | a COMPLETED job has its artifact; ended jobs stay |
| Label edits (`service.py` 250-310, 1500-1960, 3560-4300) | none: payload in, payload and events out | validate an operation, apply the operations, derive the events | operations that pass and then do nothing, or raise; ids given by the client | the events are a faithful account of the change |
| Auth sessions (`auth.py`) | session list, session cache | login, logout, resolve | runs in the threadpool beside the event loop | a logged-out token stays logged out; no login is lost |
| State migration (`migrate_state.py`, `db/foundation.py`) | file state in, database rows out | import run, dry run | stopped and repeated runs; rows in conflict | nothing overwritten, idempotent, as the dry run said |
| State store (`state_store.py`, `db/`) | all of the above on disk | one file replacement or one transaction a call | fixed temporary file name; merge by key | a call is atomic |
| RBAC (`permissions.py`), users and role bindings | users, bindings, role catalogue | permission evaluation, row-level administration | scope matching; deny by default | agrees with the reference definition |
| Importer, API layer, audit, frontend, deployment | none of their own that the above reads | parsing, routing, append-only log | - | - |

How they interact: API handlers call the service; the service calls the store
(every call durable on its own) and the coordinator (best effort: each
`RedisError` becomes "no" for an acquisition and is swallowed for a deletion).
`get_context` resolves the session and the permissions before each handler. A
batch must be registered, ingested and have an active label config before its
queue can be generated. Confirming a submission applies its edits to the imported
annotation and writes the closed loop; exports read its sample pool. Deleting
a batch clears the workflow and the closed loop of its id.

### Atomicity

Every handler in `routes.py` is `async def` and calls synchronous service code;
the image runs one uvicorn process without `--workers`
(`deploy/docker/backend.Dockerfile`). All but one do so without an `await`, and run to
their end before the next one starts: in the models a request is one action. Three
things break this up:

* a handler makes several store and Redis calls, and the process may die, or a
  call may fail, between any two of them. An action's parameter `n` says how many
  of its writes took effect. Where nothing but the store is changed (`QcWorkflow`,
  `StateMigration`, most of `CorrectionPool`), a failed call and a stop leave the same state. Where a
  handler has changed memory first they do not: in `BatchRegistry` a handler ends `"done"`,
  `"failed"` (memory as changed, the process lives on) or `"crashed"` (memory as a start
  reads it), `LabelConfig` has both ends of a `Write`, and in `CorrectionPool` a deletion that
  raised leaves the batch unserved until it is registered again or a restart finds it;
* the archive upload (`routes.py:684`) awaits the chunks of the body. In
  `BatchRegistry` it is three actions (`OpenUpload`, `StreamBody`, `FinishUpload`), of
  several requests at once;
* `get_context` (`routes.py:111`) is a plain function and runs in the threadpool:
  session resolution does interleave with the handlers. It touches only
  sessions, so the rest is not affected; it is the subject of `AuthSession`.

A restart is invisible to the workflow, whose state is all in the store. It is an
action of its own where a component keeps memory: the registry, the label configs, the
imported annotations, the session requests in flight.

## 2. The modules

| module | role |
|---|---|
| `LeaseLock` | the Redis key of each sample: `CanAcquire` (SET NX EX), `HeldBy` (the Lua scripts' test), `Held`, `Freed`, ageing, loss, outage |
| `QcWorkflow` | EXTENDS `LeaseLock`; the workflow of one batch, one action per operation |
| `ReviewLedger` | the abstract promise: an append-only ledger of submissions per sample, each against the current revision |
| `QcWorkflow_proofs`, `QcWork_proofs` | its theorems: leases, then work on samples |
| `AuthSession`, `AuthSession_proofs` | the session list and the session cache under concurrent requests; its theorems |
| `BatchRegistry`, `BatchRegistry_proofs` | types, batches, import jobs, uploads and what hangs on a batch; its theorems |
| `LabelConfig`, `LabelConfig_proofs` | the file repository of label configs of one type; its theorems |
| `LabelBook` | the abstract promise: stored configs and the active one. It is the database repository, whose calls are transactions |
| `CorrectionPool`, `CorrectionPool_proofs` | snapshots, events, pool items and export jobs of one batch; its theorems |
| `LabelEdits`, `LabelEdits_proofs` | the edit operations on one annotation and the events derived from them; its theorems |
| `StateMigration`, `StateMigration_proofs` | the command `import-file-state`; its theorems |
| `MC...` | the instances: symmetry sets and constants that a `.cfg` cannot write |

One batch is enough for `QcWorkflow` and `CorrectionPool`: no operation reads the state of
two batches, and every key and row carries the dataset id. The modules meet at the
state they share. `QcWorkflow.Confirm` says only that the rows of a confirmation are
stored; `CorrectionPool.Confirm` says which, over annotations that are sets of edited
fields; `LabelEdits` says what the operations make of an annotation and which
events come out. `BatchRegistry` sees of a batch only whether there is QC work.

### QcWorkflow

State of `QcWorkflow` against the code: `queued` is `qc_queue_id` on the registered
batch, `assignment` the `BatchQcAssignment`, `task` the `QcTask` rows, `lease` the
`SampleLease` rows (`left` is the time to `expires_at`; an id is used once, as
`new_id` makes it), `draft` the base revision of each stored draft, `history`
the submissions, and `snapshots`, `events`, `pool` the submissions with
such rows.

| action | code | worth knowing |
|---|---|---|
| `GenerateQueue` | `generate_qc_queue` | queue id persisted, then the missing tasks |
| `AssignBatch`, `ReassignBatch` | `assign_batch` | reassigning revokes every active lease first; the task of a completed sample changes hands and stays completed |
| `ReleaseAssignment` | `release_batch_assignment` | leases revoked last |
| `ObserveLease` | `_active_lease_for_sample` | lazy expiry: due rows are expired and the key deleted by whichever request looks |
| `AcquireLease`, `ReacquireLease` | `acquire_sample_lease` | key, row, task, in this order; the task goes IN_PROGRESS from any status |
| `Heartbeat`, `ReleaseLease`, `ForceRelease` | `heartbeat_sample_lease`, `release_sample_lease` | the row is found by id, the key is that of the sample in the request: the two are chosen independently |
| `SaveDraft`, `SubmitSample` | `submit_label_edits` | both move the revision; neither touches the key |
| `SaveBatchDraft` | `save_my_batch_draft` | entry after entry; a refused entry leaves the earlier ones stored (`done = FALSE`) |
| `SubmitBatch` | `submit_label_edit_batch` | checks all drafts, then three writes per draft, then leases, then the assignment |
| `Confirm`, `Return` | `confirm_submission`, `return_submission` | any submission of the sample; the closed-loop rows precede the task |
| `Tick`, `Environment` | clock, Redis | external |

Left out of `QcWorkflow`: audit events, timestamps, response building, the batch-draft
manifest (only responses read it), the content of label operations (an edit is
legal or its request is refused before any write; `Blank` names the samples
whose edits change nothing, for which no event and no pool item is stored),
permissions (an actor is any user with the right role), and a deactivated user.

### AuthSession

Its requests interleave call by call. `rows` is
`sessions.json`, `tmp` its fixed-name temporary file, `cache` the Redis entry of each
token, `loop` the request whose handler holds the event loop, `req[r]` what request
`r` has read so far.

| action | code | worth knowing |
|---|---|---|
| `BeginLogin`, `Begin` | `routes.login`, `resolve_context` | the clock is read once, when resolving begins |
| `Lookup`, `List`, `Fill` | `resolve_session` | in a thread; a hit ends it; the list may have to be saved |
| `WriteTmp`, `Rename`, `RenameFails` | `_write_json` | shared by threads and handlers; whoever renames takes what the file holds |
| `Login`, `Logout`, `Finish` | `create_session`, `revoke_session` | on the event loop, one at a time |
| `Respond` | end of the request | |
| `Tick`, `RedisOutage`, `RedisLoss`, `Restart` | | external |

Left out there: users and role bindings, header authentication, the bootstrap
admin. The write of the temporary file is one step, so a half-written list is never
read in the model.

### BatchRegistry

`types`, `batches`, `runtimes` are `_dataset_type_display_names`, `_registered_batches` (with the
import job of each) and `_registered_batch_runtimes`; `typeFile` and `batchFile` what is
on disk; `source` the extracted upload of each slot (type, batch key); `tasks` the QC state of
each id (none, stored, or torn: files of it without the tasks) and `pool` its sample pool rows;
`tmp` the `.uploading` file of each slot and archive name; `upload` the upload requests; `held` the
runtime locks that crashes have left. Two history variables say what failed requests have left
behind: `unsaved`, the registries in memory that no file has since their write raised, and
`adrift`, the ids whose work the registry may not account for.

| action | code | worth knowing |
|---|---|---|
| `CreateType`, `ActivateLabels` | `create_dataset_type`, saving a label config | |
| `CreateImportJob` (`Register`) | `create_import_job`, `_create_registered_batch_import_job` | a readable source is ingested at once and the job is IMPORTED; in memory before the registry is written |
| `OpenUpload`, `StreamBody`, `AbortUpload`, `FinishUpload` | `routes.create_import_job_from_archive` and the service method of that name | the temporary name is the slot's; the slot is looked up again after the body |
| `Phase` | `scan_`, `validate_`, `confirm_`, `retry_import_job` | no precondition; a lock of each phase's own |
| `GenerateQueue` | `generate_qc_queue` | queue id in memory, registry, tasks, lock |
| `AssignBatch`, `Correct` | `assign_batch`, `confirm_submission` | an assignment makes missing tasks from the queue id in memory |
| `DeleteBatch` | `delete_dataset_batch` | memory, QC state, pool, registry; the QC state of the file store goes in any parts (`Remains`) |
| `Restart`, `LockExpires` | start-up; the rest external | |

A batch id is the type, `__` and the key, so two slots may have one id; the module and its
theorems have this, the instance (one slot) has not. Of an extraction that does not end, nothing
or the whole is left (`FinishUpload`). A body mixed of two uploads is not an archive. Whether a server
directory can be read is chosen each time it is looked at (`readable`). A write that raises
has not changed its file (`_write_json` replaces, the database rolls back), but for the removal of
the QC state, which is `shutil.rmtree`.

### LabelConfig

`rows` and `active` are the memory of the repository, `disk` and `pointer` the version
files and `active.json`. Every operation begins with `Load` (`_load_dataset`, with the
repairs of `_normalize_dataset_records`) and ends with `Persisted` (`_persist_dataset`), after
each of whose steps the process may die or a write may fail (`Write`). Initial stores
are all those that this program or an older one may have left (`Historical`):
with several rows of one content, with or without a pointer.

`meant` is a history variable: what each id stood for when it last had a row, in the files or in
memory. Tasks and submissions record ids, and the row may be gone (a duplicate dropped by the
repair) when they are read. `Recalls` forgets an id in one case only: it has no row, the process is down
and every file left has a smaller id. That is what the code gives: the counter of the next process is
the greatest id in the files (`labels.py:507`), so a dropped id above it, or that of a
failed save, is given out again. `HistoryKept` says that nothing else ever makes an id mean another config.

`Book` reads the files: `stored` is the configs in them, `active` the one `active.json` names,
`pending` what failed saves have left in memory. A store whose pointer is missing counts as one
where nothing is active until a start has repaired it (`LabelBook!Tear`); what a start
*would* choose is the subject of `ServedSurvives`.

### CorrectionPool

| action | code | worth knowing |
|---|---|---|
| `Submit`, `Reopen`, `Return` | `submit_label_edits`, `submit_label_edit_batch`, `acquire_sample_lease`, `return_submission` | as far as seen from here |
| `Confirm` | `confirm_submission`, `_persist_submission_snapshots_and_events` | any submission, any number of times; five writes |
| `UpsertItem`, `RemoveItem` | `create_or_reactivate_sample_pool_item`, `remove_sample_pool_item` | |
| `CreateExport`, `FailExport`, `CancelExport` | `create_export_job`, `cancel_export_job` | `ExportWrites`: queued, running, file, completed, ended after any of them; with the file there and the next row refused the job is FAILED |
| `DeleteBatch` | `delete_dataset_batch`, `clear_qc_dataset_state` | QC state, pool rows, registry; of the QC state the file store removes file after file, so that any submissions (`left`) and any of the shared files (`kept`) may be there when it is cut short |
| `Register`, `Reimport` | registration, restart | the batch takes over what a deletion that did not end has left under its id |

An annotation is the set of fields that have the value the edits give them, so an
import may already agree with an edit. Snapshots are named by what makes two of them
one for `save_annotation_snapshot`, so saving again is set union. With the file
store the events are lines, of which a stopped request may have written any. `torn` (history) names
the submissions that were left by a deletion which took snapshots or events from beside them; `losses`
counts such deletions, so that a snapshot made after one is told from the one an older item names.

### LabelEdits

A behaviour applies a submission's operations one by one; `Valid` is
`validate_label_edits`, the actions are the branches of
`_apply_label_edit_operations_to_payload`, `DiffEvents` is `_diff_snapshots_to_events`. `Ignored` are
the operations that validation lets through and that have no effect, `TagRaises`
those that make every confirmation of the submission fail. Values are atoms or
lists; the ranges of texts and numbers are in the choice of the values. `Omit` (the list
without the records of an id) is written with positions, so that it can be reasoned about;
`MCLabelEdits` has TLC compare it with `SelectSeq` on every short list.

### StateMigration

`Order` is the order of the domains. A domain is merged and saved as a whole
(`ImportMerged`) or row by row (`Compare`, `Insert`, `ConflictByKey`); the insertion of a
label config or a pointer may raise (`Abort`), and the command may stop between two
transactions (`Crash`) and be run again (`Start`), dry or not. `before`, `plan` and `clean` are
history variables of the properties.

### Constants

Constants are assumed only to be of their kind (`LeaseLockAssumption`,
`QcWorkflowAssumption`): positive lifetimes, sentinels outside the sets they
extend. `MaxRevision`, `MaxSubmissions` and the number of lease ids cap the counters;
all three are guards of the actions that would exceed them. `LockTtl` and `LeaseTtl` count
ticks: the key and the row have separately configured lifetimes, and the instance with
Redis takes a key that outlives its row.

The same holds of the other modules (`BatchRegistryAssumption`, `LabelConfigAssumption`,
`CorrectionPoolAssumption`, `StateMigrationAssumption`, which adds that ids tell the rows of a domain
apart): `Max...` constants are bounds and
guards of the actions that would exceed them. Two modules also assume what the code sees to:

* `KeysAssumption` (`StateMigration`): the files have one snapshot, event or item of a key. The
  file store looks for the key before it stores one (`state_store.py:302-399`).
* `LabelEditsAssumption`: a baseline has every field of each of its records, and numbered
  candidates, as `_snapshot_payload_from_sample` makes it (`service.py:1494-1532`); of what
  `add_candidate` brings only that it is an object with an id, null or none.

## 3. What is checked

| run | instance | distinct states | shows |
|---|---|---|---|
| `qc_lease` | 1 sample, 2 users, 2 lease ids, Redis with outages, crashes, key outlives row | 145,254 | `TypeOK`, `OneActiveLeasePerSample`, `KeyAgreesWithRow`, liveness `StaleKeysGoAway` |
| `qc_crash` | 2 samples (one blank), 1 submission each, crashes | 106,434 | `CompletedIsMaterialized`, `SubmittedBatchIsClosed` |
| `qc_ledger` | 1 sample, 2 users, 2 revisions, 2 submissions, no crash | 258,538 | `LeasesOfAssignee`, `TasksFollowAssignment`, `NoLostUpdate`, `TaskTracksHistory`, refinement `LedgerRefined` |
| `auth_overlap` | 2 requests that overlap, 2 tokens, outages, restarts | 780,622 | `TypeOK`, `CacheWithinSession`, `LogoutIsFinal` |
| `auth_serial` | requests one at a time, 2 tokens, outages, restarts | 18,956 | `LiveIsAccepted`, `SessionsKept` |
| `auth_lost_session` | 2 requests that overlap, no Redis | - | counterexample to `SessionsKept` |
| `registry` | 1 slot, 2 types, 2 uploads, 2 archive names, file store, crashes, failed writes | 808,779 | `TypeOK`, `RestartForgetsNothing`, `WorkHasBatch`, `SourceIsStable` |
| `labels` | 4 configs of 3 versions, 4 ids, 3 failed writes, crashes, every historical store | 96,648 | `TypeOK`, `OneRowPerVersion`, `ServedSurvives`, `HistoryKept`, refinement `BookRefined` |
| `pool` | 1 sample, 1 field, 2 submissions, 1 lead, 1 export job, 1 reimport, 1 deletion, both stores | 586,483 | `TypeOK`, `PoolExplained`, `CompletedIsDownloadable`, `SourcesKept`, `JobsSettle` |
| `pool_unlistable` | 1 sample, 2 fields, 1 submission, 2 leads, 1 deletion, no reimport | - | counterexample to `ExportsListable` |
| `edits` | 1 annotation, 2 candidates, 3 operations | 8,523 | `TypeOK`, `EventsReplay`, `OneRecordAtATime` |
| `migrate` | 3 states of the files, 4 of the database, 3 runs | 12,523 | `TypeOK`, `NothingOverwritten`, `ReferencesResolve`, `CleanRunCopiesAll`, `RerunIsIdempotent`, `PlanIsKept` |

### Bounds

Workflow. Leases on different samples interact only through the request that
names a lease and another sample's key and through whole-batch revocation;
contention for one sample needs two lease ids and two users. A stale draft needs two
revisions and two submissions. The batch's crash points need two drafts, one
submitted and one not. `qc_lease` has no edits (`MaxRevision = 0`): edits only close
lease rows, as a release does. For all properties of all modules but the liveness property
`StaleKeysGoAway` the theorems below remove the bounds altogether.

Sessions. A lost update needs two requests and two tokens (one whose time is up,
so that the list is saved, one that is lost); lifetimes of three ticks and two let
an entry expire before its session and let both be shortened by the other.
`Overlap = FALSE` is a client that waits for each response; it separates what the
code does wrong by itself from what only concurrency breaks.

Registry. One batch id, since the handlers touch one row and save all; the second type
is the one whose id is the batch's. Two uploads, one with and one without STEP
outputs, under one archive name (they share the temporary file) or two (they do
not). One left-over lock at a time, and one thing unhealed that a failed request left
(`MaxUnhealed`); once healed, another may fail, and crashes may come at any time. The QC
state is in files, whose removal can leave a part; that of the database cannot.

Label configs. A conflict needs two configs of one version; four ids leave room for a
duplicate that is dropped and a new id after it. Three failed writes of three versions: two
whose configs stay in memory and one in the request that follows, which may then
write several of them and not the pointer.

Pool. Two submissions, so that the older can be confirmed after the newer, and a
deletion can leave one of them and not the other; one deletion, ended or not, after which the batch
is registered again and worked on; one reimport, so that two confirmations of one submission have
different baselines. One field, so a submission's events are written or not;
that a part of several is written, a second lead with a second event of one field,
and that the baseline of an item's snapshot and the one its events start from
can differ, need more fields or leads. With those the instance is too large; the theorems,
which have no bound, cover them.

Edits. Three operations: create, change, delete, or a field made a list, a tag added, a
tag removed. The baseline has a relation and two candidates, so that an operation
may hit the wrong record; the objects that `add_candidate` brings include one with the id
of another record and one whose id is null.

Migration. The files of a batch with one confirmed sample, with two old variants
(two configs of one content, a pointer without version); the databases are empty,
started by the backend, left by a stopped import, or used on. Three runs: stopped,
completed, repeated; or dry, real, repeated.

Symmetry is used for users, leases, (where `Blank` is empty) samples, tokens,
requests and archive names, in `pool_unlistable` of fields and leads, and never in a run with a liveness or
refinement property. Deadlock is not checked where the system may stop: when the
bounds are reached and nobody sends a request. `labels` and `pool` cannot stop and
do check it.

### Crashes

`OneActiveLeasePerSample`, `KeyAgreesWithRow`, `CompletedIsMaterialized` and
`SubmittedBatchIsClosed` hold across crashes between any two writes, and so do all
properties of the registry, the label configs, the pool and the migration, with what their
statements except. Writes that fail in a living process are in the registry, the label configs and
the pool, and the exceptions they need are as narrow as the code allows:
`RestartForgetsNothing` excepts a registry whose last write raised, until it is written again;
`WorkHasBatch` the ids of a deletion that raised before the work was gone, until a deletion
gets that far, and of an assignment on a queue id that is in no file; `PoolExplained`, `SourcesKept` and
`CompletedIsDownloadable` the submissions that a deletion left without their snapshots or events,
and nothing that is made afterwards; `HistoryKept` an id above every file when the process
is down; `ServedSurvives` is claimed until a write fails (then memory is
ahead of the files by design of `save`), and `ReferencesResolve` excepts the rows that are
imported before what they name, until a run is completed.
`LeasesOfAssignee`, `TasksFollowAssignment`, `NoLostUpdate`, `TaskTracksHistory` and
`LedgerRefined` do not, and the code does not promise them: a release cut short
leaves active leases, a submit cut short leaves a submission its task does not
know, which the retry stores again.

### Fairness

Nobody is obliged to send a request, so no request action is fair. The
only fairness is `WF_vars(Tick)`: time passes. `StaleKeysGoAway` follows from it
because no operation can refresh a key whose lease is over. The other components
promise nothing that must eventually happen: a stopped export or import job is never
resumed.

### Where the code and its documents differ

With a run:

* `docs/architecture/state-persistence-boundaries.md:94` counts sessions among the
  durable state; `resolve_session` saves the list it read from a thread of the pool
  (`auth.py:217`), and with it undoes a login or a logout that came in between. Run
  `auth_lost_session`; with one request at a time `SessionsKept` holds.
* `docs/backend/modules/export-search.md:10` promises the list of export jobs; once a batch
  that some job's filter names is deleted, the list fails for everybody
  (`service.py:3178`). Run `pool_unlistable`.

Met while modelling, and part of the models, without a run of their own:

* `tests/test_redis_runtime_backend.py:343` expects a logout to remove the cache entry;
  a request that read the list before puts it back (`auth.py:220`). What does hold is
  `LogoutIsFinal`: once those requests have ended and the entry has expired,
  nothing brings the token back.
* `docs/frontend/pages/sample-review.md:119` asks for an active lease to edit;
  `save_my_batch_draft` checks the lease only of an entry that names one
  (`service.py:5127`).
* `docs/backend/modules/label-edits.md:37` says that a batch submit submits the whole
  batch; `submit_label_edit_batch` submits the samples that have a draft, and marks the
  batch SUBMITTED (`service.py:5294`). The others can then be neither edited nor
  confirmed until the batch is reassigned.
* `docs/architecture/README.md:392` (BE-IMPORT-007) has an import confirmed only after a valid
  scan; `confirm_import_job` looks at neither (`service.py:6360`).
* `docs/architecture/README.md:428` (BE-CLOSED-001) wants baselines to be idempotent across
  restarts; a baseline is what is imported when a submission is confirmed
  (`service.py:1965`), so changed files give a second one. If then a confirmation is stopped
  before its events, a manual upsert makes an item whose snapshot is the edits on the
  new baseline and whose events are those from the old one. `PoolExplained` says what is
  left: each of the two agrees with a stored baseline.
* `docs/architecture/README.md:212` has a confirmed changed sample appear in the pool; a change of
  stage 1 fields alone has no event and no item (`service.py:1811`).
* `docs/backend/modules/dataset-types-batches.md:20` and `docs/architecture/deployment.md:277` have the
  deletion of a batch remove its state; one that raises in `clear_qc_dataset_state` or the pool removal
  (`service.py:3481`) has taken the batch out of memory and leaves its work stored. A batch registered under
  the id, which looks at memory alone (`service.py:6104`), takes that work over; so `WorkHasBatch` excepts
  such ids.
* A queue id whose registry write raised is in memory only; `assign_batch` makes tasks for it
  (`service.py:4571`), and the next start has a batch with tasks and no queue.
* A type whose write raised is in memory, and on no later start unless a batch or a label config names it;
  creating it again is refused as a duplicate meanwhile (`service.py:3550`).
* The id of a duplicate that the repair dropped, or of a failed save, is given to another config by the next
  process if no file has a greater one (`labels.py:507`), although tasks may have recorded it.
* `docs/architecture/README.md:75` has duplicate configs repaired; a migration of such a store
  aborts, although its dry run reports no conflict (`db/foundation.py:355`). `PlanIsKept`
  is therefore claimed of completed runs.

## 4. What is proved

Every theorem is for arbitrary, also infinite, sets (of samples, users, leases, tokens, slots,
uploads, fields, ...), arbitrary lifetimes and bounds, with or without Redis and its
outages, and with crashes unless the last column says otherwise.

| theorem | states | assumes |
|---|---|---|
| `TypeCorrect` | `Spec => []TypeOK` | - |
| `OneActive` | `Spec => []OneActiveLeasePerSample` | - |
| `AssigneeLeases` | `Spec => []LeasesOfAssignee` | `Crashes = FALSE` |
| `Materialized` | `Spec => []CompletedIsMaterialized` | - |
| `KeepsLedger` | `Spec => LedgerRefined` | `Crashes = FALSE` |
| `NoUpdateLost` | `Spec => []NoLostUpdate` | `Crashes = FALSE` |
| `SessionTypes` | `Spec => []TypeOK` (`AuthSession`) | - |
| `CacheEndsInTime` | `Spec => []CacheWithinSession` | - |
| `DeadStaysDead` | `Spec => LogoutIsFinal` | - |
| `RegistryTypes` | `Spec => []TypeOK` (`BatchRegistry`) | - |
| `RestartKeeps` | `Spec => []RestartForgetsNothing` | - |
| `WorkBelongs` | `Spec => []WorkHasBatch` | - |
| `SourceKept` | `Spec => SourceIsStable` | - |
| `PoolTypes` | `Spec => []TypeOK` (`CorrectionPool`) | - |
| `Explained` | `Spec => []PoolExplained` | - |
| `Kept` | `Spec => SourcesKept` | - |
| `Downloadable` | `Spec => []CompletedIsDownloadable` | - |
| `Settled` | `Spec => JobsSettle` | - |
| `MigrationTypes` | `Spec => []TypeOK` (`StateMigration`) | - |
| `NoOverwrite` | `Spec => NothingOverwritten` | - |
| `KeyAgrees` | `Spec => []KeyAgreesWithRow` | - |
| `SubmittedIsClosed` | `Spec => []SubmittedBatchIsClosed` | - |
| `TracksHistory` | `Spec => []TaskTracksHistory` | `Crashes = FALSE` |
| `TasksFollow` | `Spec => []TasksFollowAssignment` | `Crashes = FALSE` |
| `LiveAccepted` | `Spec => []LiveIsAccepted` | `Overlap = FALSE` |
| `SessionsStay` | `Spec => SessionsKept` | `Overlap = FALSE` |
| `CleanRunsCopy` | `Spec => []CleanRunCopiesAll` | `RivalsShow` |
| `RerunsAreIdempotent` | `Spec => RerunIsIdempotent` | `RivalsShow` |
| `PlansAreKept` | `Spec => PlanIsKept` | - |
| `NamesAreThere` | `Spec => []ReferencesResolve` | `NamesResolve` |
| `LabelTypes` | `Spec => []TypeOK` (`LabelConfig`) | - |
| `OneRowEach` | `Spec => []OneRowPerVersion` | - |
| `RestartServes` | `Spec => []ServedSurvives` | - |
| `HistoryStays` | `Spec => HistoryKept` | - |
| `ImplementsBook` | `Spec => BookRefined` | - |
| `EditTypes` | `Spec => []TypeOK` (`LabelEdits`) | - |
| `OneRecord` | `Spec => OneRecordAtATime` | - |
| `EventsLead` | `Spec => []EventsReplay` | - |

All rest on the assumptions on the constants of section 2, and on nothing else but the last column.
`Crashes = FALSE` and `Overlap = FALSE` are what the properties themselves are about (a stopped
handler, two requests at once break them, see below). The other two are about the files and
databases an import meets; the instance has them checked by an `ASSUME`:

* `RivalsShow`: where the database has a snapshot or an event of the key of one of the
  files under another id, some row of the same import is in conflict. The key names a submission
  or the baseline of a sample, and baselines are saved by confirmations only
  (`service.py:1967`): the sample was confirmed in that database too, by a history of its own, and its
  task or assignment, whose ids are the same, tells. Without it the claim is false: such a
  snapshot is reported as inserted and is not stored (`Insert`).
* `NamesResolve`: what the files and the databases name is there to begin with, along the
  references of `Naming`. A pointer may name a lost version; the command finds out.

Along which argument:

* `OneActive`. The only action that adds an ACTIVE row is `AcquireLease`, under
  `Current(s) = {}` and after `Expired(s)` has closed the due rows; so the invariant is
  inductive with `TypeOK`, and Redis plays no part in it: the proof shows that the
  rows alone give mutual exclusion and that Redis is only advisory.
* `AssigneeLeases`. Inductive once every way out of an editable assignment is
  seen to close the rows in the same action, which is where `Crashes = FALSE` enters:
  `Writes(k) = {k}`.
* `Materialized`. `task` becomes COMPLETED in `Confirm` alone, after the three other
  sets grew by the same submission; these sets never shrink, and an assignment
  keeps a completed task's status only.
* `KeepsLedger`. Each action is matched with a ledger step: `SaveDraft` with
  `Checkpoint`, both submits with `Submit` (of one sample, or of all drafted ones),
  `Confirm` with `Accept`, the rest with a stutter. `SubmitBatch` needs its own check
  `Ready`: the base of a draft is the task's revision.
* `NoUpdateLost`. A consequence of the ledger step: an entry is appended with the
  current revision, which then moves on, so bases strictly grow.

* `DeadStaysDead`. Needs two facts about requests in flight, inductive with the
  types: `LoginOwns` (a login past its queue holds the event loop and its token is
  not issued yet, so `Finish` cannot cache a dead token) and `TmpOwned` (the temporary
  file is the work of a request about to rename it, so `Rename` cannot store a list
  that no request carries).

* `RestartKeeps`, `SourceKept`. The invariant `Inv` says of the disk that a batch has the id of
  its slot and that its type, and each labelled type, is on file; of memory that it is
  what is on disk for every registry that is not `unsaved`, that a runtime's source is there, and
  that an upload under way is for a known type. Memory is changed before it is written, so a handler
  that raises leaves the two apart and notes it (`Notes`); every write is of all of memory and
  so heals what earlier ones have missed, and a handler that the process dies in ends in a
  start, which reads such a memory whatever it finds (`Leaves`). A source is replaced only while no
  batch has the id of its slot (`FreeSlot`), which also rules out the other slots with that id.
* `WorkBelongs`. Inductive with `Inv`: the queue id is on file before `generate_qc_queue` makes tasks, and a
  deletion takes the tasks and the pool rows before the row of the registry; crash points in
  between leave a batch without work, never work without a batch. Of failures only the two in `adrift`
  do not keep this, and the invariant shows that no id gets there in another way, nor out of it with
  its work.
* `Explained`. `Traced` keeps where things come from: a confirmed snapshot is the edits on a
  stored baseline (`Made`), an event is one of its submission's edits (`Meant`), with the
  database the events of a submission, if it has any, account for the edits that one
  stored baseline lacks (`Accounts`), an item has its snapshot and events (`Sourced`). A
  deletion is split by what it leaves (`DeleteLeaves`): whoever outlives snapshots or events
  is `torn` by it, and of the others all or nothing is there.
* `Downloadable`. What a file holds is what `_build_coco_payload` found stored (`Filed`), so a
  file has an item for each that the job counts (`WholeFile`); `ExportWrites` puts the file
  before the completed row, and a job that has ended is written no more, so that no stop
  and no failed write in between lets the row say more than the file. `Settled` is the last half of that.
* `KeyAgrees`. A row becomes current in `AcquireLease` alone, and the key comes to name a lease in
  `AcquireLease` and `ReacquireLease` alone: there the key names the new lease and the sample has
  no other row that is current (`OneActive`). Every other step takes rows out of `Current` or
  keys away (`NoneSpeaksUp`). Inductive with: no keys without Redis. Nothing is used of the two
  lifetimes, so key and row may end in either order.
* `SubmittedIsClosed`. `SubmitBatch` marks the batch last, and while it is so marked nobody can save a
  draft for its assignee or hand out a lease (`NoneReopened`); whoever takes the batch
  again unmarks it.
* `TracksHistory` is inductive as it stands, and uses `Crashes = FALSE` where a submission and its task
  are two writes. `TasksFollow` is with `Follows`: no task, no assignee; and a batch that is taken has all
  its tasks.
* `LiveAccepted`, `SessionsStay`. `Undisturbed` says of a request under way that the list it writes
  forgets and reopens nothing of the stored one, that the temporary file holds it until it is
  renamed, and that a token it has refused is not open; `OneByOne` says that the others are idle.
* `NoOverwrite`. Every step of a run adds rows that are absent (`Grows`), of which the types
  (`Shape`) are a consequence.
* `CleanRunsCopy`, `RerunsAreIdempotent`, `PlansAreKept`, `NamesAreThere`. `Ledger` says of each
  domain what a run has done to it so far, in terms of the database it started on: of the rows
  looked at (`Taken`) the report names those that were fresh, equal and in conflict (`ReportsOn`), the
  database has the fresh ones besides what it had (`WritesOf`); of the rest nothing. At the end
  of a run this is the verdict on all rows (`Planned`), which a dry run and a real one reach
  alike; and the order of the domains puts what is named before what names it
  (`NamedBefore`).
* `RestartServes`, `OneRowEach`, `HistoryStays`, `ImplementsBook`. `Inv` of `LabelConfig_proofs`: files and
  memory together name one content a version; memory has at most one row a config, of which
  one is active (`Sound`), has every config of the files under the same id (`Covers`) and
  no id above the counter; without a failed write it is what the files say. The normal form of
  such a view is the view itself, which is why a second load repairs nothing; and after
  any number of the steps of `Persisted` the files lie between the old and the new (`PersistedFiles`).
  A write that ends is a `Save` or an `Activate` of the book, and every write a `Tear`.
  `HistoryStays` needs of the history (`Means`, `Remembers`) that a row's id means its config, that while the
  process runs the counter is past every id that means something, dropped ones included, and that
  while it is down some file is: so `SaveNew` never takes such an id.
  The proof first failed, and for a reason: with what a start *would* serve as the book's active
  config, three failed saves of three versions on an empty store leave files whose newest version
  becomes another one without any call naming it. The book's active config is now what
  `active.json` says, and the instance is large enough to have told the two apart.
* `EventsLead`. Each record that the events touch has, event by event, the baseline's value
  before and the annotation's after; the candidates of the two payloads, whose ids tell them apart,
  are matched by id: both, one, or the other. Induction over lists is avoided throughout:
  positions are counted (`Omit`, `Ranked`), and where a least one is needed it is taken from the
  well-foundedness of the numbers (`LeastNumber`).
* `OneRecord`. Whatever the operation finds under the id, omitting the records of that id gives the
  same list before and after.

Out of the prover's reach, and left to TLC: liveness, that is `StaleKeysGoAway`. The two properties
that the code does not have (`SessionsKept` where requests overlap, `ExportsListable`) are shown by
their counterexamples. Every other property of a run is a theorem, for the hypotheses above.

## 5. Not modelled

* RBAC evaluation (`permissions.py`): a predicate without state, by tables; the models take
  an actor to have the right role.
* Users and role bindings: whole lists read, changed and saved, from the threadpool too: the
  pattern of `AuthSession` on two more files, with the same consequences.
* Training evaluations: rows stored once as given. Live import progress: read
  by responses only. The fixture batch: a development aid kept in memory.
* Reads, summaries, analytics and response building; audit events: no handler that changes
  other state reads them.
* The importer's parsing (its outcome is whether a source can be ingested, and which
  annotations it holds), the HTTP layer (what matters of it is which handler awaits),
  deployment and schema files, the frontend.

## 6. Plan

1. *(done)* `LeaseLock`, `QcWorkflow`, `ReviewLedger`, `AuthSession` and their proofs.
2. *(done)* `BatchRegistry`, `LabelConfig` with `LabelBook`, `CorrectionPool`, `LabelEdits`,
   `StateMigration`.
3. *(done)* `BatchRegistry_proofs`, `CorrectionPool_proofs`, `StateMigration_proofs`, `LabelConfig_proofs`
   with the refinement of `LabelBook`, `LabelEdits_proofs`.
4. *(done)* The remaining invariants of the workflow and of `AuthSession`.
5. Users and role bindings beside `AuthSession`; a second slot of the same batch id.
