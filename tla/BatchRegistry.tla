--------------------------- MODULE BatchRegistry ---------------------------
(***************************************************************************)
(* Dataset types, the registry of concrete batches and their import jobs,  *)
(* as service.py keeps them: in memory, and in a registry file (or table)  *)
(* that is rewritten as a whole.  Beside it, what hangs on a batch: the    *)
(* ingested runtime, the source directory of an uploaded archive, the QC   *)
(* tasks and sample pool rows of the state store, the runtime locks.       *)
(*                                                                         *)
(* One process serves all requests.  A handler is one atomic action that   *)
(* changes memory first and then writes.  It may end after any n of its    *)
(* writes: the process dies and is started again, which loads memory from  *)
(* the files, or the next write raises, the request ends with an error and *)
(* the process goes on with memory as changed.  The archive upload is the  *)
(* only handler that awaits, so it is three actions, of several requests   *)
(* at once.                                                                *)
(*                                                                         *)
(* Left out: the counts, names and warnings of a summary or a job; the     *)
(* lifecycle shown for a batch, which no handler reads; the live import    *)
(* progress in Redis, which only responses read; the fixture batch.        *)
(***************************************************************************)
EXTENDS Naturals, Sequences, FiniteSets

CONSTANTS
    TypeIds,      \* dataset type ids, as sequences of atoms
    Slots,        \* pairs of a type id and a batch key, a sequence of atoms too
    Names,        \* archive file names the clients send
    Uploads,      \* upload requests
    Annotated,    \* those whose archive holds STEP1/STEP2 outputs
    Phases,       \* the import phases that are requested
    NoBatch, NoFile, Nobody,
    MaxHeld,      \* bound on the runtime locks crashes leave at one time
    MaxUnhealed,  \* bound on what failed requests leave unhealed at one time
    FileStore,    \* is the QC state in files, which a deletion unlinks one by one?
    Crashes       \* may the process stop between two writes?

JobState == {"draft", "scanning", "validation_passed", "imported"}

\* A registered batch with its import job: full when it was declared
\* images_with_preannotations, queued once it has a qc_queue_id.
Row == [slot : Slots, full : BOOLEAN, uploaded : BOOLEAN,
        state : JobState, queued : BOOLEAN]

ASSUME BatchRegistryAssumption ==
    /\ \A o \in Slots : o[1] \in TypeIds
    /\ Annotated \subseteq Uploads
    /\ Phases \subseteq {"scan", "validate", "confirm", "retry"}
    /\ NoBatch \notin Row
    /\ NoFile \notin Uploads /\ Nobody \notin Uploads /\ NoFile # Nobody
    /\ MaxHeld \in Nat /\ MaxUnhealed \in Nat
    /\ FileStore \in BOOLEAN /\ Crashes \in BOOLEAN

VARIABLES
    types, typeFile,     \* the dataset types in memory and on file
    batches, batchFile,  \* [Ids -> row]: the registry in memory and on file
    runtimes,            \* ids of the batches whose source was ingested
    source,              \* source[o]: the extracted upload at slot o
    labelled,            \* types with an active label config
    tasks,               \* tasks[id]: the batch's QC state: stored with its tasks,
                         \* or torn, some files of it without the tasks
    pool,                \* ids of the batches with sample pool rows
    held,                \* <<scope, id>>: runtime locks a crash left in Redis
    tmp,                 \* tmp[f]: the .uploading file of slot and name f
    upload,              \* upload[p]: what request p is doing
    \* What the failed requests leave to be said (history).
    unsaved,             \* registries a failed request left unwritten, not written since
    adrift               \* ids whose work the registry may not account for

memory == <<types, batches, runtimes>>
files == <<typeFile, batchFile, source>>
work == <<tasks, pool>>
transfer == <<tmp, upload>>
history == <<unsaved, adrift>>
vars == <<memory, files, labelled, work, held, transfer, history>>

-----------------------------------------------------------------------------
\* Slots and ids.  Two slots may give one id: type a, key b__c and type a__b,
\* key c.
BatchId(o) == o[1] \o <<"__">> \o o[2]
Ids == {BatchId(o) : o \in Slots}

Scopes == {"scan", "validate", "confirm", "retry", "queue"}

Files == Slots \X Names

Registered(reg) == {id \in Ids : reg[id] # NoBatch}

\* The archives that hold what a batch is declared to have.
Fit(full) == IF full THEN Annotated ELSE Uploads

\* _build_registered_batch_runtime: the source can be read and, if the row says
\* so, holds STEP outputs.  The server directory a source_uri names has them; it
\* may be readable at one time and not at another.
Ingestible(row, src, readable) ==
    IF row.uploaded THEN src[row.slot] \in Fit(row.full) ELSE readable

\* Mutant: a batch's slot is taken for its dataset type.
LoadedSlots(tf, bf) == tf \cup labelled \cup {bf[id].slot : id \in Registered(bf)}

\* _load_registered_batches and _load_dataset_type_registry at start-up.
LoadedTypes(tf, bf) ==
    tf \cup labelled \cup {bf[id].slot[1] : id \in Registered(bf)}
LoadedRuntimes(bf, src, readable) ==
    {id \in Registered(bf) : Ingestible(bf[id], src, readable)}

Idle == [at |-> "idle", file |-> Nobody, linked |-> FALSE]

\* How a handler of k steps (its writes, the release of its lock) ends, n of them
\* made: it answers, the next step raises, or the process dies.
Ends(end, n, k) ==
    /\ n \in 0..k
    /\ end = "done" <=> n = k
    /\ end = "failed" => Cardinality(unsaved) + Cardinality(adrift) < MaxUnhealed
    /\ end = "crashed" => Crashes

\* The memory a handler leaves that built ty, reg, rt and up; after a crash, what
\* the start loads.
Leaves(end, ty, reg, rt, up) ==
    LET crashed == end = "crashed"
    IN  /\ types' = IF crashed THEN LoadedTypes(typeFile', batchFile') ELSE ty
        /\ batches' = IF crashed THEN batchFile' ELSE reg
        /\ runtimes' \in IF crashed
                         THEN {LoadedRuntimes(batchFile', source', r) : r \in BOOLEAN}
                         ELSE {rt}
        /\ upload' = IF crashed THEN [p \in Uploads |-> Idle] ELSE up

\* What is noted of a handler that changed registry r.  A write makes up for the
\* ones that failed, since it writes all of memory.  A start makes up for the
\* batches, not for the types, some of which it only finds in other files.
Notes(end, r, wrote) ==
    LET noted == IF wrote THEN unsaved \ {r}
                 ELSE IF end = "failed" THEN unsaved \cup {r} ELSE unsaved
    IN  unsaved' = IF end = "crashed" THEN noted \ {"batches"} ELSE noted

Init ==
    /\ types = {} /\ typeFile = {}
    /\ batches = [id \in Ids |-> NoBatch] /\ batchFile = batches
    /\ runtimes = {}
    /\ source = [o \in Slots |-> Nobody]
    /\ labelled = {}
    /\ tasks = [id \in Ids |-> "none"]
    /\ pool = {}
    /\ held = {}
    /\ tmp = [f \in Files |-> NoFile]
    /\ upload = [p \in Uploads |-> Idle]
    /\ unsaved = {} /\ adrift = {}

-----------------------------------------------------------------------------
\* Types.

\* create_dataset_type.  Nothing compares the new id with the ids of batches.  A
\* type whose write failed exists for the process, and cannot be created again.
CreateType(t, n, end) ==
    /\ Ends(end, n, 1)
    /\ t \notin types
    /\ typeFile' = IF n = 1 THEN types \cup {t} ELSE typeFile
    /\ UNCHANGED <<batchFile, source, labelled, work, held, tmp, adrift>>
    /\ Leaves(end, types \cup {t}, batches, runtimes, upload)
    /\ Notes(end, "types", n = 1)

\* A label config of the type, which has slots, is saved, and with that active.
ActivateLabels(t) ==
    /\ t \in types
    /\ labelled' = labelled \cup {t}
    /\ UNCHANGED <<memory, files, work, held, transfer, history>>

-----------------------------------------------------------------------------
\* Registration.

\* _create_registered_batch_import_job: a readable source is ingested at once
\* and the job is IMPORTED; otherwise it stays a DRAFT.  The batch is in memory
\* before the registry is written, and stays there when the write fails.
Register(o, full, uploaded, ingested, up, n, end) ==
    LET id == BatchId(o)
        row == [slot |-> o, full |-> full, uploaded |-> uploaded,
                state |-> "draft", queued |-> FALSE]
        reg == [batches EXCEPT ![id] =
                  IF ingested THEN [row EXCEPT !.state = "imported"] ELSE row]
    IN  /\ Ends(end, n, 1)
        /\ batchFile' = IF n = 1 THEN reg ELSE batchFile
        /\ Leaves(end, types, reg, IF ingested THEN runtimes \cup {id} ELSE runtimes, up)
        /\ Notes(end, "batches", n = 1)

\* create_import_job with a batch_key and a source_uri on the server.
CreateImportJob(o, full, n, end) ==
    /\ o[1] \in types
    /\ batches[BatchId(o)] = NoBatch
    /\ UNCHANGED <<typeFile, source, labelled, work, held, tmp, adrift>>
    /\ \E readable \in BOOLEAN : Register(o, full, FALSE, readable, upload, n, end)

-----------------------------------------------------------------------------
\* The archive upload: the body is streamed to a temporary file whose name
\* depends on the slot and the archive's file name, not on the request.

\* The contents of that file once p has written its body: p's or, when another
\* request had it open too, perhaps nobody's archive.
Mixed == "mixed"
Open(f) == {p \in Uploads : upload[p].file = f /\ upload[p].linked}

\* prepare_import_archive_upload_path and open("wb"), which empties the file
\* also under a request that is writing it.
OpenUpload(p, f) ==
    /\ upload[p] = Idle
    /\ f[1][1] \in types
    /\ batches[BatchId(f[1])] = NoBatch
    /\ tmp' = [tmp EXCEPT ![f] = Nobody]
    /\ upload' = [upload EXCEPT ![p] = [at |-> "streaming", file |-> f, linked |-> TRUE]]
    /\ UNCHANGED <<memory, files, labelled, work, held, history>>

\* The awaited chunks.  A request whose file was renamed or unlinked under it
\* writes to that file, not to the one of the name now.
StreamBody(p) ==
    LET f == upload[p].file
    IN  /\ upload[p].at = "streaming"
        /\ upload' = [upload EXCEPT ![p].at = "written"]
        /\ \E body \in IF ~upload[p].linked THEN {tmp[f]}
                       ELSE IF tmp[f] = Nobody /\ Open(f) = {p} THEN {p}
                       ELSE {p, Mixed} :
             tmp' = [tmp EXCEPT ![f] = body]
        /\ UNCHANGED <<memory, files, labelled, work, held, history>>

\* p is over and the name is gone; who else had the file open keeps it without.
WithoutName(p, f) ==
    [q \in Uploads |-> IF q = p THEN Idle
                       ELSE [upload[q] EXCEPT !.linked = @ /\ upload[q].file # f]]

\* The body is empty, too large or cut off, or another request's rename took
\* the file away: the temporary file of the name is unlinked, whoever owns it.
AbortUpload(p) ==
    /\ \/ upload[p].at = "streaming"
       \/ upload[p].at = "written" /\ tmp[upload[p].file] = NoFile
    /\ tmp' = [tmp EXCEPT ![upload[p].file] = NoFile]
    /\ upload' = WithoutName(p, upload[p].file)
    /\ UNCHANGED <<memory, files, labelled, work, held, history>>

\* Mutant: the availability check is not repeated after the upload.
StillFreeUnchecked(o) == TRUE

\* create_import_job_from_archive looks the slot up again.
StillFree(o) == batches[BatchId(o)] = NoBatch

\* A whole archive that can be extracted and holds a batch; of two bodies mixed
\* that is taken to be impossible.
Extractable(body) == body \in Uploads

\* The rename and create_import_job_from_archive, without an await: whatever is
\* in the file, if it is an archive and its extraction ends, replaces the slot's
\* source, which is removed first.
FinishUpload(p, full, n, end) ==
    LET f == upload[p].file
        o == f[1]
        up == WithoutName(p, f)
    IN  /\ upload[p].at = "written"
        /\ tmp[f] # NoFile
        /\ tmp' = [tmp EXCEPT ![f] = NoFile]
        /\ UNCHANGED <<typeFile, labelled, work, held, adrift>>
        /\ \/ /\ ~StillFree(o)
              /\ UNCHANGED <<source, batchFile, unsaved>>
              /\ Ends(end, n, 0) /\ Leaves(end, types, batches, runtimes, up)
           \/ /\ StillFree(o)
              /\ source' = [source EXCEPT ![o] = Nobody]
              /\ UNCHANGED <<batchFile, unsaved>>
              /\ Ends(end, n, 0) /\ Leaves(end, types, batches, runtimes, up)
           \/ /\ StillFree(o) /\ Extractable(tmp[f])
              /\ source' = [source EXCEPT ![o] = tmp[f]]
              /\ Register(o, full, TRUE, tmp[f] \in Fit(full), up, n, end)

-----------------------------------------------------------------------------
\* Runtime locks (try_acquire_lock): taken and given back within one handler,
\* also when it raises, unless the process dies in between.
Unlocked(scope, id, end) ==
    /\ <<scope, id>> \notin held
    /\ end = "crashed" => Cardinality(held) < MaxHeld
Held(scope, id, end) == IF end = "crashed" THEN held \cup {<<scope, id>>} ELSE held

\* Import phases, each under a runtime lock of its own scope.  None of them
\* looks at the state of the job, and none ingests the source.
StateAfter ==
    [scan |-> "scanning", validate |-> "validation_passed",
     confirm |-> "imported", retry |-> "draft"]

\* Mutant: the job is replaced in memory and the registry is not written.
PhaseNotSaved(reg) == batchFile

\* _update_registered_batch_from_job writes the whole registry.
Saved(reg) == reg

\* scan_import_job, validate_import_job, confirm_import_job, retry_import_job.
\* A crash leaves the lock to its time to live.
Phase(scope, id, n, end) ==
    LET reg == [batches EXCEPT ![id].state = StateAfter[scope]]
    IN  /\ Ends(end, n, 2)
        /\ batches[id] # NoBatch
        /\ Unlocked(scope, id, end)
        /\ held' = Held(scope, id, end)
        /\ batchFile' = IF n = 0 THEN batchFile ELSE Saved(reg)
        /\ UNCHANGED <<typeFile, source, labelled, work, tmp, adrift>>
        /\ Leaves(end, types, reg, runtimes, upload)
        /\ Notes(end, "batches", n >= 1)

-----------------------------------------------------------------------------
\* The queue, and the QC work on it (module QcWorkflow has the details).

\* What generate_qc_queue asks of the batch.
Queueable(id) ==
    /\ batches[id] # NoBatch
    /\ batches[id].full
    /\ id \in runtimes
    /\ batches[id].slot[1] \in labelled

\* generate_qc_queue: the registry with the queue id, then the tasks.
GenerateQueue(id, n, end) ==
    LET reg == [batches EXCEPT ![id].queued = TRUE]
    IN  /\ Ends(end, n, 3)
        /\ Queueable(id)
        /\ Unlocked("queue", id, end)
        /\ held' = Held("queue", id, end)
        /\ batchFile' = IF n = 0 THEN batchFile ELSE reg
        /\ tasks' = IF n >= 2 THEN [tasks EXCEPT ![id] = "stored"] ELSE tasks
        /\ UNCHANGED <<typeFile, source, labelled, pool, tmp, adrift>>
        /\ Leaves(end, types, reg, runtimes, upload)
        /\ Notes(end, "batches", n >= 1)

\* assign_batch makes the tasks that are missing too, of a batch that has a queue
\* id in memory; it writes no registry.
AssignBatch(id) ==
    /\ batches[id] # NoBatch /\ batches[id].queued
    /\ id \in runtimes
    /\ tasks' = [tasks EXCEPT ![id] = "stored"]
    /\ adrift' = IF "batches" \in unsaved THEN adrift \cup {id} ELSE adrift
    /\ UNCHANGED <<memory, files, labelled, pool, held, transfer, unsaved>>

\* A changed sample of the batch is confirmed and enters the sample pool.
Correct(id) ==
    /\ batches[id] # NoBatch
    /\ tasks[id] = "stored"
    /\ pool' = pool \cup {id}
    /\ UNCHANGED <<memory, files, labelled, tasks, held, transfer, history>>

-----------------------------------------------------------------------------
\* What is left of the QC state of a batch after a clear_qc_dataset_state that
\* did not end: all of it or, of files, any part.
Remains(id) ==
    IF FileStore /\ tasks[id] # "none" THEN {tasks[id], "torn"} ELSE {tasks[id]}

\* The ids whose work a deletion of id that ended so, with the work gone or not,
\* leaves to nobody.
Adrift(id, end, gone) ==
    IF gone THEN adrift \ {id} ELSE IF end = "failed" THEN adrift \cup {id} ELSE adrift

\* Mutant: the registry is written before the batch's state is removed.
DeleteRegistryFirst(id, n, end) ==
    LET reg == [batches EXCEPT ![id] = NoBatch]
    IN  /\ Ends(end, n, 3)
        /\ id \notin types
        /\ batches[id] # NoBatch
        /\ batchFile' = IF n >= 1 THEN reg ELSE batchFile
        /\ \E left \in IF n >= 2 THEN {"none"} ELSE Remains(id) :
             tasks' = [tasks EXCEPT ![id] = left]
        /\ pool' = IF n = 3 THEN pool \ {id} ELSE pool
        /\ adrift' = Adrift(id, end, n = 3)
        /\ UNCHANGED <<typeFile, source, labelled, held, tmp>>
        /\ Leaves(end, types, reg, runtimes \ {id}, upload)
        /\ Notes(end, "batches", n >= 1)

\* delete_dataset_batch: memory, the QC state, the pool rows, the registry.  An
\* uploaded source stays on disk; so does a lease key in Redis.  A batch whose
\* id is also the id of a type cannot be deleted.
DeleteBatch(id, n, end) ==
    LET reg == [batches EXCEPT ![id] = NoBatch]
    IN  /\ Ends(end, n, 3)
        /\ id \notin types
        /\ batches[id] # NoBatch
        /\ \E left \in IF n >= 1 THEN {"none"} ELSE Remains(id) :
             tasks' = [tasks EXCEPT ![id] = left]
        /\ pool' = IF n >= 2 THEN pool \ {id} ELSE pool
        /\ batchFile' = IF n = 3 THEN reg ELSE batchFile
        /\ adrift' = Adrift(id, end, n >= 2)
        /\ UNCHANGED <<typeFile, source, labelled, held, tmp>>
        /\ Leaves(end, types, reg, runtimes \ {id}, upload)
        /\ Notes(end, "batches", n = 3)

\* The process stops between two requests and is started again.
Restart ==
    /\ Crashes
    /\ UNCHANGED <<files, labelled, work, held, tmp, adrift>>
    /\ Leaves("crashed", types, batches, runtimes, upload)
    /\ Notes("crashed", "batches", FALSE)

\* A lock nobody released ends with its time to live.
LockExpires(k) ==
    /\ k \in held
    /\ held' = held \ {k}
    /\ UNCHANGED <<memory, files, labelled, work, transfer, history>>

Next ==
    \/ \E n \in 0..3, end \in {"done", "failed", "crashed"} :
         \/ \E t \in TypeIds : CreateType(t, n, end)
         \/ \E o \in Slots, full \in BOOLEAN : CreateImportJob(o, full, n, end)
         \/ \E p \in Uploads, full \in BOOLEAN : FinishUpload(p, full, n, end)
         \/ \E id \in Ids :
              \/ \E scope \in Phases : Phase(scope, id, n, end)
              \/ GenerateQueue(id, n, end)
              \/ DeleteBatch(id, n, end)
    \/ \E o \in Slots : ActivateLabels(o[1])
    \/ \E p \in Uploads :
         \/ \E f \in Files : OpenUpload(p, f)
         \/ StreamBody(p) \/ AbortUpload(p)
    \/ \E id \in Ids : AssignBatch(id) \/ Correct(id)
    \/ \E k \in Scopes \X Ids : LockExpires(k)
    \/ Restart

Spec == Init /\ [][Next]_vars

-----------------------------------------------------------------------------
TypeOK ==
    /\ types \in SUBSET TypeIds /\ typeFile \in SUBSET TypeIds
    /\ batches \in [Ids -> Row \cup {NoBatch}]
    /\ batchFile \in [Ids -> Row \cup {NoBatch}]
    /\ runtimes \in SUBSET Ids
    /\ source \in [Slots -> Uploads \cup {Nobody}]
    /\ labelled \in SUBSET TypeIds
    /\ tasks \in [Ids -> {"none", "torn", "stored"}]
    /\ pool \in SUBSET Ids
    /\ held \in SUBSET (Scopes \X Ids)
    /\ tmp \in [Files -> Uploads \cup {NoFile, Nobody, Mixed}]
    /\ upload \in [Uploads ->
         [at : {"idle", "streaming", "written"}, file : Files \cup {Nobody}, linked : BOOLEAN]]
    /\ unsaved \in SUBSET {"types", "batches"}
    /\ adrift \in SUBSET Ids

\* "Fresh app from same PLATFORM_STATE_ROOT lists the batch" (BE-BATCH-003):
\* between two requests a restart would bring back exactly the types, batches,
\* job states and queue ids that are in memory, and no runtime that is there is
\* lost unless the server directory has gone.  A request whose write raised
\* breaks this for its registry, until any later request writes that registry
\* (for the batches also until the process is started again).
RestartForgetsNothing ==
    /\ "batches" \notin unsaved =>
         /\ batches = batchFile
         /\ \A id \in runtimes : batches[id].uploaded =>
              id \in LoadedRuntimes(batchFile, source, FALSE)
    /\ "types" \notin unsaved => types = LoadedTypes(typeFile, batchFile)

\* QC state and sample pool rows exist only for a batch that is registered, with
\* STEP outputs and its queue id, in memory and (for the next start) in the
\* registry file: no crash in a queue generation or a deletion, no failed
\* registration and no failed queue generation leaves work that a later batch of
\* the same id would inherit.  Two failures do, and are excepted (adrift): a
\* deletion that raises before the work is gone, since it has taken the batch
\* out of memory, where alone a registration looks; and an assignment while the
\* queue id is not on file.  A deletion that gets to the end of the work heals it.
WorkHasBatch ==
    \A id \in Ids \ adrift : tasks[id] # "none" \/ id \in pool =>
        \A reg \in {batches, batchFile} :
            reg[id] # NoBatch /\ reg[id].full /\ reg[id].queued

\* The source of a registered upload is never replaced or removed: not by an
\* upload of the same slot that began before the batch was registered, nor by
\* one of another slot with the same id.
SourceIsStable ==
    [][\A id \in Ids : batches[id] # NoBatch /\ batches'[id] # NoBatch =>
         LET o == batches[id].slot IN batches[id].uploaded => source'[o] = source[o]]_vars

=============================================================================
