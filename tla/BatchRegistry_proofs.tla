----------------------- MODULE BatchRegistry_proofs ------------------------
(***************************************************************************)
(* Theorems about BatchRegistry for any types, slots (also slots that      *)
(* share an id), archive names, uploads, left-over locks and failed        *)
(* requests, with and without crashes.                                     *)
(***************************************************************************)
EXTENDS BatchRegistry, TLAPS

\* What a request is doing.
UploadState ==
    [at : {"idle", "streaming", "written"}, file : Files \cup {Nobody}, linked : BOOLEAN]

\* A registry whose batches have the id of their slot, a type of ty and, with a
\* queue, STEP outputs.
Sound(reg, ty) ==
    /\ reg \in [Ids -> Row \cup {NoBatch}]
    /\ \A id \in Ids : reg[id] # NoBatch =>
         /\ BatchId(reg[id].slot) = id /\ reg[id].slot[1] \in ty
         /\ reg[id].queued => reg[id].full

\* Runtimes whose source is there.
Fed(rt, reg, src) ==
    /\ rt \in SUBSET Ids
    /\ \A id \in rt : reg[id] # NoBatch
         /\ (reg[id].uploaded => src[reg[id].slot] \in Fit(reg[id].full))

\* Upload requests of types in ty.
Running(up, ty) ==
    /\ up \in [Uploads -> UploadState]
    /\ \A p \in Uploads : up[p].at # "idle" => up[p].file \in Files /\ up[p].file[1][1] \in ty

\* The types: memory has those of every file, and nothing else unless a write failed.
TypesOK ==
    /\ types \in SUBSET TypeIds /\ typeFile \subseteq types /\ labelled \subseteq types
    /\ unsaved \in SUBSET {"types", "batches"}
    /\ "types" \notin unsaved => types = typeFile

\* The registry, in memory and on file: the same unless a write failed.
BatchesOK ==
    /\ Sound(batches, types) /\ Sound(batchFile, types)
    /\ "batches" \notin unsaved => batches = batchFile
    /\ Fed(runtimes, batches, source)

\* What hangs on the batches.
RestOK ==
    /\ source \in [Slots -> Uploads \cup {Nobody}]
    /\ tasks \in [Ids -> {"none", "torn", "stored"}]
    /\ pool \in SUBSET Ids /\ adrift \in SUBSET Ids
    /\ held \in SUBSET (Scopes \X Ids)
    /\ tmp \in [Files -> Uploads \cup {NoFile, Nobody, Mixed}]

Inv == TypesOK /\ BatchesOK /\ RestOK /\ Running(upload, types)

\* A slot has a known id.
LEMMA SlotId == \A o \in Slots : BatchId(o) \in Ids
BY DEF Ids

\* The invariant gives the type invariant.
LEMMA InvTypes == Inv => TypeOK
BY DEF Inv, TypesOK, BatchesOK, RestOK, Running, Sound, Fed, TypeOK, UploadState

\* It gives the agreement of memory and file too.
LEMMA InvRestart == Inv => RestartForgetsNothing
<1> SUFFICES ASSUME Inv PROVE RestartForgetsNothing
  OBVIOUS
<1>1. ASSUME "batches" \notin unsaved
      PROVE  batches = batchFile /\ \A id \in runtimes : batches[id].uploaded =>
               id \in LoadedRuntimes(batchFile, source, FALSE)
  BY <1>1 DEF Inv, BatchesOK, Fed, LoadedRuntimes, Registered, Ingestible
<1>2. ASSUME "types" \notin unsaved
      PROVE  types = LoadedTypes(typeFile, batchFile)
  BY <1>2 DEF Inv, TypesOK, BatchesOK, Sound, LoadedTypes, Registered
<1> QED
  BY <1>1, <1>2 DEF RestartForgetsNothing

\* Initially there is nothing.
LEMMA InitInv == Init => Inv
<1> SUFFICES ASSUME Init PROVE Inv
  OBVIOUS
<1>1. Idle \in UploadState /\ Idle.at = "idle"
  BY DEF Idle, UploadState
<1>2. TypesOK /\ RestOK
  BY DEF Init, TypesOK, RestOK
<1>3. BatchesOK
  BY DEF Init, BatchesOK, Sound, Fed
<1>4. Running(upload, types)
  BY <1>1 DEF Init, Running
<1> QED
  BY <1>2, <1>3, <1>4 DEF Inv

-----------------------------------------------------------------------------
\* How a handler ends.

\* A start loads the types of the files, which memory had before it, the registry
\* of the file and the runtimes whose source is there.
LEMMA Reload ==
    ASSUME Inv, RestOK', UNCHANGED <<typeFile, labelled>>, Sound(batchFile', types),
           NEW ty, NEW reg, NEW rt, NEW up, Leaves("crashed", ty, reg, rt, up),
           unsaved' \in SUBSET {"types", "batches"},
           "types" \in unsaved => "types" \in unsaved'
    PROVE  Inv'
<1>1. /\ types' = LoadedTypes(typeFile', batchFile') /\ batches' = batchFile'
      /\ \E r \in BOOLEAN : runtimes' = LoadedRuntimes(batchFile', source', r)
      /\ upload' = [p \in Uploads |-> Idle]
  BY DEF Leaves
<1>2. /\ types' = typeFile \cup labelled \cup {batchFile'[id].slot[1] :
                     id \in {i \in Ids : batchFile'[i] # NoBatch}}
  BY <1>1 DEF LoadedTypes, Registered
<1>3. /\ types' \subseteq types /\ typeFile' \subseteq types' /\ labelled' \subseteq types'
      /\ \A id \in Ids : batchFile'[id] # NoBatch => batchFile'[id].slot[1] \in types'
  BY <1>2 DEF Inv, TypesOK, Sound
<1>4. TypesOK'
  BY <1>3 DEF Inv, TypesOK
<1>5. Sound(batchFile', types') /\ Sound(batches', types')
  BY <1>1, <1>3 DEF Sound
<1>6. Fed(runtimes', batches', source')
  BY <1>1 DEF Fed, LoadedRuntimes, Registered, Ingestible
<1>7. Idle \in UploadState /\ Idle.at = "idle"
  BY DEF Idle, UploadState
<1>8. Running(upload', types')
  BY <1>1, <1>7 DEF Running
<1>9. BatchesOK'
  BY <1>1, <1>5, <1>6 DEF BatchesOK
<1> QED
  BY <1>4, <1>8, <1>9 DEF Inv

\* A handler that makes reg of the registry, and writes it or not, keeps the
\* invariant however it ends.
LEMMA Rewrites ==
    ASSUME Inv, NEW end \in {"done", "failed", "crashed"}, NEW wrote \in BOOLEAN,
           NEW reg, NEW rt, NEW up,
           Sound(reg, types), Fed(rt, reg, source'), Running(up, types),
           batchFile' = (IF wrote THEN reg ELSE batchFile), end = "done" => wrote,
           Leaves(end, types, reg, rt, up), Notes(end, "batches", wrote),
           UNCHANGED <<typeFile, labelled>>, RestOK'
    PROVE  Inv'
<1>1. Sound(batchFile', types)
  BY DEF Inv, BatchesOK
<1>2. unsaved' = (IF end = "crashed" \/ wrote THEN unsaved \ {"batches"}
                  ELSE IF end = "failed" THEN unsaved \cup {"batches"} ELSE unsaved)
  BY DEF Notes
<1>3. unsaved' \in SUBSET {"types", "batches"} /\ ("types" \in unsaved <=> "types" \in unsaved')
  BY <1>2 DEF Inv, TypesOK
<1>4. CASE end = "crashed"
  BY <1>1, <1>3, <1>4, Reload
<1>5. CASE end # "crashed"
  <2>1. types' = types /\ batches' = reg /\ runtimes' = rt /\ upload' = up
    BY <1>5 DEF Leaves
  <2>2. TypesOK'
    BY <1>3, <2>1 DEF Inv, TypesOK
  <2>3. "batches" \notin unsaved' => batches' = batchFile'
    BY <1>2, <1>5, <2>1
  <2>4. BatchesOK'
    BY <1>1, <2>1, <2>3 DEF BatchesOK
  <2> QED
    BY <2>1, <2>2, <2>4 DEF Inv
<1> QED
  BY <1>4, <1>5

-----------------------------------------------------------------------------
\* The registries the handlers make.

\* A job state is a state of a row.
LEMMA PhaseRow ==
    ASSUME Inv, NEW id \in Ids, batches[id] # NoBatch, NEW scope \in Phases
    PROVE  LET reg == [batches EXCEPT ![id].state = StateAfter[scope]]
           IN  /\ Sound(reg, types)
               /\ \A i \in Ids : batches[i] # NoBatch =>
                    /\ reg[i] # NoBatch /\ reg[i].slot = batches[i].slot
                    /\ reg[i].full = batches[i].full /\ reg[i].uploaded = batches[i].uploaded
                    /\ reg[i].queued = batches[i].queued
<1>1. StateAfter[scope] \in JobState
  BY BatchRegistryAssumption DEF StateAfter, JobState
<1>2. batches \in [Ids -> Row \cup {NoBatch}] /\ batches[id] \in Row
  BY DEF Inv, BatchesOK, Sound
<1>3. [batches[id] EXCEPT !.state = StateAfter[scope]] \in Row
  BY <1>1, <1>2 DEF Row
<1> DEFINE reg == [batches EXCEPT ![id].state = StateAfter[scope]]
<1>4. /\ reg \in [Ids -> Row \cup {NoBatch}]
      /\ \A i \in Ids : reg[i] # NoBatch => batches[i] # NoBatch
      /\ \A i \in Ids : batches[i] # NoBatch =>
           /\ reg[i] # NoBatch /\ reg[i].slot = batches[i].slot
           /\ reg[i].full = batches[i].full /\ reg[i].uploaded = batches[i].uploaded
           /\ reg[i].queued = batches[i].queued
  BY <1>2, <1>3, BatchRegistryAssumption DEF Row
<1> HIDE DEF reg
<1>5. Sound(reg, types)
  BY <1>4 DEF Inv, BatchesOK, Sound
<1> QED
  BY <1>4, <1>5 DEF reg

\* So is a row with its queue id.
LEMMA QueueRow ==
    ASSUME Inv, NEW id \in Ids, batches[id] # NoBatch, batches[id].full
    PROVE  LET reg == [batches EXCEPT ![id].queued = TRUE]
           IN  /\ Sound(reg, types)
               /\ \A i \in Ids : batches[i] # NoBatch =>
                    /\ reg[i] # NoBatch /\ reg[i].slot = batches[i].slot
                    /\ reg[i].full = batches[i].full /\ reg[i].uploaded = batches[i].uploaded
                    /\ reg[i].queued = batches[i].queued \/ i = id
               /\ reg[id].queued
<1>1. batches \in [Ids -> Row \cup {NoBatch}] /\ batches[id] \in Row
  BY DEF Inv, BatchesOK, Sound
<1>2. [batches[id] EXCEPT !.queued = TRUE] \in Row
  BY <1>1 DEF Row
<1> DEFINE reg == [batches EXCEPT ![id].queued = TRUE]
<1>3. /\ reg \in [Ids -> Row \cup {NoBatch}]
      /\ \A i \in Ids : reg[i] # NoBatch => batches[i] # NoBatch
      /\ \A i \in Ids : batches[i] # NoBatch =>
           /\ reg[i] # NoBatch /\ reg[i].slot = batches[i].slot
           /\ reg[i].full = batches[i].full /\ reg[i].uploaded = batches[i].uploaded
           /\ reg[i].queued = batches[i].queued \/ i = id
      /\ reg[id].queued
  BY <1>1, <1>2, BatchRegistryAssumption DEF Row
<1> HIDE DEF reg
<1>4. Sound(reg, types)
  BY <1>3 DEF Inv, BatchesOK, Sound
<1> QED
  BY <1>3, <1>4 DEF reg

\* A registered row is one at the id of its slot.
LEMMA NewRow ==
    ASSUME Inv, NEW o \in Slots, NEW full \in BOOLEAN, NEW uploaded \in BOOLEAN,
           NEW ingested \in BOOLEAN, o[1] \in types
    PROVE  LET row == [slot |-> o, full |-> full, uploaded |-> uploaded,
                       state |-> "draft", queued |-> FALSE]
               new == IF ingested THEN [row EXCEPT !.state = "imported"] ELSE row
               reg == [batches EXCEPT ![BatchId(o)] = new]
           IN  /\ Sound(reg, types)
               /\ \A i \in Ids \ {BatchId(o)} : reg[i] = batches[i]
               /\ reg[BatchId(o)] \in Row
               /\ reg[BatchId(o)].slot = o /\ reg[BatchId(o)].full = full
               /\ reg[BatchId(o)].uploaded = uploaded
<1> DEFINE row == [slot |-> o, full |-> full, uploaded |-> uploaded,
                   state |-> "draft", queued |-> FALSE]
           new == IF ingested THEN [row EXCEPT !.state = "imported"] ELSE row
           reg == [batches EXCEPT ![BatchId(o)] = new]
<1>1. /\ new \in Row /\ new.slot = o /\ new.full = full /\ new.uploaded = uploaded
      /\ new.queued = FALSE
  BY DEF Row, JobState
<1> HIDE DEF new, row
<1>2. BatchId(o) \in Ids /\ batches \in [Ids -> Row \cup {NoBatch}]
  BY SlotId DEF Inv, BatchesOK, Sound
<1>3. /\ reg \in [Ids -> Row \cup {NoBatch}] /\ reg[BatchId(o)] = new
      /\ \A i \in Ids \ {BatchId(o)} : reg[i] = batches[i]
  BY <1>1, <1>2
<1> HIDE DEF reg
<1>4. Sound(reg, types)
  BY <1>1, <1>3 DEF Inv, BatchesOK, Sound
<1> QED
  BY <1>1, <1>3, <1>4 DEF reg, new, row
-----------------------------------------------------------------------------
\* The steps.

\* Runtimes and upload requests stand with a registry that keeps their rows.
LEMMA StillFed ==
    ASSUME Inv, NEW reg,
           \A i \in Ids : batches[i] # NoBatch =>
             /\ reg[i] # NoBatch /\ reg[i].slot = batches[i].slot
             /\ reg[i].full = batches[i].full /\ reg[i].uploaded = batches[i].uploaded
    PROVE  Fed(runtimes, reg, source)
BY DEF Inv, BatchesOK, Fed

\* A registration of a free slot keeps the invariant, however it ends.
LEMMA Registers ==
    ASSUME Inv, NEW o \in Slots, NEW full \in BOOLEAN, NEW uploaded \in BOOLEAN,
           NEW ingested \in BOOLEAN, NEW up, NEW n, NEW end \in {"done", "failed", "crashed"},
           o[1] \in types, batches[BatchId(o)] = NoBatch, Running(up, types),
           Register(o, full, uploaded, ingested, up, n, end),
           \A u \in Slots \ {o} : source'[u] = source[u],
           ingested /\ uploaded => source'[o] \in Fit(full),
           UNCHANGED <<typeFile, labelled>>, RestOK'
    PROVE  Inv'
<1> DEFINE row == [slot |-> o, full |-> full, uploaded |-> uploaded,
                   state |-> "draft", queued |-> FALSE]
           new == IF ingested THEN [row EXCEPT !.state = "imported"] ELSE row
           reg == [batches EXCEPT ![BatchId(o)] = new]
           rt == IF ingested THEN runtimes \cup {BatchId(o)} ELSE runtimes
<1>1. /\ Sound(reg, types)
      /\ \A i \in Ids \ {BatchId(o)} : reg[i] = batches[i]
      /\ reg[BatchId(o)] \in Row
      /\ reg[BatchId(o)].slot = o /\ reg[BatchId(o)].full = full
      /\ reg[BatchId(o)].uploaded = uploaded
  BY NewRow
<1>2. /\ batchFile' = (IF n = 1 THEN reg ELSE batchFile) /\ (end = "done" => n = 1)
      /\ Leaves(end, types, reg, rt, up) /\ Notes(end, "batches", n = 1)
  BY DEF Register, Ends
<1> HIDE DEF reg, row, new
<1>3. \A i \in runtimes : /\ i \in Ids /\ i # BatchId(o) /\ batches[i] # NoBatch
                          /\ batches[i].slot \in Slots \ {o}
                          /\ batches[i].uploaded => source[batches[i].slot] \in Fit(batches[i].full)
  BY DEF Inv, BatchesOK, Fed, Sound, Row
<1>4. Fed(rt, reg, source')
  BY <1>1, <1>3, SlotId, BatchRegistryAssumption DEF Fed
<1> HIDE DEF rt
<1>5. (n = 1) \in BOOLEAN
  OBVIOUS
<1> QED
  BY <1>1, <1>2, <1>4, <1>5, Rewrites

\* A type may be created without being written.
LEMMA CreateTypeInv ==
    ASSUME Inv, NEW t \in TypeIds, NEW n, NEW end \in {"done", "failed", "crashed"},
           CreateType(t, n, end)
    PROVE  Inv'
<1>1. /\ typeFile' = (IF n = 1 THEN types \cup {t} ELSE typeFile)
      /\ (end = "done" <=> n = 1)
      /\ Leaves(end, types \cup {t}, batches, runtimes, upload)
      /\ Notes(end, "types", n = 1)
      /\ UNCHANGED <<batchFile, source, labelled, tasks, pool, held, tmp, adrift>>
  BY DEF CreateType, Ends, work
<1>2. RestOK'
  BY <1>1 DEF Inv, RestOK
<1>3. unsaved' = (IF n = 1 THEN unsaved \ {"types"}
                  ELSE IF end = "failed" THEN unsaved \cup {"types"}
                  ELSE IF end = "crashed" THEN unsaved \ {"batches"} ELSE unsaved)
  BY <1>1 DEF Notes
<1>4. CASE end = "crashed"
  BY <1>1, <1>2, <1>3, <1>4, Reload DEF Inv, BatchesOK, TypesOK
<1>5. CASE end # "crashed"
  <2>1. /\ types' = types \cup {t}
        /\ UNCHANGED <<batches, runtimes, upload>>
    BY <1>1, <1>5 DEF Leaves
  <2>2. TypesOK'
    BY <1>1, <1>3, <1>5, <2>1 DEF Inv, TypesOK
  <2>3. Sound(batches', types') /\ Sound(batchFile', types')
    BY <1>1, <2>1 DEF Inv, BatchesOK, Sound
  <2>4. "batches" \notin unsaved' => batches' = batchFile'
    BY <1>1, <1>3, <1>5, <2>1 DEF Inv, BatchesOK
  <2>5. Fed(runtimes', batches', source')
    BY <1>1, <2>1 DEF Inv, BatchesOK
  <2>6. Running(upload', types')
    BY <2>1 DEF Inv, Running
  <2> QED
    BY <1>2, <2>2, <2>3, <2>4, <2>5, <2>6 DEF Inv, BatchesOK
<1> QED
  BY <1>4, <1>5

LEMMA LabelsInv ==
    ASSUME Inv, NEW o \in Slots, ActivateLabels(o[1])
    PROVE  Inv'
<1>1. /\ o[1] \in types /\ labelled' = labelled \cup {o[1]}
      /\ UNCHANGED <<types, batches, runtimes, typeFile, batchFile, source,
                     tasks, pool, held, tmp, upload, unsaved, adrift>>
  BY DEF ActivateLabels, memory, files, work, transfer, history
<1>2. TypesOK' /\ RestOK'
  BY <1>1 DEF Inv, TypesOK, RestOK
<1>3. BatchesOK' /\ Running(upload', types')
  BY <1>1 DEF Inv, BatchesOK
<1> QED
  BY <1>2, <1>3 DEF Inv

LEMMA CreateJobInv ==
    ASSUME Inv, NEW o \in Slots, NEW full \in BOOLEAN, NEW n,
           NEW end \in {"done", "failed", "crashed"}, CreateImportJob(o, full, n, end)
    PROVE  Inv'
<1>1. /\ o[1] \in types /\ batches[BatchId(o)] = NoBatch
      /\ UNCHANGED <<typeFile, source, labelled, tasks, pool, held, tmp, adrift>>
  BY DEF CreateImportJob, work
<1>2. PICK readable \in BOOLEAN : Register(o, full, FALSE, readable, upload, n, end)
  BY DEF CreateImportJob
<1>3. RestOK'
  BY <1>1 DEF Inv, RestOK
<1>4. Running(upload, types)
  BY DEF Inv
<1> QED
  BY <1>1, <1>2, <1>3, <1>4, Registers

\* The end of an upload: the name is gone, the other requests go on.
LEMMA Unlinks ==
    ASSUME Inv, NEW p \in Uploads, NEW f \in Files
    PROVE  Running(WithoutName(p, f), types)
<1> DEFINE up == WithoutName(p, f)
<1>1. \A q \in Uploads : upload[q] \in UploadState
  BY DEF Inv, Running
<1>2. up \in [Uploads -> {up[q] : q \in Uploads}]
      /\ \A q \in Uploads : up[q] =
           IF q = p THEN Idle ELSE [upload[q] EXCEPT !.linked = @ /\ upload[q].file # f]
  BY DEF WithoutName
<1> HIDE DEF up
<1>3. Idle \in UploadState /\ Idle.at = "idle"
  BY DEF Idle, UploadState
<1>4. ASSUME NEW q \in Uploads, q # p
      PROVE  /\ up[q] \in UploadState
             /\ up[q].at = upload[q].at /\ up[q].file = upload[q].file
  <2> DEFINE b == upload[q].linked /\ upload[q].file # f
  <2>1. b \in BOOLEAN /\ up[q] = [upload[q] EXCEPT !.linked = b]
    BY <1>2, <1>4
  <2> HIDE DEF b
  <2> QED
    BY <2>1, <1>1 DEF UploadState
<1>5. \A q \in Uploads : up[q] \in UploadState
  BY <1>2, <1>3, <1>4
<1>6. \A q \in Uploads : up[q].at # "idle" => up[q].file \in Files /\ up[q].file[1][1] \in types
  BY <1>2, <1>3, <1>4 DEF Inv, Running
<1>7. up \in [Uploads -> UploadState]
  BY <1>2, <1>5
<1> QED
  BY <1>6, <1>7 DEF Running, up

\* A request that writes or has written its body has a file of a known type.
LEMMA Busy ==
    ASSUME Inv, NEW p \in Uploads, upload[p].at \in {"streaming", "written"}
    PROVE  /\ upload[p].file \in Files /\ upload[p].file[1] \in Slots
           /\ upload[p].file[1][1] \in types
BY DEF Inv, Running, Files

\* A step that touches nothing but a temporary file and the upload requests.
LEMMA Transfers ==
    ASSUME Inv, Running(upload', types), tmp' \in [Files -> Uploads \cup {NoFile, Nobody, Mixed}],
           UNCHANGED <<memory, files, labelled, work, held, history>>
    PROVE  Inv'
<1>1. UNCHANGED <<types, batches, runtimes, typeFile, batchFile, source, labelled,
                  tasks, pool, held, unsaved, adrift>>
  BY DEF memory, files, work, history
<1>2. TypesOK' /\ RestOK' /\ BatchesOK' /\ Running(upload', types')
  BY <1>1 DEF Inv, TypesOK, RestOK, BatchesOK
<1> QED
  BY <1>2 DEF Inv

LEMMA OpenInv ==
    ASSUME Inv, NEW p \in Uploads, NEW f \in Files, OpenUpload(p, f)
    PROVE  Inv'
<1>1. [at |-> "streaming", file |-> f, linked |-> TRUE] \in UploadState
  BY DEF UploadState
<1>2. /\ upload' = [upload EXCEPT ![p] = [at |-> "streaming", file |-> f, linked |-> TRUE]]
      /\ f[1][1] \in types /\ tmp' = [tmp EXCEPT ![f] = Nobody]
      /\ UNCHANGED <<memory, files, labelled, work, held, history>>
  BY DEF OpenUpload
<1>3. Running(upload', types)
  BY <1>1, <1>2 DEF Inv, Running
<1>4. tmp' \in [Files -> Uploads \cup {NoFile, Nobody, Mixed}]
  BY <1>2 DEF Inv, RestOK
<1> QED
  BY <1>2, <1>3, <1>4, Transfers

LEMMA StreamInv ==
    ASSUME Inv, NEW p \in Uploads, StreamBody(p)
    PROVE  Inv'
<1> DEFINE f == upload[p].file
<1>1. f \in Files /\ f[1][1] \in types
  BY Busy DEF StreamBody
<1>2. /\ upload' = [upload EXCEPT ![p].at = "written"]
      /\ UNCHANGED <<memory, files, labelled, work, held, history>>
      /\ \E body \in {tmp[f], p, Mixed} : tmp' = [tmp EXCEPT ![f] = body]
  BY DEF StreamBody
<1>3. tmp' \in [Files -> Uploads \cup {NoFile, Nobody, Mixed}]
  BY <1>1, <1>2 DEF Inv, RestOK
<1>4. upload[p] \in UploadState
  BY DEF Inv, Running
<1>5. [upload[p] EXCEPT !.at = "written"] \in UploadState
  BY <1>4 DEF UploadState
<1>6. Running(upload', types)
  BY <1>1, <1>2, <1>4, <1>5 DEF Inv, Running, UploadState
<1> QED
  BY <1>2, <1>3, <1>6, Transfers

LEMMA AbortInv ==
    ASSUME Inv, NEW p \in Uploads, AbortUpload(p)
    PROVE  Inv'
<1>1. upload[p].file \in Files
  BY Busy DEF AbortUpload
<1>2. /\ tmp' = [tmp EXCEPT ![upload[p].file] = NoFile]
      /\ upload' = WithoutName(p, upload[p].file)
      /\ UNCHANGED <<memory, files, labelled, work, held, history>>
  BY DEF AbortUpload
<1>3. tmp' \in [Files -> Uploads \cup {NoFile, Nobody, Mixed}]
  BY <1>2 DEF Inv, RestOK
<1> QED
  BY <1>1, <1>2, <1>3, Unlinks, Transfers

\* A source that changes is not that of a registered batch.
LEMMA FreeSlot ==
    ASSUME Inv, NEW o \in Slots, batches[BatchId(o)] = NoBatch,
           NEW id \in Ids, batches[id] # NoBatch
    PROVE  batches[id].slot \in Slots /\ batches[id].slot # o
<1>1. batches[id] \in Row /\ BatchId(batches[id].slot) = id
  BY DEF Inv, BatchesOK, Sound
<1> QED
  BY <1>1 DEF Row

\* What an upload that ends does to the sources.
LEMMA FinishSource ==
    ASSUME Inv, NEW p \in Uploads, NEW full \in BOOLEAN, NEW n, NEW end,
           FinishUpload(p, full, n, end)
    PROVE  LET o == upload[p].file[1]
           IN  /\ o \in Slots /\ o[1] \in types /\ upload[p].file \in Files
               /\ source' \in [Slots -> Uploads \cup {Nobody}]
               /\ \A u \in Slots \ {o} : source'[u] = source[u]
               /\ source' # source => batches[BatchId(o)] = NoBatch
<1> DEFINE f == upload[p].file
           o == f[1]
<1>1. o \in Slots /\ o[1] \in types /\ f \in Files
  BY Busy DEF FinishUpload
<1>2. \/ source' = source
      \/ /\ StillFree(o)
         /\ \E s \in Uploads \cup {Nobody} : source' = [source EXCEPT ![o] = s]
  BY DEF FinishUpload, Extractable
<1> HIDE DEF f
<1>3. /\ source' \in [Slots -> Uploads \cup {Nobody}]
      /\ \A u \in Slots \ {o} : source'[u] = source[u]
      /\ source' # source => batches[BatchId(o)] = NoBatch
  BY <1>1, <1>2 DEF Inv, RestOK, StillFree
<1> QED
  BY <1>1, <1>3 DEF f

LEMMA FinishInv ==
    ASSUME Inv, NEW p \in Uploads, NEW full \in BOOLEAN, NEW n,
           NEW end \in {"done", "failed", "crashed"}, FinishUpload(p, full, n, end)
    PROVE  Inv'
<1> DEFINE f == upload[p].file
           o == f[1]
           up == WithoutName(p, f)
<1>1. /\ o \in Slots /\ o[1] \in types /\ f \in Files
      /\ source' \in [Slots -> Uploads \cup {Nobody}]
      /\ \A u \in Slots \ {o} : source'[u] = source[u]
      /\ source' # source => batches[BatchId(o)] = NoBatch
  BY FinishSource
<1>2. /\ tmp' = [tmp EXCEPT ![f] = NoFile]
      /\ UNCHANGED <<typeFile, labelled, tasks, pool, held, adrift>>
  BY DEF FinishUpload, work
<1>3. RestOK'
  BY <1>1, <1>2 DEF Inv, RestOK
<1>4. Running(up, types)
  BY <1>1, Unlinks
<1>5. \A id \in runtimes : batches[id].uploaded =>
        source'[batches[id].slot] \in Fit(batches[id].full)
  <2> SUFFICES ASSUME NEW id \in runtimes, batches[id].uploaded
               PROVE  source'[batches[id].slot] \in Fit(batches[id].full)
    OBVIOUS
  <2>1. id \in Ids /\ batches[id] # NoBatch /\ source[batches[id].slot] \in Fit(batches[id].full)
    BY DEF Inv, BatchesOK, Fed
  <2>2. source'[batches[id].slot] = source[batches[id].slot]
    BY <1>1, <2>1, FreeSlot
  <2> QED
    BY <2>1, <2>2
<1> HIDE DEF up
<1>6. CASE /\ UNCHANGED <<batchFile, unsaved>>
           /\ Ends(end, n, 0) /\ Leaves(end, types, batches, runtimes, up)
  <2>1. end # "crashed" /\ UNCHANGED <<types, batches, runtimes>> /\ upload' = up
    BY <1>6 DEF Ends, Leaves
  <2>2. TypesOK'
    BY <1>2, <1>6, <2>1 DEF Inv, TypesOK
  <2>3. BatchesOK'
    BY <1>5, <1>6, <2>1 DEF Inv, BatchesOK, Fed
  <2>4. Running(upload', types')
    BY <1>4, <2>1
  <2> QED
    BY <1>3, <2>2, <2>3, <2>4 DEF Inv
<1>7. CASE /\ StillFree(o) /\ Extractable(tmp[f])
           /\ source' = [source EXCEPT ![o] = tmp[f]]
           /\ Register(o, full, TRUE, tmp[f] \in Fit(full), up, n, end)
  <2>1. batches[BatchId(o)] = NoBatch /\ source'[o] = tmp[f]
    BY <1>1, <1>7 DEF StillFree, Inv, RestOK
  <2>2. UNCHANGED <<typeFile, labelled>>
    BY <1>2
  <2>3. CASE tmp[f] \in Fit(full)
    <3>1. Register(o, full, TRUE, TRUE, up, n, end) /\ source'[o] \in Fit(full)
      BY <1>7, <2>1, <2>3 DEF Register
    <3> HIDE DEF f, o
    <3> QED
      BY <1>1, <1>3, <1>4, <2>1, <2>2, <3>1, Registers
  <2>4. CASE tmp[f] \notin Fit(full)
    <3>1. Register(o, full, TRUE, FALSE, up, n, end)
      BY <1>7, <2>4 DEF Register
    <3> HIDE DEF f, o
    <3> QED
      BY <1>1, <1>3, <1>4, <2>1, <2>2, <3>1, Registers
  <2> QED
    BY <2>3, <2>4
<1> QED
  BY <1>6, <1>7 DEF FinishUpload, up

LEMMA PhaseInv ==
    ASSUME Inv, NEW id \in Ids, NEW n, NEW end \in {"done", "failed", "crashed"},
           NEW scope \in Phases, Phase(scope, id, n, end)
    PROVE  Inv'
<1> DEFINE reg == [batches EXCEPT ![id].state = StateAfter[scope]]
<1>1. batches[id] # NoBatch
  BY DEF Phase
<1>2. Sound(reg, types) /\ Fed(runtimes, reg, source)
  BY <1>1, PhaseRow, StillFed
<1>3. /\ Leaves(end, types, reg, runtimes, upload) /\ Notes(end, "batches", n >= 1)
      /\ n \in 0..2 /\ (end = "done" => n = 2)
      /\ batchFile' = (IF n = 0 THEN batchFile ELSE reg)
      /\ UNCHANGED <<typeFile, source, labelled, tmp, tasks, pool, adrift>>
  BY DEF Phase, Ends, Saved, work
<1>4. held' \in SUBSET (Scopes \X Ids)
  BY BatchRegistryAssumption DEF Phase, Held, Inv, RestOK, Scopes
<1>5. RestOK'
  BY <1>3, <1>4 DEF Inv, RestOK
<1>6. Fed(runtimes, reg, source') /\ Running(upload, types)
  BY <1>2, <1>3 DEF Inv
<1> HIDE DEF reg
<1>7. /\ (n >= 1) \in BOOLEAN /\ (end = "done" => n >= 1)
      /\ batchFile' = (IF n >= 1 THEN reg ELSE batchFile)
  BY <1>3
<1> QED
  BY <1>2, <1>3, <1>5, <1>6, <1>7, Rewrites

LEMMA QueueInv ==
    ASSUME Inv, NEW id \in Ids, NEW n, NEW end \in {"done", "failed", "crashed"},
           GenerateQueue(id, n, end)
    PROVE  Inv'
<1> DEFINE reg == [batches EXCEPT ![id].queued = TRUE]
<1>1. batches[id] # NoBatch /\ batches[id].full
  BY DEF GenerateQueue, Queueable
<1>2. Sound(reg, types) /\ Fed(runtimes, reg, source)
  BY <1>1, QueueRow, StillFed
<1>3. /\ Leaves(end, types, reg, runtimes, upload) /\ Notes(end, "batches", n >= 1)
      /\ n \in 0..3 /\ (end = "done" => n = 3)
      /\ batchFile' = (IF n = 0 THEN batchFile ELSE reg)
      /\ tasks' = (IF n >= 2 THEN [tasks EXCEPT ![id] = "stored"] ELSE tasks)
      /\ UNCHANGED <<typeFile, source, labelled, tmp, pool, adrift>>
  BY DEF GenerateQueue, Ends
<1>4. held' \in SUBSET (Scopes \X Ids)
  BY DEF GenerateQueue, Held, Inv, RestOK, Scopes
<1>5. RestOK'
  BY <1>3, <1>4 DEF Inv, RestOK
<1>6. Fed(runtimes, reg, source') /\ Running(upload, types)
  BY <1>2, <1>3 DEF Inv
<1> HIDE DEF reg
<1>7. /\ (n >= 1) \in BOOLEAN /\ (end = "done" => n >= 1)
      /\ batchFile' = (IF n >= 1 THEN reg ELSE batchFile)
  BY <1>3
<1> QED
  BY <1>2, <1>3, <1>5, <1>6, <1>7, Rewrites

\* What a deletion writes.
LEMMA Deletes ==
    ASSUME Inv, NEW id \in Ids, NEW n, NEW end \in {"done", "failed", "crashed"},
           DeleteBatch(id, n, end)
    PROVE  /\ n \in 0..3 /\ (end = "done" <=> n = 3)
           /\ tasks' \in [Ids -> {"none", "torn", "stored"}]
           /\ \A i \in Ids \ {id} : tasks'[i] = tasks[i]
           /\ n >= 1 => tasks'[id] = "none"
           /\ tasks'[id] # "none" => tasks[id] # "none"
           /\ pool' = (IF n >= 2 THEN pool \ {id} ELSE pool)
           /\ batchFile' = (IF n = 3 THEN [batches EXCEPT ![id] = NoBatch] ELSE batchFile)
           /\ adrift' = (IF n >= 2 THEN adrift \ {id}
                         ELSE IF end = "failed" THEN adrift \cup {id} ELSE adrift)
           /\ UNCHANGED <<typeFile, source, labelled, held, tmp>>
<1>1. /\ n \in 0..3 /\ (end = "done" <=> n = 3)
      /\ pool' = (IF n >= 2 THEN pool \ {id} ELSE pool)
      /\ batchFile' = (IF n = 3 THEN [batches EXCEPT ![id] = NoBatch] ELSE batchFile)
      /\ UNCHANGED <<typeFile, source, labelled, held, tmp>>
  BY DEF DeleteBatch, Ends
<1>2. adrift' = (IF n >= 2 THEN adrift \ {id}
                 ELSE IF end = "failed" THEN adrift \cup {id} ELSE adrift)
  BY DEF DeleteBatch, Adrift
<1>3. tasks \in [Ids -> {"none", "torn", "stored"}]
  BY DEF Inv, RestOK
<1>4. PICK left \in {"none", "torn", "stored"} :
        /\ tasks' = [tasks EXCEPT ![id] = left]
        /\ n >= 1 => left = "none"
        /\ left # "none" => tasks[id] # "none"
  BY <1>3 DEF DeleteBatch, Remains
<1>5. /\ tasks' \in [Ids -> {"none", "torn", "stored"}]
      /\ \A i \in Ids \ {id} : tasks'[i] = tasks[i]
      /\ tasks'[id] = left
  BY <1>3, <1>4
<1> QED
  BY <1>1, <1>2, <1>4, <1>5

LEMMA DeleteInv ==
    ASSUME Inv, NEW id \in Ids, NEW n, NEW end \in {"done", "failed", "crashed"},
           DeleteBatch(id, n, end)
    PROVE  Inv'
<1> DEFINE reg == [batches EXCEPT ![id] = NoBatch]
           rt == runtimes \ {id}
<1>1. /\ reg \in [Ids -> Row \cup {NoBatch}] /\ reg[id] = NoBatch
      /\ \A i \in Ids \ {id} : reg[i] = batches[i]
  BY DEF Inv, BatchesOK, Sound
<1>2. Leaves(end, types, reg, rt, upload) /\ Notes(end, "batches", n = 3)
  BY DEF DeleteBatch
<1>3. /\ end = "done" => n = 3
      /\ tasks' \in [Ids -> {"none", "torn", "stored"}]
      /\ pool' \subseteq pool /\ adrift' \subseteq adrift \cup {id}
      /\ batchFile' = (IF n = 3 THEN reg ELSE batchFile)
      /\ UNCHANGED <<typeFile, source, labelled, held, tmp>>
  BY Deletes
<1> HIDE DEF reg
<1>4. Sound(reg, types)
  BY <1>1 DEF Inv, BatchesOK, Sound
<1>5. Fed(rt, reg, source')
  BY <1>1, <1>3 DEF Inv, BatchesOK, Fed
<1>6. RestOK'
  BY <1>3 DEF Inv, RestOK
<1>7. Running(upload, types) /\ (n = 3) \in BOOLEAN
  BY DEF Inv
<1> HIDE DEF rt
<1> QED
  BY <1>2, <1>3, <1>4, <1>5, <1>6, <1>7, Rewrites

\* Every step keeps the invariant.
LEMMA StepInv == Inv /\ [Next]_vars => Inv'
<1> SUFFICES ASSUME Inv, [Next]_vars PROVE Inv'
  OBVIOUS
<1>1. ASSUME Running(upload', types), RestOK',
             UNCHANGED <<memory, files, labelled, unsaved>>
      PROVE  Inv'
  <2>1. UNCHANGED <<types, batches, runtimes, typeFile, batchFile, source, labelled, unsaved>>
    BY <1>1 DEF memory, files
  <2>2. TypesOK' /\ BatchesOK' /\ Running(upload', types')
    BY <1>1, <2>1 DEF Inv, TypesOK, BatchesOK
  <2> QED
    BY <1>1, <2>2 DEF Inv
<1>2. CASE UNCHANGED vars
  <2>1. RestOK' /\ Running(upload', types)
    BY <1>2 DEF vars, files, work, transfer, history, Inv, RestOK
  <2> QED
    BY <1>1, <1>2, <2>1 DEF vars, history
<1>3. ASSUME NEW id \in Ids, AssignBatch(id) \/ Correct(id) PROVE Inv'
  <2>1. /\ UNCHANGED <<memory, files, labelled, held, transfer, unsaved>>
        /\ tasks' \in {tasks, [tasks EXCEPT ![id] = "stored"]}
        /\ pool' \in {pool, pool \cup {id}} /\ adrift' \in {adrift, adrift \cup {id}}
    BY <1>3 DEF AssignBatch, Correct, history
  <2>2. RestOK' /\ Running(upload', types)
    BY <2>1 DEF files, transfer, Inv, RestOK
  <2> QED
    BY <1>1, <2>1, <2>2
<1>4. ASSUME NEW k \in Scopes \X Ids, LockExpires(k) PROVE Inv'
  <2>1. RestOK' /\ Running(upload', types)
    BY <1>4 DEF LockExpires, files, work, transfer, history, Inv, RestOK
  <2> QED
    BY <1>1, <1>4, <2>1 DEF LockExpires, history
<1>5. CASE Restart
  <2>1. /\ UNCHANGED <<typeFile, batchFile, source, labelled, tasks, pool, held, tmp, adrift>>
        /\ Leaves("crashed", types, batches, runtimes, upload)
        /\ unsaved' = unsaved \ {"batches"}
    BY <1>5 DEF Restart, files, work, Notes
  <2>2. RestOK' /\ Sound(batchFile', types)
    BY <2>1 DEF Inv, RestOK, BatchesOK
  <2>3. unsaved' \in SUBSET {"types", "batches"} /\ ("types" \in unsaved => "types" \in unsaved')
    BY <2>1 DEF Inv, TypesOK
  <2> QED
    BY <2>1, <2>2, <2>3, Reload
<1> QED
  BY <1>2, <1>3, <1>4, <1>5, CreateTypeInv, LabelsInv, CreateJobInv, OpenInv,
     StreamInv, AbortInv, FinishInv, PhaseInv, QueueInv, DeleteInv DEF Next

LEMMA Invariant == Spec => []Inv
BY InitInv, StepInv, PTL DEF Spec

\* The types of the model.
THEOREM RegistryTypes == Spec => []TypeOK
BY Invariant, InvTypes, PTL

\* A restart between two requests brings back what is in memory, whichever requests
\* failed before, as soon as one has written the registry again.
THEOREM RestartKeeps == Spec => []RestartForgetsNothing
BY Invariant, InvRestart, PTL

-----------------------------------------------------------------------------
\* The QC work of a batch, and the source of an upload.

\* A registered batch with STEP outputs and its queue id.
Listed(row) == row # NoBatch /\ row.full /\ row.queued

\* A batch with work.
Busied(id) == tasks[id] # "none" \/ id \in pool

\* The work of a batch is known to memory and to the file.
LEMMA WorkListed ==
    WorkHasBatch <=> \A i \in Ids \ adrift :
                       Busied(i) => Listed(batches[i]) /\ Listed(batchFile[i])
BY DEF WorkHasBatch, Busied, Listed

\* A handler that makes reg of the registry, in which the batches with work are
\* listed, keeps it however it ends.
LEMMA KeepsWork ==
    ASSUME WorkHasBatch, NEW end \in {"done", "failed", "crashed"}, NEW reg,
           NEW ty, NEW rt, NEW up, Leaves(end, ty, reg, rt, up),
           batchFile' = batchFile \/ batchFile' = reg,
           \A i \in Ids \ adrift' : Busied(i)' =>
             Listed(reg[i]) /\ (batchFile' = reg \/ (i \notin adrift /\ Busied(i)))
    PROVE  WorkHasBatch'
<1>1. batches' = reg \/ batches' = batchFile'
  BY DEF Leaves
<1>2. ASSUME NEW i \in Ids \ adrift', Busied(i)'
      PROVE  Listed(batches[i])' /\ Listed(batchFile[i])'
  BY <1>1, <1>2, WorkListed DEF Listed
<1> QED
  BY <1>2 DEF WorkHasBatch, Busied, Listed

\* A handler that adds no work and keeps the rows of batches with work.
LEMMA NoNewWork ==
    ASSUME WorkHasBatch, NEW end \in {"done", "failed", "crashed"}, NEW reg,
           NEW ty, NEW rt, NEW up, Leaves(end, ty, reg, rt, up),
           batchFile' = batchFile \/ batchFile' = reg,
           \A i \in Ids : Listed(batches[i]) => Listed(reg[i]),
           UNCHANGED <<tasks, pool, adrift>>
    PROVE  WorkHasBatch'
<1>1. \A i \in Ids \ adrift' : Busied(i)' =>
        Listed(reg[i]) /\ i \notin adrift /\ Busied(i)
  BY WorkListed DEF Busied
<1> QED
  BY <1>1, KeepsWork

\* A registration is of an id without work, or of an id adrift.
LEMMA WorkRegister ==
    ASSUME Inv, WorkHasBatch, NEW o \in Slots, NEW full, NEW uploaded, NEW ingested, NEW up,
           NEW n, NEW end \in {"done", "failed", "crashed"}, batches[BatchId(o)] = NoBatch,
           Register(o, full, uploaded, ingested, up, n, end),
           UNCHANGED <<tasks, pool, adrift>>
    PROVE  WorkHasBatch'
<1> DEFINE row == [slot |-> o, full |-> full, uploaded |-> uploaded,
                   state |-> "draft", queued |-> FALSE]
           reg == [batches EXCEPT ![BatchId(o)] =
                     IF ingested THEN [row EXCEPT !.state = "imported"] ELSE row]
           rt == IF ingested THEN runtimes \cup {BatchId(o)} ELSE runtimes
<1>1. /\ batchFile' = batchFile \/ batchFile' = reg
      /\ Leaves(end, types, reg, rt, up)
  BY DEF Register
<1>2. \A i \in Ids \ {BatchId(o)} : reg[i] = batches[i]
  BY DEF Inv, BatchesOK, Sound
<1>3. \A i \in Ids : Listed(batches[i]) => Listed(reg[i])
  BY <1>2 DEF Listed
<1> HIDE DEF reg, rt
<1> QED
  BY <1>1, <1>3, NoNewWork

LEMMA WorkPhase ==
    ASSUME Inv, WorkHasBatch, NEW id \in Ids, NEW n, NEW end \in {"done", "failed", "crashed"},
           NEW scope \in Phases, Phase(scope, id, n, end)
    PROVE  WorkHasBatch'
<1> DEFINE reg == [batches EXCEPT ![id].state = StateAfter[scope]]
<1>1. batches[id] # NoBatch
  BY DEF Phase
<1>2. \A i \in Ids : batches[i] # NoBatch =>
        /\ reg[i] # NoBatch /\ reg[i].full = batches[i].full
        /\ reg[i].queued = batches[i].queued
  BY <1>1, PhaseRow
<1>3. /\ Leaves(end, types, reg, runtimes, upload) /\ UNCHANGED <<tasks, pool, adrift>>
      /\ batchFile' = batchFile \/ batchFile' = reg
  BY DEF Phase, Saved, work
<1> HIDE DEF reg
<1>4. \A i \in Ids : Listed(batches[i]) => Listed(reg[i])
  BY <1>2 DEF Listed
<1> QED
  BY <1>3, <1>4, NoNewWork

LEMMA WorkQueue ==
    ASSUME Inv, WorkHasBatch, NEW id \in Ids, NEW n, NEW end \in {"done", "failed", "crashed"},
           GenerateQueue(id, n, end)
    PROVE  WorkHasBatch'
<1> DEFINE reg == [batches EXCEPT ![id].queued = TRUE]
<1>1. batches[id] # NoBatch /\ batches[id].full
  BY DEF GenerateQueue, Queueable
<1>2. (\A i \in Ids : Listed(batches[i]) => Listed(reg[i])) /\ Listed(reg[id])
  <2>1. /\ \A i \in Ids : batches[i] # NoBatch =>
             /\ reg[i] # NoBatch /\ reg[i].full = batches[i].full
             /\ reg[i].queued = batches[i].queued \/ i = id
        /\ reg[id].queued
    BY <1>1, QueueRow
  <2> HIDE DEF reg
  <2> QED
    BY <1>1, <2>1 DEF Listed
<1>3. /\ Leaves(end, types, reg, runtimes, upload) /\ n \in 0..3
      /\ batchFile' = (IF n = 0 THEN batchFile ELSE reg)
      /\ tasks' = (IF n >= 2 THEN [tasks EXCEPT ![id] = "stored"] ELSE tasks)
      /\ UNCHANGED <<pool, adrift>>
  BY DEF GenerateQueue, Ends
<1>4. tasks \in [Ids -> {"none", "torn", "stored"}]
  BY DEF Inv, RestOK
<1> HIDE DEF reg
<1>5. ASSUME NEW i \in Ids \ adrift', Busied(i)'
      PROVE  Listed(reg[i]) /\ (batchFile' = reg \/ (i \notin adrift /\ Busied(i)))
  <2>1. CASE i = id /\ n >= 2
    BY <1>2, <1>3, <2>1
  <2>2. CASE i # id \/ ~(n >= 2)
    <3>1. Busied(i) /\ i \notin adrift
      BY <1>3, <1>4, <1>5, <2>2 DEF Busied
    <3> QED
      BY <1>2, <3>1, WorkListed
  <2> QED
    BY <2>1, <2>2
<1>6. batchFile' = batchFile \/ batchFile' = reg
  BY <1>3
<1> QED
  BY <1>3, <1>5, <1>6, KeepsWork

LEMMA WorkDelete ==
    ASSUME Inv, WorkHasBatch, NEW id \in Ids, NEW n, NEW end \in {"done", "failed", "crashed"},
           DeleteBatch(id, n, end)
    PROVE  WorkHasBatch'
<1> DEFINE reg == [batches EXCEPT ![id] = NoBatch]
<1>1. /\ n \in 0..3 /\ (end = "done" <=> n = 3)
      /\ \A i \in Ids \ {id} : tasks'[i] = tasks[i]
      /\ n >= 1 => tasks'[id] = "none"
      /\ tasks'[id] # "none" => tasks[id] # "none"
      /\ pool' = (IF n >= 2 THEN pool \ {id} ELSE pool)
      /\ batchFile' = (IF n = 3 THEN reg ELSE batchFile)
      /\ adrift' = (IF n >= 2 THEN adrift \ {id}
                    ELSE IF end = "failed" THEN adrift \cup {id} ELSE adrift)
  BY Deletes
<1>2. Leaves(end, types, reg, runtimes \ {id}, upload)
  BY DEF DeleteBatch
<1>3. \A i \in Ids \ {id} : reg[i] = batches[i]
  BY DEF Inv, BatchesOK, Sound
<1> HIDE DEF reg
<1>4. CASE end = "crashed"
  <2>1. batches' = batchFile' /\ batchFile' = batchFile
    BY <1>1, <1>2, <1>4 DEF Leaves
  <2>2. ASSUME NEW i \in Ids \ adrift', Busied(i)'
        PROVE  Listed(batchFile[i])
    <3>1. Busied(i) /\ i \notin adrift
      BY <1>1, <1>4, <2>2 DEF Busied
    <3> QED
      BY <3>1, WorkListed
  <2> QED
    BY <2>1, <2>2 DEF WorkHasBatch, Busied, Listed
<1>5. CASE end # "crashed"
  <2>1. ASSUME NEW i \in Ids \ adrift', Busied(i)'
        PROVE  Listed(reg[i]) /\ i \notin adrift /\ Busied(i)
    <3>1. i # id
      BY <1>1, <1>5, <2>1 DEF Busied
    <3>2. Busied(i) /\ i \notin adrift
      BY <1>1, <2>1, <3>1 DEF Busied
    <3> QED
      BY <1>3, <3>1, <3>2, WorkListed
  <2>2. batchFile' = batchFile \/ batchFile' = reg
    BY <1>1
  <2> QED
    BY <1>2, <2>1, <2>2, KeepsWork
<1> QED
  BY <1>4, <1>5

\* An assignment finds the queue id in memory; when it is not on file, the id is
\* adrift.
LEMMA WorkAssign ==
    ASSUME Inv, WorkHasBatch, NEW id \in Ids, AssignBatch(id) \/ Correct(id)
    PROVE  WorkHasBatch'
<1>1. UNCHANGED <<batches, batchFile>>
  BY DEF AssignBatch, Correct, memory, files
<1>2. tasks \in [Ids -> {"none", "torn", "stored"}]
  BY DEF Inv, RestOK
<1>3. CASE Correct(id)
  <2>1. /\ tasks[id] = "stored" /\ pool' = pool \cup {id}
        /\ UNCHANGED <<tasks, adrift>>
    BY <1>3 DEF Correct, history
  <2>2. \A i \in Ids \ adrift' : Busied(i)' => i \notin adrift /\ Busied(i)
    BY <2>1 DEF Busied
  <2> QED
    BY <1>1, <2>2, WorkListed DEF WorkHasBatch, Busied, Listed
<1>4. CASE AssignBatch(id)
  <2>1. /\ batches[id] # NoBatch /\ batches[id].queued /\ pool' = pool
        /\ tasks' = [tasks EXCEPT ![id] = "stored"]
        /\ adrift' = (IF "batches" \in unsaved THEN adrift \cup {id} ELSE adrift)
    BY <1>4 DEF AssignBatch
  <2>2. ASSUME NEW i \in Ids \ adrift', Busied(i)'
        PROVE  Listed(batches[i]) /\ Listed(batchFile[i])
    <3>1. CASE i = id
      BY <2>1, <2>2, <3>1 DEF Inv, BatchesOK, Sound, Listed
    <3>2. CASE i # id
      BY <1>2, <2>1, <2>2, <3>2, WorkListed DEF Busied
    <3> QED
      BY <3>1, <3>2
  <2> QED
    BY <1>1, <2>2 DEF WorkHasBatch, Busied, Listed
<1> QED
  BY <1>3, <1>4

\* Every step keeps it.
LEMMA StepWork == Inv /\ WorkHasBatch /\ [Next]_vars => WorkHasBatch'
<1> SUFFICES ASSUME Inv, WorkHasBatch, [Next]_vars PROVE WorkHasBatch'
  OBVIOUS
<1> USE DEF memory, files, work, transfer, history
<1>1. ASSUME UNCHANGED <<batches, batchFile, tasks, pool, adrift>> PROVE WorkHasBatch'
  BY <1>1 DEF WorkHasBatch
<1>2. ASSUME NEW end \in {"done", "failed", "crashed"}, NEW ty, NEW rt, NEW up,
             Leaves(end, ty, batches, rt, up), UNCHANGED <<batchFile, tasks, pool, adrift>>
      PROVE  WorkHasBatch'
  BY <1>2, NoNewWork
<1>3. ASSUME NEW o \in Slots, NEW full \in BOOLEAN, NEW n,
             NEW end \in {"done", "failed", "crashed"}, CreateImportJob(o, full, n, end)
      PROVE  WorkHasBatch'
  BY <1>3, WorkRegister DEF CreateImportJob
<1>4. ASSUME NEW p \in Uploads, NEW full \in BOOLEAN, NEW n,
             NEW end \in {"done", "failed", "crashed"}, FinishUpload(p, full, n, end)
      PROVE  WorkHasBatch'
  <2> DEFINE f == upload[p].file
             up == WithoutName(p, f)
             fits == tmp[f] \in Fit(full)
  <2>1. UNCHANGED <<tasks, pool, adrift>> /\ f[1] \in Slots
    BY <1>4, FinishSource DEF FinishUpload
  <2>2. CASE batchFile' = batchFile /\ Leaves(end, types, batches, runtimes, up)
    BY <1>2, <2>1, <2>2
  <2>3. CASE StillFree(f[1]) /\ Register(f[1], full, TRUE, fits, up, n, end)
    <3>1. batches[BatchId(f[1])] = NoBatch
      BY <2>3 DEF StillFree
    <3> HIDE DEF f, up, fits
    <3> QED
      BY <2>1, <2>3, <3>1, WorkRegister
  <2> QED
    BY <1>4, <2>2, <2>3 DEF FinishUpload
<1>5. CASE UNCHANGED vars
  BY <1>1, <1>5 DEF vars
<1>6. ASSUME NEW t, NEW n, NEW end \in {"done", "failed", "crashed"}, CreateType(t, n, end)
      PROVE  WorkHasBatch'
  BY <1>2, <1>6 DEF CreateType
<1>7. ASSUME NEW p \in Uploads, NEW f \in Files, OpenUpload(p, f) PROVE WorkHasBatch'
  BY <1>1, <1>7 DEF OpenUpload
<1>8. ASSUME NEW p \in Uploads, StreamBody(p) \/ AbortUpload(p) PROVE WorkHasBatch'
  BY <1>1, <1>8 DEF StreamBody, AbortUpload
<1>9. ASSUME NEW k \in Scopes \X Ids, LockExpires(k) PROVE WorkHasBatch'
  BY <1>1, <1>9 DEF LockExpires
<1>10. CASE Restart
  BY <1>2, <1>10 DEF Restart
<1>11. ASSUME NEW o \in Slots, ActivateLabels(o[1]) PROVE WorkHasBatch'
  BY <1>1, <1>11 DEF ActivateLabels
<1> QED
  BY <1>3, <1>4, <1>5, <1>6, <1>7, <1>8, <1>9, <1>10, <1>11,
     WorkPhase, WorkQueue, WorkDelete, WorkAssign DEF Next

\* QC state and pool rows have their batch in memory and on file, except the two
\* failures the property names.
THEOREM WorkBelongs == Spec => []WorkHasBatch
<1>1. Init => WorkHasBatch
  BY DEF Init, WorkHasBatch
<1> QED
  BY <1>1, StepWork, Invariant, PTL DEF Spec

\* No step replaces the source of a registered upload.
LEMMA StepSource ==
    ASSUME Inv, [Next]_vars, NEW id \in Ids, batches[id] # NoBatch
    PROVE  source'[batches[id].slot] = source[batches[id].slot]
<1> USE DEF memory, files, work, transfer
<1>1. ASSUME NEW p \in Uploads, NEW full \in BOOLEAN, NEW n, NEW end, FinishUpload(p, full, n, end)
      PROVE  source'[batches[id].slot] = source[batches[id].slot]
  BY <1>1, FinishSource, FreeSlot
<1>2. CASE source' = source
  BY <1>2
<1>3. ASSUME NEW n, NEW end, NEW o \in Slots, NEW full,
             CreateImportJob(o, full, n, end)
      PROVE  source' = source
  BY <1>3 DEF CreateImportJob
<1>4. ASSUME NEW n, NEW end, NEW id1 \in Ids,
             \/ \E scope : Phase(scope, id1, n, end)
             \/ GenerateQueue(id1, n, end) \/ DeleteBatch(id1, n, end)
             \/ AssignBatch(id1) \/ Correct(id1)
      PROVE  source' = source
  BY <1>4 DEF Phase, GenerateQueue, DeleteBatch, AssignBatch, Correct
<1>5. ASSUME NEW p, NEW f, OpenUpload(p, f) \/ StreamBody(p) \/ AbortUpload(p)
      PROVE  source' = source
  BY <1>5 DEF OpenUpload, StreamBody, AbortUpload
<1>6. ASSUME NEW t, NEW k, ActivateLabels(t) \/ LockExpires(k) \/ Restart \/ UNCHANGED vars
      PROVE  source' = source
  BY <1>6 DEF ActivateLabels, LockExpires, Restart, vars
<1>7. ASSUME NEW n, NEW end, NEW t, CreateType(t, n, end)
      PROVE  source' = source
  BY <1>7 DEF CreateType
<1> QED
  BY <1>1, <1>2, <1>3, <1>4, <1>5, <1>6, <1>7 DEF Next

\* The source of a registered upload stays what was extracted.
THEOREM SourceKept == Spec => SourceIsStable
<1>1. Inv /\ [Next]_vars =>
        [\A id \in Ids : batches[id] # NoBatch /\ batches'[id] # NoBatch =>
           LET o == batches[id].slot
           IN  batches[id].uploaded => source'[o] = source[o]]_vars
  BY StepSource
<1> QED
  BY <1>1, Invariant, PTL DEF Spec, SourceIsStable
=============================================================================
