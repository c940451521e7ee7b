--------------------------- MODULE StateMigration ---------------------------
(***************************************************************************)
(* The command import-file-state: it copies the rows of the file stores    *)
(* into the database, domain after domain, and reports what it inserted,   *)
(* what was there already and what is there with other content.  A domain  *)
(* is read once, then either saved as a whole (users, bindings, sessions,  *)
(* types, batches, tasks, leases) or row by row; each save is a            *)
(* transaction, and the command may stop between two of them and be run    *)
(* again.  Nobody else writes: the operators have stopped the traffic.     *)
(*                                                                         *)
(* A row has an id, the domain's natural key, the rows it names and its    *)
(* content.  The rows of a domain have distinct ids.                      *)
(***************************************************************************)
EXTENDS Naturals, FiniteSets, Sequences

CONSTANTS
    Sources,  \* the files an import may find: rows by domain
    Targets,  \* the databases an import may find: rows by domain
    MaxRuns   \* bound on the runs of the command

\* A mutated form: the sample pool is imported before what its items name.
OrderPoolFirst ==
    <<"users", "role_bindings", "sessions", "audit_events", "dataset_type_registry",
      "registered_batches", "label_configs", "label_config_active_pointers",
      "sample_pool_items", "export_jobs", "qc_assignments", "qc_tasks", "qc_leases",
      "annotation_snapshots", "modification_events", "evaluations",
      "qc_batch_drafts", "qc_drafts", "qc_submissions">>

\* run_import_file_state and the functions it calls, for one dataset batch.
Order ==
    <<"users", "role_bindings", "sessions", "audit_events", "dataset_type_registry",
      "registered_batches", "label_configs", "label_config_active_pointers",
      "qc_assignments", "qc_tasks", "qc_leases", "annotation_snapshots",
      "modification_events", "evaluations", "qc_batch_drafts", "qc_drafts",
      "qc_submissions", "sample_pool_items", "export_jobs">>

Domains == {Order[i] : i \in 1..Len(Order)}

\* Compared in memory and saved as a whole.
MergedDomains ==
    {"users", "role_bindings", "sessions", "dataset_type_registry",
     "registered_batches", "qc_tasks", "qc_leases"}

\* Row by row, and not stored if a row of the same key is there.
DeduplicatedDomains == {"annotation_snapshots", "modification_events"}

\* What is imported before the rows it names.
Late ==
    {"qc_tasks", "annotation_snapshots", "modification_events"} \X {"qc_submissions"}
        \cup {<<"evaluations", "export_jobs">>}

\* Which domain's rows name rows of which.  Left out: who made a row, and the lease of
\* a draft or a submission, which may be empty.
Naming ==
    Late \cup {"role_bindings", "sessions", "qc_assignments", "qc_tasks", "qc_leases", "qc_drafts",
               "qc_submissions", "modification_events", "sample_pool_items"} \X {"users"}
         \cup {<<"registered_batches", "dataset_type_registry">>}
         \cup {"label_config_active_pointers", "qc_tasks", "qc_drafts", "qc_submissions",
               "annotation_snapshots"} \X {"label_configs"}
         \cup {"qc_leases", "qc_drafts", "qc_submissions"} \X {"qc_tasks"}
         \cup {"sample_pool_items"} \X {"qc_submissions", "annotation_snapshots", "modification_events"}

ASSUME StateMigrationAssumption ==
    /\ MaxRuns \in Nat
    /\ \A S \in Sources \cup Targets :
          /\ DOMAIN S = Domains
          /\ \A d \in Domains : \A r, q \in S[d] : r.id = q.id => r = q

\* The file store saves no second snapshot, event or pool item of a key.
ASSUME KeysAssumption ==
    \A S \in Sources : \A d \in DeduplicatedDomains \cup {"sample_pool_items"} :
        \A r, q \in S[d] : r.key = q.key => r = q

VARIABLES
    source,   \* source[d]: the rows of domain d in the files
    target,   \* target[d]: the rows of domain d in the database
    pc,       \* "idle", "running", "done" (there is a report), "failed"
    dry,      \* is this a dry run?
    at,       \* the position in Order of the domain being imported
    todo,     \* the rows of that domain still to be looked at
    report,   \* the ids reported inserted, matched and conflicting, with their domain
    runs,     \* runs so far
    before,   \* history: the database when the run started
    plan,     \* history: the report of a dry run of this very database, or NoPlan
    clean     \* history: has a run that wrote ended without a conflict?

run == <<pc, dry, at, todo, report, runs>>
history == <<before, plan, clean>>
vars == <<source, target, run, history>>

Here == Order[at]

NoReport == [inserted |-> {}, matched |-> {}, conflicts |-> {}]
NoPlan == [inserted |-> {<<"none", "none">>}, matched |-> {}, conflicts |-> {}]

\* A mutated form: a row with another content is inserted beside the one there is.
AbsentAsIs(T, r) == r \notin T

\* _record_compare against the rows T: equal content, another content, or absent.
Matches(T, r) == r \in T
Differs(T, r) == \E t \in T : t.id = r.id /\ t # r
Absent(T, r) == \A t \in T : t.id # r.id
SameKey(T, r) == \E t \in T : t.id # r.id /\ t.key = r.key

\* Names of the rows R of domain d in a report.
Named(d, R) == {<<d, r.id>> : r \in R}

Reported(outcome, R) == [report EXCEPT ![outcome] = @ \cup Named(Here, R)]

Stored(d, id) == \E t \in target[d] : t.id = id

-----------------------------------------------------------------------------
Init ==
    /\ source \in Sources
    /\ target \in Targets
    /\ pc = "idle" /\ dry = FALSE
    /\ at = 1 /\ todo = {} /\ report = NoReport
    /\ runs = 0
    /\ before = target /\ plan = NoPlan /\ clean = FALSE

\* run_import_file_state: the order of the imports.
Start(d) ==
    /\ pc # "running"
    /\ runs < MaxRuns /\ runs' = runs + 1
    /\ pc' = "running" /\ dry' = d
    /\ at' = 1 /\ todo' = source[Order[1]] /\ report' = NoReport
    /\ before' = target
    /\ UNCHANGED <<source, target, plan, clean>>

\* A mutated form: what the files have replaces what the database has.
SourceWins(T, S) == S \cup {t \in T : \A s \in S : s.id # t.id}

\* A mutated form: what was read from the database is saved back.
TargetOnly(T, S) == T

\* The rows of the domain are the database's, and those of the files it lacks.
Merged(T, S) == T \cup {s \in S : Absent(T, s)}

\* _import_keyed_models and its like: all rows are compared, then one transaction
\* saves the merged rows, if there are more than before.
ImportMerged ==
    LET T == target[Here]
        new == {r \in todo : Absent(T, r)}
    IN  /\ Here \in MergedDomains /\ todo # {}
        /\ report' = [inserted |-> report.inserted \cup Named(Here, new),
                      matched |-> report.matched \cup Named(Here, todo \cap T),
                      conflicts |-> report.conflicts
                                    \cup Named(Here, {r \in todo : Differs(T, r)})]
        /\ target' = IF dry \/ new = {} THEN target
                     ELSE [target EXCEPT ![Here] = Merged(T, todo)]
        /\ todo' = {}
        /\ UNCHANGED <<source, pc, dry, at, runs, history>>

\* A row the database has, with the same or another content.
Compare(r) ==
    /\ Here \notin MergedDomains
    /\ \/ Matches(target[Here], r) /\ report' = Reported("matched", {r})
       \/ Differs(target[Here], r) /\ report' = Reported("conflicts", {r})
    /\ todo' = todo \ {r}
    /\ UNCHANGED <<source, target, pc, dry, at, runs, history>>

\* A mutated form: a dry run of a row by row domain writes.
WrittenAlways(r) == [target EXCEPT ![Here] = @ \cup {r}]

Written(r) == IF dry THEN target ELSE [target EXCEPT ![Here] = @ \cup {r}]

\* The key of a configuration, its content hash, is unique in the database; the
\* pointer's import looks for the configuration.  Neither is looked at in a dry run,
\* and either ends the command, without a report, when it fails.
Storable(r) ==
    /\ Here = "label_configs" => ~SameKey(target[Here], r)
    /\ Here = "label_config_active_pointers" =>
          \A ref \in r.refs : Stored(ref[1], ref[2])

\* A row the database lacks.  It is reported as inserted also if save_annotation_
\* snapshot or save_modification_events finds a row of its key and stores nothing.
Insert(r) ==
    /\ Absent(target[Here], r)
    /\ Here = "sample_pool_items" => ~SameKey(target[Here], r)
    /\ dry \/ Storable(r)
    /\ Here \notin MergedDomains
    /\ report' = Reported("inserted", {r})
    /\ target' = IF Here \in DeduplicatedDomains /\ SameKey(target[Here], r)
                 THEN target ELSE Written(r)
    /\ todo' = todo \ {r}
    /\ UNCHANGED <<source, pc, dry, at, runs, history>>

\* A mutated form: an item of the same key is taken for the item.
SameItemByKey(r) ==
    /\ Here = "sample_pool_items"
    /\ Absent(target[Here], r) /\ SameKey(target[Here], r)
    /\ report' = Reported("matched", {r})
    /\ todo' = todo \ {r}
    /\ UNCHANGED <<source, target, pc, dry, at, runs, history>>

\* _import_pool_export_eval: an item of the same key but another id is a conflict.
ConflictByKey(r) ==
    /\ Here = "sample_pool_items"
    /\ Absent(target[Here], r) /\ SameKey(target[Here], r)
    /\ report' = Reported("conflicts", {r})
    /\ todo' = todo \ {r}
    /\ UNCHANGED <<source, target, pc, dry, at, runs, history>>

\* What the run has written makes a plan of the database as it was void.
Unplanned == plan' = IF target = before THEN plan ELSE NoPlan

\* The insertion raises: IntegrityError or LabelConfigVersionNotFoundError.
Abort(r) ==
    /\ Absent(target[Here], r) /\ ~dry /\ ~Storable(r)
    /\ pc' = "failed" /\ todo' = {}
    /\ Unplanned
    /\ UNCHANGED <<source, target, dry, at, report, runs, before, clean>>

\* The next domain is read.
NextDomain ==
    /\ todo = {} /\ at < Len(Order)
    /\ at' = at + 1 /\ todo' = source[Order[at + 1]]
    /\ UNCHANGED <<source, target, pc, dry, report, runs, history>>

\* The report: exit code 3 if it has conflicts.
Finish ==
    /\ todo = {} /\ at = Len(Order)
    /\ pc' = "done"
    /\ IF dry THEN plan' = report ELSE Unplanned
    /\ clean' = (clean \/ (~dry /\ report.conflicts = {}))
    /\ UNCHANGED <<source, target, dry, at, todo, report, runs, before>>

\* The command is stopped, between two transactions.
Crash ==
    /\ pc' = "failed" /\ todo' = {}
    /\ Unplanned
    /\ UNCHANGED <<source, target, dry, at, report, runs, before, clean>>

Next ==
    \/ \E d \in BOOLEAN : Start(d)
    \/ /\ pc = "running"
       /\ \/ ImportMerged
          \/ \E r \in todo : Compare(r) \/ Insert(r) \/ ConflictByKey(r) \/ Abort(r)
          \/ NextDomain \/ Finish \/ Crash

Spec == Init /\ [][Next]_vars

-----------------------------------------------------------------------------
\* Type invariant: the database holds rows of the files and of the databases it may
\* have been, and every domain has one row per id.
TypeOK ==
    /\ \A d \in Domains :
          /\ target[d] \subseteq source[d] \cup UNION {T[d] : T \in Targets}
          /\ \A r, q \in target[d] : r.id = q.id => r = q
    /\ pc \in {"idle", "running", "done", "failed"} /\ dry \in BOOLEAN
    /\ at \in 1..Len(Order) /\ todo \subseteq source[Here]
    /\ runs \in 0..MaxRuns

\* "Same-ID different-content records are reported as conflicts and are not silently
\* overwritten" (docs/architecture/postgres-redis-migration-runbook.md): no run,
\* stopped, repeated or completed, changes or removes a row that was in the database.
NothingOverwritten == [][\A d \in Domains : target[d] \subseteq target'[d]]_vars

\* Wherever a run stops, a row of the database names only rows of the database (a
\* row in conflict still leaves one of its id), but for the tasks, snapshots and
\* events, which come before the submissions they name: they have them once a run
\* is completed.
ReferencesResolve ==
    \A d \in Domains : \A r \in target[d] : \A ref \in r.refs :
        \/ Stored(ref[1], ref[2])
        \/ <<d, ref[1]>> \in Late /\ ~(pc = "done" /\ ~dry)

\* A completed run without conflicts has copied everything, and its report says what
\* it did: what it names as inserted is what the database did not have before.
CleanRunCopiesAll ==
    pc = "done" /\ ~dry /\ report.conflicts = {} =>
        \A d \in Domains :
            /\ source[d] \subseteq target[d]
            /\ {n \in report.inserted : n[1] = d} = Named(d, target[d] \ before[d])

\* "Re-run the same command once to verify idempotency" (the same runbook): after a
\* run without conflicts a later one has nothing to insert and no conflict.
RerunIsIdempotent ==
    [][clean /\ pc = "running" => report'.inserted = {} /\ report'.conflicts = {}]_vars

\* A dry run changes nothing, and a completed run reports what a dry run of the same
\* database has announced.
PlanIsKept ==
    [][/\ dry /\ pc = "running" => target' = target
       /\ pc = "running" /\ pc' = "done" /\ plan # NoPlan => report = plan]_vars

-----------------------------------------------------------------------------
(* What some of the theorems suppose of the files and the databases, and the  *)
(* instance that is checked satisfies.                                        *)

\* A database that has a snapshot or an event of the key of one of the files has it
\* because the sample was confirmed there too; and then its task, its assignment or
\* its batch differs from that of the files.
RivalsShow ==
    \A S \in Sources : \A T \in Targets :
        (\E d \in DeduplicatedDomains : \E r \in S[d] : Absent(T[d], r) /\ SameKey(T[d], r))
            => \E d \in Domains : \E r \in S[d] : Differs(T[d], r)

\* Row q of domain d is not kept out of the databases by one of the same key.
Welcome(d, q) ==
    d \in DeduplicatedDomains \cup {"sample_pool_items"} =>
        \A T \in Targets : ~(Absent(T[d], q) /\ SameKey(T[d], q))

\* What a database names is there.  What the files name is there, and not kept out:
\* only a baseline may be, which nothing names.  But the version a pointer names may
\* be lost: the command itself looks for it.
NamesResolve ==
    /\ \A S \in Sources \cup Targets : \A d \in Domains : \A r \in S[d] : \A ref \in r.refs :
          <<d, ref[1]>> \in Naming
    /\ \A T \in Targets : \A d \in Domains : \A r \in T[d] : \A ref \in r.refs :
          \E q \in T[ref[1]] : q.id = ref[2]
    /\ \A S \in Sources : \A d \in Domains \ {"label_config_active_pointers"} :
          \A r \in S[d] : \A ref \in r.refs :
              \E q \in S[ref[1]] : q.id = ref[2] /\ Welcome(ref[1], q)

=============================================================================
