----------------------- MODULE StateMigration_proofs -----------------------
(***************************************************************************)
(* Theorems about StateMigration for any files, any databases and any      *)
(* number of runs.                                                         *)
(***************************************************************************)
EXTENDS StateMigration, TLAPS

\* The invariant the proofs need: the types, with the shape of source and target.
Shape ==
    /\ source \in Sources
    /\ DOMAIN target = Domains
    /\ TypeOK

\* There is a first domain, and a position in the order is that of a domain.
LEMMA OrderedDomains ==
    /\ Len(Order) \in Nat /\ 1 \in 1..Len(Order)
    /\ \A i \in 1..Len(Order) : Order[i] \in Domains
<1>1. Len(Order) = 19
  BY DEF Order
<1> QED
  BY <1>1 DEF Domains

\* The rows of a domain have distinct ids.
UniqueIds(T) == \A r, q \in T : r.id = q.id => r = q

\* Rows whose ids the database lacks can join its rows.
LEMMA JoinAbsent ==
    ASSUME NEW T, NEW S, UniqueIds(T), UniqueIds(S), \A s \in S : Absent(T, s)
    PROVE  UniqueIds(T \cup S)
BY DEF UniqueIds, Absent

\* A migration starts in a state of the right shape.
LEMMA InitShape == Init => Shape
<1> SUFFICES ASSUME Init PROVE Shape
  OBVIOUS
<1>1. source \in Sources /\ DOMAIN target = Domains /\ DOMAIN source = Domains
  BY StateMigrationAssumption DEF Init
<1>2. \A d \in Domains : target[d] \subseteq source[d] \cup UNION {T[d] : T \in Targets}
  BY DEF Init
<1>3. \A d \in Domains : \A r, q \in target[d] : r.id = q.id => r = q
  BY StateMigrationAssumption DEF Init
<1>4. at \in 1..Len(Order) /\ todo \subseteq source[Here]
  BY OrderedDomains DEF Init
<1>5. runs \in 0..MaxRuns
  BY StateMigrationAssumption DEF Init
<1> QED
  BY <1>1, <1>2, <1>3, <1>4, <1>5 DEF Init, Shape, TypeOK

\* What a step may do to the database: leave it, or add rows of the files whose ids
\* it lacks to the domain being imported.
Grows ==
    \/ target' = target
    \/ \E S \in SUBSET todo :
         /\ \A s \in S : Absent(target[Here], s)
         /\ target' = [target EXCEPT ![Here] = @ \cup S]

\* Every step does one of the two.
LEMMA StepGrows == [Next]_vars => Grows
<1> SUFFICES ASSUME [Next]_vars PROVE Grows
  OBVIOUS
<1>1. CASE UNCHANGED vars
  BY <1>1 DEF vars, Grows
<1>2. ASSUME NEW d \in BOOLEAN, Start(d) PROVE Grows
  BY <1>2 DEF Start, Grows
<1>3. CASE ImportMerged
  <2>1. CASE target' = target
    BY <2>1 DEF Grows
  <2>2. CASE target' = [target EXCEPT ![Here] = Merged(target[Here], todo)]
    <3> DEFINE S == {s \in todo : Absent(target[Here], s)}
    <3>1. target' = [target EXCEPT ![Here] = @ \cup S]
      BY <2>2 DEF Merged
    <3> QED
      BY <3>1 DEF Grows
  <2> QED
    BY <1>3, <2>1, <2>2 DEF ImportMerged
<1>4. ASSUME NEW r \in todo, Insert(r) PROVE Grows
  <2>1. CASE target' = target
    BY <2>1 DEF Grows
  <2>2. CASE target' = [target EXCEPT ![Here] = @ \cup {r}]
    <3>1. {r} \in SUBSET todo /\ \A s \in {r} : Absent(target[Here], s)
      BY <1>4 DEF Insert
    <3> QED
      BY <2>2, <3>1 DEF Grows
  <2> QED
    BY <1>4, <2>1, <2>2 DEF Insert, Written
<1>5. ASSUME NEW r \in todo, Compare(r) \/ ConflictByKey(r) \/ Abort(r) PROVE Grows
  BY <1>5 DEF Compare, ConflictByKey, Abort, Grows
<1>6. CASE NextDomain \/ Finish \/ Crash
  BY <1>6 DEF NextDomain, Finish, Crash, Grows
<1> QED
  BY <1>1, <1>2, <1>3, <1>4, <1>5, <1>6 DEF Next

\* The position, the rows to do and the counters keep their types.
LEMMA StepRun ==
    ASSUME Shape, [Next]_vars
    PROVE  /\ source' = source
           /\ pc' \in {"idle", "running", "done", "failed"} /\ dry' \in BOOLEAN
           /\ at' \in 1..Len(Order) /\ todo' \subseteq source'[Here']
           /\ runs' \in 0..MaxRuns
<1> USE DEF Here
<1>1. CASE UNCHANGED vars
  BY <1>1 DEF vars, run, Shape, TypeOK
<1>2. ASSUME NEW d \in BOOLEAN, Start(d) PROVE at' \in 1..Len(Order) /\ runs' \in 0..MaxRuns
  BY <1>2, OrderedDomains, StateMigrationAssumption DEF Start, Shape, TypeOK
<1>3. CASE \E d \in BOOLEAN : Start(d)
  BY <1>2, <1>3 DEF Start, Shape, TypeOK
<1>4. CASE ImportMerged
  BY <1>4 DEF ImportMerged, Shape, TypeOK
<1>5. ASSUME NEW r \in todo, Compare(r) \/ Insert(r) \/ ConflictByKey(r)
      PROVE  /\ source' = source /\ pc' = pc /\ dry' = dry /\ at' = at /\ runs' = runs
             /\ todo' = todo \ {r}
  BY <1>5 DEF Compare, Insert, ConflictByKey
<1>6. CASE \E r \in todo : Compare(r) \/ Insert(r) \/ ConflictByKey(r)
  BY <1>5, <1>6 DEF Shape, TypeOK
<1>7. CASE (\E r \in todo : Abort(r)) \/ Crash
  BY <1>7 DEF Abort, Crash, Shape, TypeOK
<1>8. CASE NextDomain
  <2>1. at' \in 1..Len(Order)
    BY <1>8, OrderedDomains DEF NextDomain, Shape, TypeOK
  <2> QED
    BY <1>8, <2>1 DEF NextDomain, Shape, TypeOK
<1>9. CASE Finish
  BY <1>9 DEF Finish, Shape, TypeOK
<1> QED
  BY <1>1, <1>3, <1>4, <1>6, <1>7, <1>8, <1>9 DEF Next

\* The database keeps its shape.
LEMMA StepTarget ==
    ASSUME Shape, Grows, source' = source
    PROVE  /\ DOMAIN target' = Domains
           /\ \A d \in Domains :
                 /\ target'[d] \subseteq source'[d] \cup UNION {T[d] : T \in Targets}
                 /\ \A r, q \in target'[d] : r.id = q.id => r = q
<1>1. CASE target' = target
  BY <1>1 DEF Shape, TypeOK
<1>2. ASSUME NEW S \in SUBSET todo, \A s \in S : Absent(target[Here], s),
             target' = [target EXCEPT ![Here] = @ \cup S]
      PROVE  /\ DOMAIN target' = Domains
             /\ \A d \in Domains :
                   /\ target'[d] \subseteq source'[d] \cup UNION {T[d] : T \in Targets}
                   /\ \A r, q \in target'[d] : r.id = q.id => r = q
  <2>1. Here \in Domains /\ S \subseteq source[Here]
    BY <1>2, OrderedDomains DEF Shape, TypeOK, Here
  <2>2. UniqueIds(target[Here]) /\ UniqueIds(S)
    BY <2>1, StateMigrationAssumption DEF Shape, TypeOK, UniqueIds
  <2>3. UniqueIds(target[Here] \cup S)
    BY <1>2, <2>2, JoinAbsent
  <2>4. DOMAIN target' = Domains
    BY <1>2 DEF Shape
  <2>5. \A d \in Domains : target'[d] = IF d = Here THEN target[Here] \cup S ELSE target[d]
    BY <1>2 DEF Shape
  <2>6. ASSUME NEW d \in Domains
        PROVE  /\ target'[d] \subseteq source'[d] \cup UNION {T[d] : T \in Targets}
               /\ \A r, q \in target'[d] : r.id = q.id => r = q
    <3>1. target'[d] \subseteq source'[d] \cup UNION {T[d] : T \in Targets}
      BY <2>1, <2>5 DEF Shape, TypeOK
    <3>2. \A r, q \in target'[d] : r.id = q.id => r = q
      BY <2>3, <2>5 DEF Shape, TypeOK, UniqueIds
    <3> QED
      BY <3>1, <3>2
  <2> QED
    BY <2>4, <2>6
<1> QED
  BY <1>1, <1>2 DEF Grows

\* Every step keeps the shape.
LEMMA StepShape == Shape /\ [Next]_vars => Shape'
<1> SUFFICES ASSUME Shape, [Next]_vars PROVE Shape'
  OBVIOUS
<1>1. Grows
  BY StepGrows
<1>2. /\ source' = source
      /\ pc' \in {"idle", "running", "done", "failed"} /\ dry' \in BOOLEAN
      /\ at' \in 1..Len(Order) /\ todo' \subseteq source'[Here']
      /\ runs' \in 0..MaxRuns
  BY StepRun
<1>3. /\ DOMAIN target' = Domains
      /\ \A d \in Domains :
            /\ target'[d] \subseteq source'[d] \cup UNION {T[d] : T \in Targets}
            /\ \A r, q \in target'[d] : r.id = q.id => r = q
  BY <1>1, <1>2, StepTarget
<1> QED
  BY <1>2, <1>3 DEF Shape, TypeOK

\* Type correctness of the import, for any files, databases and number of runs: the
\* database holds only rows it was given, one per id and domain.
THEOREM MigrationTypes == Spec => []TypeOK
<1>1. Shape => TypeOK
  BY DEF Shape
<1> QED
  BY <1>1, InitShape, StepShape, PTL DEF Spec

\* No run, dry or not, stopped, repeated or completed, changes or removes a row that
\* was in the database.
THEOREM NoOverwrite == Spec => NothingOverwritten
<1>1. Shape /\ [Next]_vars => [\A d \in Domains : target[d] \subseteq target'[d]]_vars
  <2> SUFFICES ASSUME Shape, Grows, NEW d \in Domains PROVE target[d] \subseteq target'[d]
    BY StepGrows
  <2> QED
    BY DEF Grows, Shape
<1> QED
  BY <1>1, InitShape, StepShape, PTL DEF Spec, NothingOverwritten

-----------------------------------------------------------------------------
(* What a run has done, domain by domain.                                     *)

\* No domain comes twice in the order.
LEMMA DistinctDomains == \A i, j \in 1..Len(Order) : Order[i] = Order[j] => i = j
<1>1. Len(Order) = 19
  BY DEF Order
<1> SUFFICES ASSUME NEW i \in 1..19, NEW j \in 1..19, i # j PROVE Order[i] # Order[j]
  BY <1>1
<1> QED
  BY SMTT(60) DEF Order

\* Apart from the late ones, what a row names is of a domain imported before its own.
LEMMA NamedBefore ==
     \A p \in Naming \ Late : \E i, j \in 1..Len(Order) : j < i /\ p = <<Order[i], Order[j]>>
<1>1. Len(Order) = 19
  BY DEF Order
<1>2. /\ Order[1] = "users" /\ Order[2] = "role_bindings" /\ Order[3] = "sessions"
      /\ Order[5] = "dataset_type_registry" /\ Order[6] = "registered_batches"
      /\ Order[7] = "label_configs" /\ Order[8] = "label_config_active_pointers"
      /\ Order[9] = "qc_assignments" /\ Order[10] = "qc_tasks" /\ Order[11] = "qc_leases"
      /\ Order[12] = "annotation_snapshots" /\ Order[13] = "modification_events"
      /\ Order[16] = "qc_drafts" /\ Order[17] = "qc_submissions" /\ Order[18] = "sample_pool_items"
  BY DEF Order
<1> SUFFICES ASSUME NEW a, NEW b, <<a, b>> \in Naming, <<a, b>> \notin Late
             PROVE \E i, j \in 1..19 : j < i /\ a = Order[i] /\ b = Order[j]
  BY <1>1 DEF Naming, Late
<1>3. CASE b = "users"
  <2>1. a \in {Order[2], Order[3], Order[9], Order[10], Order[11], Order[13], Order[16],
              Order[17], Order[18]}
    BY <1>2, <1>3 DEF Naming, Late
  <2> QED
    BY <2>1, <1>2, <1>3
<1>4. CASE b = "qc_tasks"
  <2>1. a \in {Order[11], Order[16], Order[17]}
    BY <1>2, <1>4 DEF Naming, Late
  <2> QED
    BY <2>1, <1>2, <1>4
<1>5. CASE b = "label_configs"
  <2>1. a \in {Order[8], Order[10], Order[12], Order[16], Order[17]}
    BY <1>2, <1>5 DEF Naming, Late
  <2> QED
    BY <2>1, <1>2, <1>5
<1>6. CASE b = "dataset_type_registry"
  BY <1>2, <1>6 DEF Naming, Late
<1>7. CASE a = "sample_pool_items" /\ b # "users"
  <2>1. b \in {Order[12], Order[13], Order[17]}
    BY <1>2, <1>7 DEF Naming, Late
  <2> QED
    BY <2>1, <1>2, <1>7
<1> QED
  BY <1>3, <1>4, <1>5, <1>6, <1>7 DEF Naming, Late

\* The rows of domain d the run has looked at.
Taken(d) ==
    IF d = Here THEN source[d] \ todo
    ELSE IF \E j \in 1..(at - 1) : Order[j] = d THEN source[d] ELSE {}

\* The verdicts on row r of domain d: insert, conflict.
Fresh(d, T, r) == Absent(T, r) /\ ~(d = "sample_pool_items" /\ SameKey(T, r))
Clashes(d, T, r) == Differs(T, r) \/ (d = "sample_pool_items" /\ Absent(T, r) /\ SameKey(T, r))

\* Of what is fresh, what is stored.
Kept(d, T, r) == Fresh(d, T, r) /\ ~(d \in DeduplicatedDomains /\ SameKey(T, r))

\* A report names rows of the files.
FileNames == UNION {Named(d, source[d]) : d \in Domains}
Reportable == report \in [inserted : SUBSET FileNames, matched : SUBSET FileNames,
                          conflicts : SUBSET FileNames]

\* The report on domain d is the verdict on its rows, against the database the run
\* found.
ReportsOn(d) ==
    \A r \in source[d] :
        /\ <<d, r.id>> \in report.inserted <=> r \in Taken(d) /\ Fresh(d, before[d], r)
        /\ <<d, r.id>> \in report.matched <=> r \in Taken(d) /\ r \in before[d]
        /\ <<d, r.id>> \in report.conflicts <=> r \in Taken(d) /\ Clashes(d, before[d], r)

\* The run has added to domain d what of its rows is stored, unless it is dry.
WritesOf(d) ==
    target[d] = before[d] \cup {r \in Taken(d) : ~dry /\ Kept(d, before[d], r)}

\* The rows of before and target are those of a database that was found, and of the
\* files.
From(T) ==
    \A d \in Domains :
        T[d] \subseteq before[d] /\ before[d] \subseteq target[d] /\ target[d] \subseteq T[d] \cup source[d]

\* The invariant: while a run goes on, and when it is done, it has reported and written
\* just that.
Ledger ==
    /\ Shape /\ DOMAIN before = Domains
    /\ \E T \in Targets : From(T)
    /\ pc \in {"running", "done"} =>
          Reportable /\ \A d \in Domains : ReportsOn(d) /\ WritesOf(d)

\* A run starts having looked at nothing.
LEMMA NothingTaken ==
    ASSUME at = 1, todo = source[Order[1]]
    PROVE  \A d \in Domains : Taken(d) = {}
<1>1. 1..(at - 1) = {}
  OBVIOUS
<1> QED
  BY <1>1 DEF Taken, Here

\* The next domain is started with nothing of it looked at and all of those before.
LEMMA TakenNext ==
    ASSUME Shape, NextDomain
    PROVE  \A d \in Domains : Taken(d)' = Taken(d)
<1> SUFFICES ASSUME NEW d \in Domains PROVE Taken(d)' = Taken(d)
  OBVIOUS
<1>1. at \in 1..Len(Order) /\ at < Len(Order) /\ todo = {} /\ Len(Order) \in Nat
      /\ at' = at + 1 /\ todo' = source[Order[at + 1]] /\ source' = source
  BY OrderedDomains DEF NextDomain, Shape, TypeOK
<1>2. Here' = Order[at + 1] /\ at + 1 \in 1..Len(Order)
  BY <1>1 DEF Here
<1>3. CASE d = Here
  <2>1. d # Here' /\ at \in 1..(at' - 1)
    BY <1>1, <1>2, <1>3, DistinctDomains DEF Here
  <2> QED
    BY <1>1, <1>3, <2>1 DEF Taken, Here
<1>4. CASE d = Here'
  <2>1. d # Here
    BY <1>1, <1>2, <1>4, DistinctDomains DEF Here
  <2>2. \A j \in 1..(at - 1) : Order[j] # d
    BY <1>1, <1>2, <1>4, DistinctDomains
  <2> QED
    BY <1>1, <1>2, <1>4, <2>1, <2>2 DEF Taken
<1>5. CASE d # Here /\ d # Here'
  <2>1. (\E j \in 1..(at - 1) : Order[j] = d) <=> \E j \in 1..(at' - 1) : Order[j] = d
    <3>1. \A j : j \in 1..(at' - 1) <=> j \in 1..(at - 1) \/ j = at
      BY <1>1
    <3> QED
      BY <1>5, <3>1 DEF Here
  <2> QED
    BY <1>1, <1>5, <2>1 DEF Taken
<1> QED
  BY <1>3, <1>4, <1>5

\* At the end all rows have been looked at.
LEMMA AllTaken ==
    ASSUME at = Len(Order), todo = {}
    PROVE  \A d \in Domains : Taken(d) = source[d]
<1> SUFFICES ASSUME NEW d \in Domains PROVE Taken(d) = source[d]
  OBVIOUS
<1>1. PICK i \in 1..Len(Order) : d = Order[i]
  BY DEF Domains
<1>2. i = at \/ i \in 1..(at - 1)
  BY <1>1, OrderedDomains
<1> QED
  BY <1>1, <1>2 DEF Taken, Here

\* What the run has added to the domain does not change the verdict on the rows it
\* has yet to look at: rows of the files differ in their ids, and in their keys where
\* it matters.
LEMMA SameVerdict ==
    ASSUME Shape, WritesOf(Here), NEW r \in todo
    PROVE  /\ r \in target[Here] <=> r \in before[Here]
           /\ Fresh(Here, target[Here], r) <=> Fresh(Here, before[Here], r)
           /\ Clashes(Here, target[Here], r) <=> Clashes(Here, before[Here], r)
           /\ Kept(Here, target[Here], r) <=> Kept(Here, before[Here], r)
<1> DEFINE T == target[Here]
           B == before[Here]
<1>1. Here \in Domains /\ r \in source[Here] /\ source \in Sources
  BY OrderedDomains DEF Shape, TypeOK, Here
<1>2. B \subseteq T /\ \A t \in T \ B : t \in source[Here] /\ t # r
  BY DEF WritesOf, Taken
<1>3. \A t \in T \ B : t.id # r.id
  BY <1>1, <1>2, StateMigrationAssumption
<1>4. ASSUME Here \in DeduplicatedDomains \cup {"sample_pool_items"}
      PROVE  \A t \in T \ B : t.key # r.key
  BY <1>1, <1>2, <1>4, KeysAssumption
<1> HIDE DEF T, B
<1>5. (r \in T <=> r \in B) /\ (Absent(T, r) <=> Absent(B, r)) /\ (Differs(T, r) <=> Differs(B, r))
  BY <1>2, <1>3 DEF Absent, Differs
<1>6. Here \in DeduplicatedDomains \cup {"sample_pool_items"} => (SameKey(T, r) <=> SameKey(B, r))
  BY <1>2, <1>4 DEF SameKey
<1>7. /\ Fresh(Here, T, r) <=> Fresh(Here, B, r)
      /\ Clashes(Here, T, r) <=> Clashes(Here, B, r)
      /\ Kept(Here, T, r) <=> Kept(Here, B, r)
  BY <1>5, <1>6 DEF Fresh, Clashes, Kept
<1> QED
  BY <1>5, <1>7 DEF T, B

\* The step looks at the rows R: it reports the verdicts and stores what is kept.
Looks(R) ==
    /\ UNCHANGED <<source, pc, dry, at, runs, history>> /\ todo' = todo \ R
    /\ report' = [inserted |-> report.inserted
                                 \cup Named(Here, {r \in R : Fresh(Here, target[Here], r)}),
                  matched |-> report.matched \cup Named(Here, {r \in R : r \in target[Here]}),
                  conflicts |-> report.conflicts
                                  \cup Named(Here, {r \in R : Clashes(Here, target[Here], r)})]
    /\ \A d \in Domains \ {Here} : target'[d] = target[d]
    /\ target'[Here] = target[Here] \cup {r \in R : ~dry /\ Kept(Here, target[Here], r)}
    /\ dry => target' = target

\* The domains that are saved as a whole are neither deduplicated nor the pool.
LEMMA MergedAreOther ==
    ASSUME Here \in MergedDomains
    PROVE  Here \notin DeduplicatedDomains /\ Here # "sample_pool_items"
BY DEF MergedDomains, DeduplicatedDomains

\* Comparing a whole domain is to look at all its rows.
LEMMA MergedLooks ==
    ASSUME Shape, Reportable, ImportMerged
    PROVE  Looks(todo)
<1> DEFINE T == target[Here]
           new == {r \in todo : Absent(T, r)}
<1>1. Here \in Domains
  BY OrderedDomains DEF Shape, TypeOK, Here
<1>2. \A r \in todo : /\ Fresh(Here, T, r) <=> Absent(T, r)
                      /\ Clashes(Here, T, r) <=> Differs(T, r)
                      /\ Kept(Here, T, r) <=> Absent(T, r)
  BY MergedAreOther DEF ImportMerged, Fresh, Clashes, Kept
<1>3. report' = [inserted |-> report.inserted \cup Named(Here, {r \in todo : Fresh(Here, T, r)}),
                 matched |-> report.matched \cup Named(Here, {r \in todo : r \in T}),
                 conflicts |-> report.conflicts \cup Named(Here, {r \in todo : Clashes(Here, T, r)})]
  <2>1. new = {r \in todo : Fresh(Here, T, r)} /\ todo \cap T = {r \in todo : r \in T}
        /\ {r \in todo : Differs(T, r)} = {r \in todo : Clashes(Here, T, r)}
    BY <1>2
  <2>2. report' = [inserted |-> report.inserted \cup Named(Here, new),
                   matched |-> report.matched \cup Named(Here, todo \cap T),
                   conflicts |-> report.conflicts \cup Named(Here, {r \in todo : Differs(T, r)})]
    BY DEF ImportMerged
  <2> QED
    BY <2>1, <2>2
<1>4. /\ \A d \in Domains \ {Here} : target'[d] = target[d]
      /\ target'[Here] = T \cup {r \in todo : ~dry /\ Kept(Here, T, r)}
  <2>1. {r \in todo : ~dry /\ Kept(Here, T, r)} = IF dry THEN {} ELSE new
    BY <1>2
  <2>2. CASE dry \/ new = {}
    BY <2>1, <2>2 DEF ImportMerged
  <2>3. CASE ~(dry \/ new = {})
    <3>1. target' = [target EXCEPT ![Here] = T \cup new]
      BY <2>3 DEF ImportMerged, Merged
    <3> QED
      BY <1>1, <2>1, <2>3, <3>1 DEF Shape
  <2> QED
    BY <2>2, <2>3
<1>5. dry => target' = target
  BY DEF ImportMerged
<1>6. UNCHANGED <<source, pc, dry, at, runs, history>> /\ todo' = todo \ todo
  BY DEF ImportMerged
<1> QED
  BY <1>3, <1>4, <1>5, <1>6 DEF Looks

\* To import a row is to look at it.
LEMMA RowLooks ==
    ASSUME Shape, Reportable, NEW r \in todo, Compare(r) \/ Insert(r) \/ ConflictByKey(r)
    PROVE  Looks({r})
<1> DEFINE T == target[Here]
           f == Fresh(Here, T, r)
           m == r \in T
           c == Clashes(Here, T, r)
<1>1. Here \in Domains
  BY OrderedDomains DEF Shape, TypeOK, Here
<1>2. \A q \in T : q.id = r.id /\ r \in T => q = r
  BY <1>1 DEF Shape, TypeOK
<1>3. /\ \/ f /\ ~m /\ ~c /\ report' = Reported("inserted", {r})
         \/ ~f /\ m /\ ~c /\ report' = Reported("matched", {r})
         \/ ~f /\ ~m /\ c /\ report' = Reported("conflicts", {r})
      /\ target' = target \/ f
  <2>1. CASE Compare(r)
    BY <1>2, <2>1 DEF Compare, Matches, Differs, Absent, Fresh, Clashes
  <2>2. CASE Insert(r)
    BY <2>2 DEF Insert, Differs, Absent, Fresh, Clashes
  <2>3. CASE ConflictByKey(r)
    BY <2>3 DEF ConflictByKey, Differs, Absent, Fresh, Clashes
  <2> QED
    BY <2>1, <2>2, <2>3
<1>4. report' = [inserted |-> report.inserted \cup Named(Here, {q \in {r} : f}),
                 matched |-> report.matched \cup Named(Here, {q \in {r} : m}),
                 conflicts |-> report.conflicts \cup Named(Here, {q \in {r} : c})]
  <2> HIDE DEF f, m, c
  <2>1. {q \in {r} : f} = (IF f THEN {r} ELSE {}) /\ {q \in {r} : m} = (IF m THEN {r} ELSE {})
        /\ {q \in {r} : c} = (IF c THEN {r} ELSE {})
    OBVIOUS
  <2>2. Named(Here, {}) = {}
    BY DEF Named
  <2>3. CASE f /\ ~m /\ ~c /\ report' = Reported("inserted", {r})
    BY <2>1, <2>2, <2>3 DEF Reported, Reportable
  <2>4. CASE ~f /\ m /\ ~c /\ report' = Reported("matched", {r})
    BY <2>1, <2>2, <2>4 DEF Reported, Reportable
  <2>5. CASE ~f /\ ~m /\ c /\ report' = Reported("conflicts", {r})
    BY <2>1, <2>2, <2>5 DEF Reported, Reportable
  <2> QED
    BY <1>3, <2>3, <2>4, <2>5
<1>5. /\ {q \in {r} : f} = {q \in {r} : Fresh(Here, T, q)} /\ {q \in {r} : m} = {q \in {r} : q \in T}
      /\ {q \in {r} : c} = {q \in {r} : Clashes(Here, T, q)}
  OBVIOUS
<1>6. /\ \A d \in Domains \ {Here} : target'[d] = target[d]
      /\ target'[Here] = T \cup {q \in {r} : ~dry /\ Kept(Here, T, q)}
      /\ dry => target' = target
  <2>1. CASE Compare(r) \/ ConflictByKey(r)
    <3>1. target' = target /\ ~f
      BY <2>1 DEF Compare, ConflictByKey, Matches, Differs, Absent, Fresh
    <3> QED
      BY <3>1 DEF Kept
  <2>2. CASE Insert(r)
    <3>1. f
      BY <2>2 DEF Insert, Fresh
    <3>2. CASE dry \/ (Here \in DeduplicatedDomains /\ SameKey(T, r))
      <4>1. target' = target
        BY <2>2, <3>2 DEF Insert, Written
      <4> QED
        BY <3>2, <4>1 DEF Kept
    <3>3. CASE ~dry /\ ~(Here \in DeduplicatedDomains /\ SameKey(T, r))
      <4>1. target' = [target EXCEPT ![Here] = @ \cup {r}]
        BY <2>2, <3>3 DEF Insert, Written
      <4> QED
        BY <1>1, <3>1, <3>3, <4>1 DEF Kept, Shape
    <3> QED
      BY <3>2, <3>3
  <2> QED
    BY <2>1, <2>2
<1>7. UNCHANGED <<source, pc, dry, at, runs, history>> /\ todo' = todo \ {r}
  BY DEF Compare, Insert, ConflictByKey
<1> QED
  BY <1>4, <1>5, <1>6, <1>7 DEF Looks

\* What looking at rows does to what has been looked at.
LEMMA TakenLooks ==
    ASSUME Shape, NEW R \in SUBSET todo, Looks(R)
    PROVE  /\ Here' = Here
           /\ \A d \in Domains \ {Here} : Taken(d)' = Taken(d)
           /\ Taken(Here)' = Taken(Here) \cup R
           /\ R \cap Taken(Here) = {} /\ R \subseteq source[Here]
<1>1. Here' = Here /\ source' = source /\ at' = at /\ todo' = todo \ R /\ todo \subseteq source[Here]
  BY DEF Looks, Here, Shape, TypeOK
<1> QED
  BY <1>1 DEF Taken

\* Reporting the verdicts and storing what is kept is what the ledger says of a run.
LEMMA LooksLedger ==
    ASSUME Shape, Reportable, \A d \in Domains : ReportsOn(d) /\ WritesOf(d),
           NEW R \in SUBSET todo, Looks(R)
    PROVE  Reportable' /\ \A d \in Domains : ReportsOn(d)' /\ WritesOf(d)'
<1>1. Here \in Domains /\ source \in Sources
  BY OrderedDomains DEF Shape, TypeOK, Here
<1>2. \A r, q \in source[Here] : r.id = q.id => r = q
  BY <1>1, StateMigrationAssumption
<1>3. /\ Here' = Here /\ \A d \in Domains \ {Here} : Taken(d)' = Taken(d)
      /\ Taken(Here)' = Taken(Here) \cup R
      /\ R \cap Taken(Here) = {} /\ R \subseteq source[Here]
  BY TakenLooks
<1>4. \A r \in R : /\ r \in target[Here] <=> r \in before[Here]
                   /\ Fresh(Here, target[Here], r) <=> Fresh(Here, before[Here], r)
                   /\ Clashes(Here, target[Here], r) <=> Clashes(Here, before[Here], r)
                   /\ Kept(Here, target[Here], r) <=> Kept(Here, before[Here], r)
  BY <1>1, SameVerdict
<1>5. source' = source /\ before' = before /\ dry' = dry
  BY DEF Looks, history
<1>6. Reportable'
  <2>1. /\ Named(Here, {r \in R : Fresh(Here, target[Here], r)}) \subseteq FileNames
        /\ Named(Here, {r \in R : r \in target[Here]}) \subseteq FileNames
        /\ Named(Here, {r \in R : Clashes(Here, target[Here], r)}) \subseteq FileNames
    BY <1>1, <1>3 DEF Named, FileNames
  <2>2. FileNames' = FileNames
    BY <1>5 DEF FileNames
  <2> QED
    BY <2>1, <2>2 DEF Reportable, Looks
<1>7. ASSUME NEW d \in Domains PROVE ReportsOn(d)'
  <2> SUFFICES ASSUME NEW r \in source[d]
               PROVE  /\ <<d, r.id>> \in report'.inserted <=> r \in Taken(d)' /\ Fresh(d, before[d], r)
                      /\ <<d, r.id>> \in report'.matched <=> r \in Taken(d)' /\ r \in before[d]
                      /\ <<d, r.id>> \in report'.conflicts <=> r \in Taken(d)' /\ Clashes(d, before[d], r)
    BY <1>5 DEF ReportsOn
  <2>1. /\ <<d, r.id>> \in report.inserted <=> r \in Taken(d) /\ Fresh(d, before[d], r)
        /\ <<d, r.id>> \in report.matched <=> r \in Taken(d) /\ r \in before[d]
        /\ <<d, r.id>> \in report.conflicts <=> r \in Taken(d) /\ Clashes(d, before[d], r)
    BY DEF ReportsOn
  <2>2. \A Q \in SUBSET R : <<d, r.id>> \in Named(Here, Q) <=> d = Here /\ r \in Q
    BY <1>2, <1>3 DEF Named
  <2>3. /\ <<d, r.id>> \in report'.inserted <=>
             <<d, r.id>> \in report.inserted \/ (d = Here /\ r \in R /\ Fresh(d, target[d], r))
        /\ <<d, r.id>> \in report'.matched <=>
             <<d, r.id>> \in report.matched \/ (d = Here /\ r \in R /\ r \in target[d])
        /\ <<d, r.id>> \in report'.conflicts <=>
             <<d, r.id>> \in report.conflicts \/ (d = Here /\ r \in R /\ Clashes(d, target[d], r))
    BY <2>2 DEF Looks
  <2>4. CASE d = Here
    BY <1>3, <1>4, <2>1, <2>3, <2>4
  <2>5. CASE d # Here
    BY <1>3, <2>1, <2>3, <2>5
  <2> QED
    BY <2>4, <2>5
<1>8. ASSUME NEW d \in Domains PROVE WritesOf(d)'
  <2>1. target[d] = before[d] \cup {r \in Taken(d) : ~dry /\ Kept(d, before[d], r)}
    BY DEF WritesOf
  <2>2. target'[d] = before[d] \cup {r \in Taken(d)' : ~dry /\ Kept(d, before[d], r)}
    <3>1. CASE d = Here
      <4>1. target'[d] = target[d] \cup {r \in R : ~dry /\ Kept(d, target[d], r)}
        BY <3>1 DEF Looks
      <4> QED
        BY <1>3, <1>4, <2>1, <3>1, <4>1
    <3>2. CASE d # Here
      <4>1. target'[d] = target[d] /\ Taken(d)' = Taken(d)
        BY <1>3, <3>2 DEF Looks
      <4> QED
        BY <2>1, <4>1
    <3> QED
      BY <3>1, <3>2
  <2> QED
    BY <1>5, <2>2 DEF WritesOf
<1> QED
  BY <1>6, <1>7, <1>8

\* A database that is found has nothing written to it.
LEMMA InitLedger == Init => Ledger
<1> SUFFICES ASSUME Init PROVE Ledger
  OBVIOUS
<1>1. Shape
  BY InitShape
<1>2. From(target) /\ target \in Targets
  BY DEF Init, From
<1> QED
  BY <1>1, <1>2 DEF Ledger, Init, Shape

\* A run starts with an empty report, on the database as it is.
LEMMA StartLedger ==
    ASSUME Ledger, NEW d \in BOOLEAN, Start(d)
    PROVE  /\ Reportable' /\ \A e \in Domains : ReportsOn(e)' /\ WritesOf(e)'
           /\ before' = target' /\ target' = target
<1>1. \A e \in Domains : Taken(e)' = {}
  <2>1. at' = 1 /\ todo' = source'[Order[1]]
    BY DEF Start
  <2>2. 1..(at' - 1) = {}
    BY <2>1
  <2> QED
    BY <2>1, <2>2 DEF Taken, Here
<1>2. report' = NoReport /\ before' = target /\ target' = target
  BY DEF Start
<1>3. Reportable'
  BY <1>2 DEF Reportable, NoReport
<1>4. ASSUME NEW e \in Domains PROVE ReportsOn(e)' /\ WritesOf(e)'
  BY <1>1, <1>2 DEF ReportsOn, WritesOf, NoReport
<1> QED
  BY <1>2, <1>3, <1>4

\* A run that goes on to the next domain, or ends, reports and writes nothing more.
LEMMA OnLedger ==
    ASSUME Ledger, pc = "running", NextDomain \/ Finish
    PROVE  Reportable' /\ \A e \in Domains : ReportsOn(e)' /\ WritesOf(e)'
<1>1. Shape /\ Reportable /\ \A e \in Domains : ReportsOn(e) /\ WritesOf(e)
  BY DEF Ledger
<1>2. source' = source /\ before' = before /\ target' = target /\ report' = report /\ dry' = dry
  BY DEF NextDomain, Finish, history
<1>3. \A e \in Domains : Taken(e)' = Taken(e)
  <2>1. CASE NextDomain
    BY <1>1, <2>1, TakenNext
  <2>2. CASE Finish
    BY <2>2 DEF Finish, Taken, Here
  <2> QED
    BY <2>1, <2>2
<1>4. Reportable'
  BY <1>1, <1>2 DEF Reportable, FileNames
<1>5. ASSUME NEW e \in Domains PROVE ReportsOn(e)' /\ WritesOf(e)'
  <2>1. ReportsOn(e) /\ WritesOf(e) /\ Taken(e)' = Taken(e)
    BY <1>1, <1>3
  <2> QED
    BY <1>2, <2>1 DEF ReportsOn, WritesOf
<1> QED
  BY <1>4, <1>5

\* Whatever a step does, the database has come from one that was found.
LEMMA StepFrom ==
    ASSUME Ledger, [Next]_vars
    PROVE  DOMAIN before' = Domains /\ \E T \in Targets : From(T)'
<1>1. PICK T \in Targets : From(T)
  BY DEF Ledger
<1>2. Shape /\ DOMAIN before = Domains
  BY DEF Ledger
<1>3. Grows /\ source' = source
  BY <1>2, StepGrows, StepRun
<1>4. before' = before \/ (before' = target /\ target' = target)
  <2>1. ASSUME NEW r \in todo, Compare(r) \/ Insert(r) \/ ConflictByKey(r) \/ Abort(r)
        PROVE  before' = before
    BY <2>1 DEF Compare, Insert, ConflictByKey, Abort, history
  <2>2. CASE ImportMerged \/ NextDomain \/ Finish \/ Crash \/ UNCHANGED vars
    BY <2>2 DEF ImportMerged, NextDomain, Finish, Crash, vars, history
  <2>3. ASSUME NEW d \in BOOLEAN, Start(d) PROVE before' = target /\ target' = target
    BY <2>3 DEF Start
  <2> QED
    BY <2>1, <2>2, <2>3 DEF Next
<1>5. \A d \in Domains : target[d] \subseteq target'[d] /\ target'[d] \subseteq target[d] \cup source[d]
  <2>1. CASE target' = target
    BY <2>1
  <2>2. ASSUME NEW S \in SUBSET todo, target' = [target EXCEPT ![Here] = @ \cup S]
        PROVE  \A d \in Domains : target[d] \subseteq target'[d]
                                  /\ target'[d] \subseteq target[d] \cup source[d]
    BY <1>2, <2>2 DEF Shape, TypeOK, Here
  <2> QED
    BY <1>3, <2>1, <2>2 DEF Grows
<1>6. From(T)'
  <2> SUFFICES ASSUME NEW d \in Domains
               PROVE  /\ T[d] \subseteq before'[d] /\ before'[d] \subseteq target'[d]
                      /\ target'[d] \subseteq T[d] \cup source'[d]
    BY DEF From
  <2>1. T[d] \subseteq before[d] /\ before[d] \subseteq target[d] /\ target[d] \subseteq T[d] \cup source[d]
    BY <1>1 DEF From
  <2> QED
    BY <1>3, <1>4, <1>5, <2>1
<1> QED
  BY <1>2, <1>4, <1>6 DEF Shape

\* Every step keeps the ledger.
LEMMA StepLedger == Ledger /\ [Next]_vars => Ledger'
<1> SUFFICES ASSUME Ledger, [Next]_vars PROVE Ledger'
  OBVIOUS
<1>1. Shape' /\ DOMAIN before' = Domains /\ \E T \in Targets : From(T)'
  BY StepShape, StepFrom DEF Ledger
<1>2. ASSUME pc' \in {"running", "done"}
      PROVE  Reportable' /\ \A d \in Domains : ReportsOn(d)' /\ WritesOf(d)'
  <2>1. CASE UNCHANGED vars
    <3>1. pc \in {"running", "done"} /\ UNCHANGED <<source, before, target, report, dry, at, todo>>
      BY <1>2, <2>1 DEF vars, run, history
    <3>2. \A d \in Domains : Taken(d)' = Taken(d)
      BY <3>1 DEF Taken, Here
    <3>3. Reportable'
      BY <3>1 DEF Reportable, FileNames, Ledger
    <3>4. ASSUME NEW d \in Domains PROVE ReportsOn(d)' /\ WritesOf(d)'
      <4>1. ReportsOn(d) /\ WritesOf(d) /\ Taken(d)' = Taken(d)
        BY <3>1, <3>2 DEF Ledger
      <4> QED
        BY <3>1, <4>1 DEF ReportsOn, WritesOf
    <3> QED
      BY <3>3, <3>4
  <2>2. ASSUME NEW d \in BOOLEAN, Start(d)
        PROVE  Reportable' /\ \A e \in Domains : ReportsOn(e)' /\ WritesOf(e)'
    BY <2>2, StartLedger
  <2>3. ASSUME pc = "running", NEW R \in SUBSET todo, Looks(R)
        PROVE  Reportable' /\ \A d \in Domains : ReportsOn(d)' /\ WritesOf(d)'
    BY <2>3, LooksLedger DEF Ledger
  <2>4. CASE pc = "running" /\ ImportMerged
    <3>1. Looks(todo)
      BY <2>4, MergedLooks DEF Ledger
    <3> QED
      BY <2>3, <2>4, <3>1
  <2>5. ASSUME pc = "running", NEW r \in todo, Compare(r) \/ Insert(r) \/ ConflictByKey(r)
        PROVE  Reportable' /\ \A d \in Domains : ReportsOn(d)' /\ WritesOf(d)'
    <3>1. Looks({r})
      BY <2>5, RowLooks DEF Ledger
    <3> QED
      BY <2>3, <2>5, <3>1
  <2>6. CASE pc = "running" /\ (NextDomain \/ Finish)
    BY <2>6, OnLedger
  <2>7. ASSUME NEW r \in todo, Abort(r) PROVE FALSE
    BY <1>2, <2>7 DEF Abort
  <2>8. CASE Crash
    BY <1>2, <2>8 DEF Crash
  <2> QED
    BY <2>1, <2>2, <2>4, <2>5, <2>6, <2>7, <2>8 DEF Next
<1> QED
  BY <1>1, <1>2 DEF Ledger

\* So it holds throughout.
LEMMA LedgerHolds == Spec => []Ledger
BY InitLedger, StepLedger, PTL DEF Spec

-----------------------------------------------------------------------------
(* What a completed run has done.                                             *)

\* A run that is done has been through all domains.
Ended == pc = "done" => at = Len(Order) /\ todo = {}

LEMMA EndedHolds == Spec => []Ended
<1>1. Init => Ended
  BY DEF Init, Ended
<1>2. Ended /\ [Next]_vars => Ended'
  <2> SUFFICES ASSUME Ended, [Next]_vars PROVE Ended'
    OBVIOUS
  <2> USE DEF Ended
  <2>1. CASE UNCHANGED vars
    BY <2>1 DEF vars, run
  <2>2. ASSUME NEW d \in BOOLEAN, Start(d) PROVE Ended'
    BY <2>2 DEF Start
  <2>3. ASSUME pc = "running",
               ImportMerged \/ NextDomain \/ \E r \in todo : Compare(r) \/ Insert(r) \/ ConflictByKey(r)
        PROVE  Ended'
    BY <2>3 DEF ImportMerged, NextDomain, Compare, Insert, ConflictByKey
  <2>4. ASSUME Crash \/ \E r \in todo : Abort(r) PROVE Ended'
    BY <2>4 DEF Crash, Abort
  <2>5. CASE Finish
    BY <2>5 DEF Finish
  <2> QED
    BY <2>1, <2>2, <2>3, <2>4, <2>5 DEF Next
<1> QED
  BY <1>1, <1>2, PTL DEF Spec

\* A row kept out by the key of one of the database has a rival in the database that
\* was found: the files have no two rows of a key.
LEMMA OldRival ==
    ASSUME Ledger, NEW T \in Targets, From(T), NEW d \in DeduplicatedDomains \cup {"sample_pool_items"},
           d \in Domains, NEW r \in source[d], Absent(before[d], r), SameKey(before[d], r)
    PROVE  Absent(T[d], r) /\ SameKey(T[d], r)
<1>1. T[d] \subseteq before[d] /\ before[d] \subseteq T[d] \cup source[d]
  BY DEF From
<1>2. PICK t \in before[d] : t.id # r.id /\ t.key = r.key
  BY DEF SameKey
<1>3. t \notin source[d]
  BY <1>2, KeysAssumption DEF Ledger, Shape
<1> QED
  BY <1>1, <1>2, <1>3 DEF Absent, SameKey

\* If all rows have been looked at and none is in conflict, all are kept or there.
LEMMA NoRival ==
    ASSUME RivalsShow, Ledger, pc \in {"running", "done"}, at = Len(Order), todo = {},
           report.conflicts = {}, NEW d \in Domains, NEW r \in source[d]
    PROVE  r \in before[d] \/ Kept(d, before[d], r)
<1>1. PICK T \in Targets : From(T)
  BY DEF Ledger
<1>2. ASSUME NEW e \in Domains, NEW q \in source[e] PROVE ~Clashes(e, before[e], q)
  BY <1>2, AllTaken DEF Ledger, ReportsOn
<1>3. Fresh(d, before[d], r) \/ r \in before[d]
  BY <1>2 DEF Clashes, Fresh, Absent, Differs
<1>4. ASSUME d \in DeduplicatedDomains, Fresh(d, before[d], r), SameKey(before[d], r) PROVE FALSE
  <2>1. Absent(T[d], r) /\ SameKey(T[d], r)
    BY <1>1, <1>4, OldRival DEF Fresh
  <2>2. PICK e \in Domains : \E q \in source[e] : Differs(T[e], q)
    BY <1>4, <2>1 DEF RivalsShow, Ledger, Shape
  <2>3. \E q \in source[e] : Differs(before[e], q)
    BY <1>1, <2>2 DEF Differs, From
  <2> QED
    BY <1>2, <2>3 DEF Clashes
<1> QED
  BY <1>3, <1>4 DEF Kept

\* So they are all in the database, and the report names those that were not.
LEMMA AllCopied ==
    ASSUME RivalsShow, Ledger, pc \in {"running", "done"}, at = Len(Order), todo = {},
           report.conflicts = {}, ~dry, NEW d \in Domains
    PROVE  /\ source[d] \subseteq target[d]
           /\ {n \in report.inserted : n[1] = d} = Named(d, target[d] \ before[d])
<1>1. Taken(d) = source[d]
  BY AllTaken
<1>2. \A r \in source[d] : r \in before[d] \/ Kept(d, before[d], r)
  BY NoRival
<1>3. target[d] = before[d] \cup {r \in source[d] : Kept(d, before[d], r)}
  BY <1>1 DEF Ledger, WritesOf
<1>4. source[d] \subseteq target[d]
  BY <1>2, <1>3
<1>5. \A r \in source[d] : Fresh(d, before[d], r) => r \notin before[d]
  BY DEF Fresh, Absent
<1>6. target[d] \ before[d] = {r \in source[d] : Fresh(d, before[d], r)}
  BY <1>2, <1>3, <1>5 DEF Kept
<1>7. \A r \in source[d] : <<d, r.id>> \in report.inserted <=> Fresh(d, before[d], r)
  BY <1>1 DEF Ledger, ReportsOn
<1>8. \A n \in report.inserted : \E e \in Domains : \E r \in source[e] : n = <<e, r.id>>
  BY DEF Ledger, Reportable, FileNames, Named
<1>9. {n \in report.inserted : n[1] = d} = Named(d, {r \in source[d] : Fresh(d, before[d], r)})
  BY <1>7, <1>8 DEF Named
<1> QED
  BY <1>4, <1>6, <1>9

\* A completed run without conflicts has copied all rows of the files, and its report
\* names as inserted just those the database did not have.
THEOREM CleanRunsCopy ==
    ASSUME RivalsShow
    PROVE  Spec => []CleanRunCopiesAll
<1>1. Ledger /\ Ended => CleanRunCopiesAll
  BY AllCopied DEF Ended, CleanRunCopiesAll
<1> QED
  BY <1>1, LedgerHolds, EndedHolds, PTL

\* After a clean run the rows of the files are in the database, and stay; a later run
\* finds them there.
Copied ==
    clean => \A d \in Domains : /\ source[d] \subseteq target[d]
                                /\ pc = "running" => source[d] \subseteq before[d]

\* Every step keeps that: a run becomes clean when it ends with all rows copied.
LEMMA StepCopied ==
    ASSUME RivalsShow, Ledger, Copied, [Next]_vars
    PROVE  Copied'
<1> SUFFICES ASSUME clean', NEW d \in Domains
             PROVE  /\ source'[d] \subseteq target'[d]
                    /\ pc' = "running" => source'[d] \subseteq before'[d]
  BY DEF Copied
<1>1. source' = source /\ target[d] \subseteq target'[d]
  <2>1. Shape /\ Grows
    BY StepGrows DEF Ledger
  <2> QED
    BY <2>1, StepRun DEF Grows, Shape
<1>2. CASE Finish /\ pc = "running"
  <2>1. pc' # "running"
    BY <1>2 DEF Finish
  <2>2. clean \/ (~dry /\ report.conflicts = {})
    BY <1>2 DEF Finish
  <2>3. CASE clean
    BY <1>1, <2>1, <2>3 DEF Copied
  <2>4. CASE ~dry /\ report.conflicts = {}
    <3>1. source[d] \subseteq target[d]
      BY <1>2, <2>4, AllCopied DEF Finish
    <3> QED
      BY <1>1, <2>1, <3>1
  <2> QED
    BY <2>2, <2>3, <2>4
<1>3. ASSUME NEW e \in BOOLEAN, Start(e)
      PROVE  /\ source'[d] \subseteq target'[d]
             /\ pc' = "running" => source'[d] \subseteq before'[d]
  <2>1. clean /\ before' = target
    BY <1>3 DEF Start
  <2> QED
    BY <1>1, <2>1 DEF Copied
<1>4. CASE clean /\ before' = before /\ (pc' = "running" => pc = "running")
  BY <1>1, <1>4 DEF Copied
<1>5. CASE UNCHANGED vars
  BY <1>4, <1>5 DEF vars, run, history
<1>6. ASSUME pc = "running",
             ImportMerged \/ NextDomain \/ \E r \in todo : Compare(r) \/ Insert(r) \/ ConflictByKey(r)
      PROVE  clean /\ before' = before
  BY <1>6 DEF ImportMerged, NextDomain, Compare, Insert, ConflictByKey, history
<1>7. ASSUME Crash \/ \E r \in todo : Abort(r) PROVE clean /\ before' = before /\ pc' = "failed"
  BY <1>7 DEF Crash, Abort
<1> QED
  BY <1>2, <1>3, <1>4, <1>5, <1>6, <1>7 DEF Next

LEMMA CopiedHolds ==
    ASSUME RivalsShow
    PROVE  Spec => []Copied
<1>1. Init => Copied
  BY DEF Init, Copied
<1>2. Ledger /\ Copied /\ [Next]_vars => Copied'
  BY StepCopied
<1> QED
  BY <1>1, <1>2, LedgerHolds, PTL DEF Spec

\* A run that finds all rows in the database reports none as inserted or in conflict.
LEMMA NothingNew ==
    ASSUME Ledger, pc = "running", \A d \in Domains : source[d] \subseteq before[d]
    PROVE  report.inserted = {} /\ report.conflicts = {}
<1>1. ASSUME NEW d \in Domains, NEW r \in source[d]
      PROVE  ~Fresh(d, before[d], r) /\ ~Clashes(d, before[d], r)
  <2>1. PICK T \in Targets : From(T)
    BY DEF Ledger
  <2>2. before[d] \subseteq target[d] /\ \A t, q \in target[d] : t.id = q.id => t = q
    BY <2>1 DEF From, Ledger, Shape, TypeOK
  <2>3. r \in before[d]
    OBVIOUS
  <2> QED
    BY <2>2, <2>3 DEF Fresh, Clashes, Absent, Differs
<1>2. report.inserted \subseteq FileNames /\ report.conflicts \subseteq FileNames
  BY DEF Ledger, Reportable
<1>3. ASSUME NEW n \in FileNames PROVE n \notin report.inserted /\ n \notin report.conflicts
  <2>1. PICK d \in Domains : n \in Named(d, source[d])
    BY DEF FileNames
  <2>2. PICK r \in source[d] : n = <<d, r.id>>
    BY <2>1 DEF Named
  <2> QED
    BY <1>1, <2>2 DEF Ledger, ReportsOn
<1> QED
  BY <1>2, <1>3

\* While a run goes on after a clean one, its report names neither.
NoNews == clean /\ pc = "running" => report.inserted = {} /\ report.conflicts = {}

\* After a run without conflicts a later one, dry or not, has nothing to insert and no
\* conflict at any of its steps.
THEOREM RerunsAreIdempotent ==
    ASSUME RivalsShow
    PROVE  Spec => RerunIsIdempotent
<1>1. Ledger /\ Copied => NoNews
  BY NothingNew DEF Copied, NoNews
<1>2. NoNews /\ NoNews' /\ [Next]_vars
        => [clean /\ pc = "running" => report'.inserted = {} /\ report'.conflicts = {}]_vars
  <2> SUFFICES ASSUME NoNews, NoNews', Next, clean, pc = "running"
               PROVE  report'.inserted = {} /\ report'.conflicts = {}
    OBVIOUS
  <2>1. CASE ImportMerged \/ NextDomain \/ \E r \in todo : Compare(r) \/ Insert(r) \/ ConflictByKey(r)
    <3>1. pc' = "running" /\ clean'
      BY <2>1 DEF ImportMerged, NextDomain, Compare, Insert, ConflictByKey, history
    <3> QED
      BY <3>1 DEF NoNews
  <2>2. CASE Finish \/ Crash \/ \E r \in todo : Abort(r)
    BY <2>2 DEF NoNews, Finish, Crash, Abort
  <2>3. ~\E d \in BOOLEAN : Start(d)
    BY DEF Start
  <2> QED
    BY <2>1, <2>2, <2>3 DEF Next
<1> QED
  BY <1>1, <1>2, LedgerHolds, CopiedHolds, PTL DEF Spec, RerunIsIdempotent

-----------------------------------------------------------------------------
(* A dry run and the run after it.                                            *)

\* The report a run ends with that copies the files S to the database T.
Planned(S, T) ==
    [inserted |-> UNION {Named(d, {r \in S[d] : Fresh(d, T[d], r)}) : d \in Domains},
     matched |-> UNION {Named(d, {r \in S[d] : r \in T[d]}) : d \in Domains},
     conflicts |-> UNION {Named(d, {r \in S[d] : Clashes(d, T[d], r)}) : d \in Domains}]

\* A plan is of the database as it is, or as the run under way has found it; and what
\* a dry run has found is as it was.
Foreseen ==
    /\ plan = NoPlan \/ (pc = "running" /\ plan = Planned(source, before))
                     \/ (pc # "running" /\ plan = Planned(source, target))
    /\ dry /\ pc = "running" => target = before

\* It is the verdict on all rows.
LEMMA WholeReport ==
    ASSUME Ledger, pc = "running", at = Len(Order), todo = {}
    PROVE  report = Planned(source, before)
<1>1. \A n : n \in FileNames <=> \E d \in Domains : \E r \in source[d] : n = <<d, r.id>>
  BY DEF FileNames, Named
<1>2. \A n : n \in UNION {Named(d, {r \in source[d] : Fresh(d, before[d], r)}) : d \in Domains}
              <=> \E d \in Domains : \E r \in source[d] : n = <<d, r.id>> /\ Fresh(d, before[d], r)
  BY DEF Named
<1>3. \A n : n \in UNION {Named(d, {r \in source[d] : r \in before[d]}) : d \in Domains}
              <=> \E d \in Domains : \E r \in source[d] : n = <<d, r.id>> /\ r \in before[d]
  BY DEF Named
<1>4. \A n : n \in UNION {Named(d, {r \in source[d] : Clashes(d, before[d], r)}) : d \in Domains}
              <=> \E d \in Domains : \E r \in source[d] : n = <<d, r.id>> /\ Clashes(d, before[d], r)
  BY DEF Named
<1>5. \A d \in Domains : \A r \in source[d] :
        /\ <<d, r.id>> \in report.inserted <=> Fresh(d, before[d], r)
        /\ <<d, r.id>> \in report.matched <=> r \in before[d]
        /\ <<d, r.id>> \in report.conflicts <=> Clashes(d, before[d], r)
  BY AllTaken DEF Ledger, ReportsOn
<1>6. report \in [inserted : SUBSET FileNames, matched : SUBSET FileNames,
                  conflicts : SUBSET FileNames]
  BY DEF Ledger, Reportable
<1>7. report.inserted = Planned(source, before).inserted
  <2>1. \A n : n \in report.inserted
                <=> \E d \in Domains : \E r \in source[d] : n = <<d, r.id>> /\ Fresh(d, before[d], r)
    BY <1>1, <1>5, <1>6
  <2> QED
    BY <1>2, <2>1 DEF Planned
<1>8. report.matched = Planned(source, before).matched
  <2>1. \A n : n \in report.matched
                <=> \E d \in Domains : \E r \in source[d] : n = <<d, r.id>> /\ r \in before[d]
    BY <1>1, <1>5, <1>6
  <2> QED
    BY <1>3, <2>1 DEF Planned
<1>9. report.conflicts = Planned(source, before).conflicts
  <2>1. \A n : n \in report.conflicts
                <=> \E d \in Domains : \E r \in source[d] : n = <<d, r.id>> /\ Clashes(d, before[d], r)
    BY <1>1, <1>5, <1>6
  <2> QED
    BY <1>4, <2>1 DEF Planned
<1> QED
  BY <1>6, <1>7, <1>8, <1>9 DEF Planned

\* Every step keeps what is foreseen.
LEMMA StepForeseen ==
    ASSUME Ledger, Foreseen, [Next]_vars
    PROVE  Foreseen'
<1>1. source' = source
  BY StepRun DEF Ledger
<1>2. CASE UNCHANGED vars
  BY <1>1, <1>2 DEF vars, run, history, Foreseen
<1>3. ASSUME NEW d \in BOOLEAN, Start(d) PROVE Foreseen'
  <2>1. /\ pc # "running" /\ pc' = "running" /\ before' = target /\ target' = target
        /\ plan' = plan
    BY <1>3 DEF Start
  <2> QED
    BY <1>1, <2>1 DEF Foreseen
<1>4. ASSUME pc = "running",
             ImportMerged \/ NextDomain \/ \E r \in todo : Compare(r) \/ Insert(r) \/ ConflictByKey(r)
      PROVE  Foreseen'
  <2>1. pc' = pc /\ dry' = dry /\ before' = before /\ plan' = plan
    BY <1>4 DEF ImportMerged, NextDomain, Compare, Insert, ConflictByKey, history
  <2>2. dry => target' = target
    BY <1>4 DEF ImportMerged, NextDomain, Compare, Insert, ConflictByKey, Written
  <2> QED
    BY <1>1, <1>4, <2>1, <2>2 DEF Foreseen
<1>5. ASSUME pc = "running", Crash \/ \E r \in todo : Abort(r) PROVE Foreseen'
  <2>1. pc' = "failed" /\ target' = target /\ Unplanned
    BY <1>5 DEF Crash, Abort
  <2> QED
    BY <1>1, <1>5, <2>1 DEF Foreseen, Unplanned
<1>6. ASSUME pc = "running", Finish PROVE Foreseen'
  <2>1. /\ pc' = "done" /\ target' = target
        /\ IF dry THEN plan' = report ELSE Unplanned
    BY <1>6 DEF Finish
  <2>2. report = Planned(source, before)
    BY <1>6, WholeReport DEF Finish
  <2> QED
    BY <1>1, <1>6, <2>1, <2>2 DEF Foreseen, Unplanned
<1> QED
  BY <1>2, <1>3, <1>4, <1>5, <1>6 DEF Next

\* A dry run changes nothing, and a completed run, dry or not, reports exactly what a
\* dry run of the same database has announced.
THEOREM PlansAreKept == Spec => PlanIsKept
<1>1. Init => Foreseen
  BY DEF Init, Foreseen
<1>2. Ledger /\ Foreseen /\ [Next]_vars => Foreseen'
  BY StepForeseen
<1>3. Ledger /\ Foreseen /\ [Next]_vars =>
        [/\ dry /\ pc = "running" => target' = target
         /\ pc = "running" /\ pc' = "done" /\ plan # NoPlan => report = plan]_vars
  <2> SUFFICES ASSUME Ledger, Foreseen, Next, pc = "running"
               PROVE  /\ dry => target' = target
                      /\ pc' = "done" /\ plan # NoPlan => report = plan
    OBVIOUS
  <2>1. CASE ImportMerged \/ NextDomain \/ \E r \in todo : Compare(r) \/ Insert(r) \/ ConflictByKey(r)
    BY <2>1 DEF ImportMerged, NextDomain, Compare, Insert, ConflictByKey, Written
  <2>2. CASE Crash \/ \E r \in todo : Abort(r)
    BY <2>2 DEF Crash, Abort
  <2>3. CASE Finish
    <3>1. report = Planned(source, before)
      BY <2>3, WholeReport DEF Finish
    <3> QED
      BY <2>3, <3>1 DEF Finish, Foreseen
  <2>4. ~\E d \in BOOLEAN : Start(d)
    BY DEF Start
  <2> QED
    BY <2>1, <2>2, <2>3, <2>4 DEF Next
<1> QED
  BY <1>1, <1>2, <1>3, LedgerHolds, PTL DEF Spec, PlanIsKept

-----------------------------------------------------------------------------
(* What the rows of the database name.                                        *)

\* Rows name rows of domains.
LEMMA NamingDomains == \A p \in Naming : p[1] \in Domains /\ p[2] \in Domains
<1>1. Domains = {"users", "role_bindings", "sessions", "audit_events", "dataset_type_registry",
      "registered_batches", "label_configs", "label_config_active_pointers",
      "qc_assignments", "qc_tasks", "qc_leases", "annotation_snapshots",
      "modification_events", "evaluations", "qc_batch_drafts", "qc_drafts",
      "qc_submissions", "sample_pool_items", "export_jobs"}
  <2>1. Len(Order) = 19
    BY DEF Order
  <2>2. Domains = {Order[1], Order[2], Order[3], Order[4], Order[5], Order[6], Order[7], Order[8],
                   Order[9], Order[10], Order[11], Order[12], Order[13], Order[14], Order[15],
                   Order[16], Order[17], Order[18], Order[19]}
    BY <2>1 DEF Domains
  <2> QED
    BY <2>2 DEF Order
<1> QED
  BY <1>1 DEF Naming, Late

\* What a writing run has looked at is there by its id, if it is welcome.
LEMMA Arrives ==
    ASSUME Ledger, pc \in {"running", "done"}, ~dry,
           NEW e \in Domains, NEW q \in Taken(e), Welcome(e, q)
    PROVE  Stored(e, q.id)
<1>1. PICK T \in Targets : From(T)
  BY DEF Ledger
<1>2. target[e] = before[e] \cup {r \in Taken(e) : Kept(e, before[e], r)}
  BY DEF Ledger, WritesOf
<1>3. q \in source[e]
  BY DEF Taken
<1>4. CASE Absent(before[e], q)
  <2>1. Kept(e, before[e], q)
    <3>1. CASE SameKey(before[e], q) /\ e \in DeduplicatedDomains \cup {"sample_pool_items"}
      <4>1. Absent(T[e], q) /\ SameKey(T[e], q)
        BY <1>1, <1>3, <1>4, <3>1, OldRival
      <4> QED
        BY <3>1, <4>1 DEF Welcome
    <3> QED
      BY <1>4, <3>1 DEF Kept, Fresh
  <2> QED
    BY <1>2, <2>1 DEF Stored
<1>5. CASE ~Absent(before[e], q)
  BY <1>2, <1>5 DEF Absent, Stored
<1> QED
  BY <1>4, <1>5

\* The rows of a domain that comes before the one being imported have been looked at.
LEMMA TakenBefore ==
    ASSUME Shape, NEW d, d = Here, NEW e, <<d, e>> \in Naming, <<d, e>> \notin Late
    PROVE  Taken(e) = source[e]
<1>1. PICK i \in 1..Len(Order), j \in 1..Len(Order) : j < i /\ <<d, e>> = <<Order[i], Order[j]>>
  BY NamedBefore
<1>2. i = at /\ at \in 1..Len(Order) /\ Len(Order) \in Nat
  BY <1>1, OrderedDomains, DistinctDomains DEF Shape, TypeOK, Here
<1>3. j \in 1..(at - 1) /\ e # Here
  BY <1>1, <1>2, DistinctDomains DEF Here
<1> QED
  BY <1>1, <1>3 DEF Taken

\* The invariant: all but the late rows resolve.
Resolves ==
    \A d \in Domains : \A r \in target[d] : \A ref \in r.refs :
        Stored(ref[1], ref[2]) \/ <<d, ref[1]>> \in Late

\* A row that is there now was there, or has just been stored.
LEMMA NewRow ==
    ASSUME Shape, Next, NEW d \in Domains, NEW r \in target'[d], r \notin target[d]
    PROVE  pc = "running" /\ ~dry /\ d = Here /\ r \in todo /\ (ImportMerged \/ Insert(r))
<1>1. ~\E e \in BOOLEAN : Start(e)
  BY DEF Start
<1>2. ~(NextDomain \/ Finish \/ Crash \/ \E q \in todo : Compare(q) \/ ConflictByKey(q) \/ Abort(q))
  BY DEF NextDomain, Finish, Crash, Compare, ConflictByKey, Abort
<1>3. CASE ImportMerged
  <2>1. ~dry /\ target' = [target EXCEPT ![Here] = Merged(target[Here], todo)]
    BY <1>3 DEF ImportMerged
  <2> QED
    BY <1>1, <1>3, <2>1 DEF Merged, Shape, Next
<1>4. ASSUME NEW q \in todo, Insert(q) PROVE ~dry /\ d = Here /\ r = q
  BY <1>4 DEF Insert, Written, Shape
<1> QED
  BY <1>1, <1>2, <1>3, <1>4 DEF Next

\* What a row names that has just been stored was there, unless it is late.
LEMMA NewResolves ==
    ASSUME NamesResolve, Ledger, Next, NEW d \in Domains, NEW r \in target'[d], r \notin target[d],
           NEW ref \in r.refs, <<d, ref[1]>> \notin Late
    PROVE  Stored(ref[1], ref[2])
<1>1. pc = "running" /\ ~dry /\ d = Here /\ r \in todo /\ (ImportMerged \/ Insert(r))
  BY NewRow DEF Ledger
<1>2. r \in source[d] /\ source \in Sources
  BY <1>1 DEF Ledger, Shape, TypeOK
<1>3. CASE d = "label_config_active_pointers"
  <2>1. Insert(r) /\ Storable(r)
    BY <1>1, <1>3 DEF ImportMerged, Insert, MergedDomains
  <2> QED
    BY <1>1, <1>3, <2>1 DEF Storable
<1>4. CASE d # "label_config_active_pointers"
  <2>1. <<d, ref[1]>> \in Naming
    BY <1>2 DEF NamesResolve
  <2>2. PICK q \in source[ref[1]] : q.id = ref[2] /\ Welcome(ref[1], q)
    BY <1>2, <1>4 DEF NamesResolve
  <2>3. q \in Taken(ref[1])
    BY <1>1, <2>1, <2>2, TakenBefore DEF Ledger
  <2>4. ref[1] \in Domains
    BY <2>1, NamingDomains
  <2> QED
    BY <1>1, <2>2, <2>3, <2>4, Arrives
<1> QED
  BY <1>3, <1>4

\* Every step keeps that: rows stay, and a new one names what is there.
LEMMA StepResolves ==
    ASSUME NamesResolve, Ledger, Resolves, [Next]_vars
    PROVE  Resolves'
<1> SUFFICES ASSUME NEW d \in Domains, NEW r \in target'[d], NEW ref \in r.refs,
                    <<d, ref[1]>> \notin Late
             PROVE  Stored(ref[1], ref[2])'
  BY DEF Resolves
<1>1. Shape /\ Grows
  BY StepGrows DEF Ledger
<1>2. \A e \in Domains : target[e] \subseteq target'[e]
  BY <1>1 DEF Grows, Shape
<1>3. CASE r \in target[d]
  <2>1. Stored(ref[1], ref[2])
    BY <1>3 DEF Resolves
  <2>2. ref[1] \in Domains
    <3>1. PICK T \in Targets : From(T)
      BY DEF Ledger
    <3>2. r \in T[d] \/ r \in source[d]
      BY <1>3, <3>1 DEF From
    <3>3. <<d, ref[1]>> \in Naming
      BY <1>1, <3>1, <3>2 DEF NamesResolve, Shape
    <3> QED
      BY <3>3, NamingDomains
  <2> QED
    BY <1>2, <2>1, <2>2 DEF Stored
<1>4. CASE r \notin target[d]
  <2>1. Next
    BY <1>4 DEF vars
  <2>2. Stored(ref[1], ref[2])
    BY <1>4, <2>1, NewResolves
  <2>3. r \in source[d] /\ source \in Sources
    BY <1>1, <1>4, <2>1, NewRow DEF Shape, TypeOK
  <2>4. ref[1] \in Domains
    BY <2>3, NamingDomains DEF NamesResolve
  <2> QED
    BY <1>2, <2>2, <2>4 DEF Stored
<1> QED
  BY <1>3, <1>4

\* At the end of a writing run the late rows resolve as well.
LEMMA LateResolve ==
    ASSUME NamesResolve, Ledger, Ended, Resolves, pc = "done", ~dry,
           NEW d \in Domains, NEW r \in target[d], NEW ref \in r.refs
    PROVE  Stored(ref[1], ref[2])
<1>1. PICK T \in Targets : From(T)
  BY DEF Ledger
<1>2. r \in T[d] \/ r \in source[d]
  BY <1>1 DEF From
<1>3. source \in Sources /\ at = Len(Order) /\ todo = {}
  BY DEF Ledger, Shape, Ended
<1>4. <<d, ref[1]>> \in Naming
  BY <1>1, <1>2, <1>3 DEF NamesResolve
<1>5. ref[1] \in Domains
  BY <1>4, NamingDomains
<1>6. CASE r \in T[d]
  <2>1. T[ref[1]] \subseteq target[ref[1]]
    BY <1>1, <1>5 DEF From
  <2> QED
    BY <1>6, <2>1 DEF NamesResolve, Stored
<1>7. CASE r \in source[d] /\ d # "label_config_active_pointers"
  <2>1. PICK q \in source[ref[1]] : q.id = ref[2] /\ Welcome(ref[1], q)
    BY <1>3, <1>7 DEF NamesResolve
  <2>2. q \in Taken(ref[1])
    BY <1>3, <1>5, <2>1, AllTaken
  <2> QED
    BY <1>5, <2>1, <2>2, Arrives
<1>8. CASE d = "label_config_active_pointers"
  BY <1>8 DEF Resolves, Late
<1> QED
  BY <1>2, <1>6, <1>7, <1>8

\* Wherever a run stops, a row of the database names only rows of the database, but
\* for the late ones; and these have theirs at the end of a run.
THEOREM NamesAreThere ==
    ASSUME NamesResolve
    PROVE  Spec => []ReferencesResolve
<1>1. Init => Resolves
  BY DEF Init, Resolves, NamesResolve, Stored
<1>2. Ledger /\ Resolves /\ [Next]_vars => Resolves'
  BY StepResolves
<1>3. Ledger /\ Ended /\ Resolves => ReferencesResolve
  BY LateResolve DEF Resolves, ReferencesResolve
<1> QED
  BY <1>1, <1>2, <1>3, LedgerHolds, EndedHolds, PTL DEF Spec
=============================================================================
