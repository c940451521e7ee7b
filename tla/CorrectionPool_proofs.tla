----------------------- MODULE CorrectionPool_proofs -----------------------
(***************************************************************************)
(* Theorems about CorrectionPool, for any samples, fields, leads, configs, *)
(* stores and bounds: the types, what snapshots, events and pool items say *)
(* of each other, and the export jobs.                                     *)
(***************************************************************************)
EXTENDS CorrectionPool, FiniteSetTheorems, TLAPS

-----------------------------------------------------------------------------
\* Lemmas about the operators.

\* What Pooled does to the pool: nothing, or k's item is active with the events E.
LEMMA PooledItems ==
    ASSUME NEW k, NEW E
    PROVE  \/ E = {} /\ Pooled(k, E) = pool
           \/ /\ E # {}
              /\ DOMAIN Pooled(k, E) = {k} \cup DOMAIN pool
              /\ Pooled(k, E)[k] = [status |-> "active", events |-> E]
              /\ \A l \in DOMAIN pool \ {k} : Pooled(k, E)[l] = pool[l]
BY DEF Pooled

\* Events are only added, and of a transaction (the database, or a request that
\* was not stopped) all or none.
LEMMA StoredEvents ==
    ASSUME NEW new, NEW whole \in BOOLEAN, NEW E \in Stored(new, whole)
    PROVE  /\ events \subseteq E /\ E \subseteq events \cup new
           /\ whole => E = events \cup new
           /\ store = "database" /\ ~whole => E = events
BY DEF Stored

\* The submissions that exist are those that are records of a sample.
LEMMA ExistingSubs ==
    ASSUME subs \in [SubIds -> Sub \cup {NoSub, Gone}]
    PROVE  \A i \in SubIds : i \in Existing <=> subs[i] \in Sub
BY CorrectionPoolAssumption DEF Existing, Sub, NoSub, Gone

\* What a confirmation stores is of the right kind.
LEMMA ConfirmTypes ==
    ASSUME TypeOK, NEW i \in Existing, NEW lead \in Leads
    PROVE  /\ subs[i] \in Sub /\ i \in SubIds /\ i \in 0..MaxSubs
           /\ Baseline(subs[i].sample) \in Snapshot
           /\ Confirmed(i) \in Snapshot /\ Confirmed(i).kind = "confirmed"
           /\ \A e \in Diff(i, lead) : e \in Event
<1>1. i \in SubIds /\ subs[i] \in Sub
  BY ExistingSubs DEF TypeOK, Existing
<1>2. subs[i].sample \in Samples /\ subs[i].edits \subseteq Fields
  BY <1>1 DEF Sub
<1>3. i \in 0..MaxSubs /\ 0 \in 0..MaxSubs
  BY <1>1, CorrectionPoolAssumption DEF SubIds
<1>4. imported[subs[i].sample] \subseteq Fields /\ config[subs[i].sample] \in Configs \cup {NoConfig}
  BY <1>2 DEF TypeOK
<1> losses \in 0..MaxDeletions
  BY CorrectionPoolAssumption DEF TypeOK
<1>5. Baseline(subs[i].sample) \in Snapshot
  BY <1>2, <1>3, <1>4 DEF Baseline, Snapshot
<1>6. Confirmed(i) \in Snapshot /\ Confirmed(i).kind = "confirmed"
  BY <1>2, <1>3, <1>4 DEF Confirmed, Snapshot
<1>7. \A e \in Diff(i, lead) : e \in Event
  BY <1>1, <1>6 DEF Diff, Event, Snapshot
<1> QED
  BY <1>1, <1>3, <1>5, <1>6, <1>7

-----------------------------------------------------------------------------
\* Types.

Types == TypeOK /\ IsFiniteSet(DOMAIN pool)

\* An item of a confirmed snapshot keeps the pool's type and finiteness.
LEMMA PooledTypes ==
    ASSUME Types, NEW k \in Snapshot, k.kind = "confirmed",
           NEW E, \A e \in E : e \in Event
    PROVE  /\ IsFiniteSet(DOMAIN Pooled(k, E))
           /\ \A l \in DOMAIN Pooled(k, E) :
                 /\ l \in Snapshot /\ l.kind = "confirmed"
                 /\ Pooled(k, E)[l].status \in ItemStatus
                 /\ \A e \in Pooled(k, E)[l].events : e \in Event
<1>1. CASE Pooled(k, E) = pool
  BY <1>1 DEF Types, TypeOK
<1>2. CASE /\ DOMAIN Pooled(k, E) = {k} \cup DOMAIN pool
           /\ Pooled(k, E)[k] = [status |-> "active", events |-> E]
           /\ \A l \in DOMAIN pool \ {k} : Pooled(k, E)[l] = pool[l]
  <2>1. IsFiniteSet(DOMAIN Pooled(k, E))
    <3>1. DOMAIN Pooled(k, E) = DOMAIN pool \cup {k}
      BY <1>2
    <3> QED
      BY <3>1, FS_AddElement DEF Types
  <2>2. \A l \in DOMAIN pool :
          /\ l \in Snapshot /\ l.kind = "confirmed"
          /\ pool[l].status \in ItemStatus /\ \A e \in pool[l].events : e \in Event
    BY DEF Types, TypeOK
  <2> QED
    BY <1>2, <2>1, <2>2 DEF ItemStatus
<1>3. \/ Pooled(k, E) = pool
      \/ /\ DOMAIN Pooled(k, E) = {k} \cup DOMAIN pool
         /\ Pooled(k, E)[k] = [status |-> "active", events |-> E]
         /\ \A l \in DOMAIN pool \ {k} : Pooled(k, E)[l] = pool[l]
  BY DEF Pooled
<1> QED
  BY <1>1, <1>2, <1>3, Zenon

\* What an export files are stored snapshots.
LEMMA FiledTypes ==
    ASSUME Types, NEW j \in Jobs, NEW wanted,
           artifacts' = artifacts \/ artifacts' = [artifacts EXCEPT ![j] = Payload(wanted)]
    PROVE  /\ DOMAIN artifacts' = Jobs
           /\ \A h \in Jobs : \A k \in artifacts'[h] : k \in Snapshot
BY DEF Types, TypeOK, Payload

\* Initial states are of the right types.
LEMMA InitTypes == Init => Types
<1> SUFFICES ASSUME Init PROVE Types
  OBVIOUS
<1>1. DOMAIN pool = {}
  BY DEF Init
<1>2. IsFiniteSet(DOMAIN pool)
  BY <1>1, FS_EmptySet
<1> QED
  BY <1>1, <1>2, CorrectionPoolAssumption DEF Init, Types, TypeOK, past

\* Every step keeps the types.
LEMMA StepTypes == Types /\ [Next]_vars => Types'
<1> SUFFICES ASSUME Types, [Next]_vars PROVE Types'
  OBVIOUS
<1>1. CASE UNCHANGED vars
  BY <1>1 DEF vars, review, loop, exports, past, Types, TypeOK
<1>2. ASSUME NEW i \in SubIds, NEW s \in Samples, NEW E \in SUBSET Fields,
             NEW c \in Configs, NEW whole \in BOOLEAN, Submit(i, s, E, c, whole)
      PROVE  Types'
  <2>1. [sample |-> s, edits |-> E] \in Sub
    BY DEF Sub
  <2>2. subs' \in [SubIds -> Sub \cup {NoSub, Gone}]
    BY <1>2, <2>1 DEF Submit, Types, TypeOK
  <2> QED
    BY <1>2, <2>2 DEF Submit, loop, exports, past, Types, TypeOK
<1>3. ASSUME NEW s \in Samples, Reopen(s) PROVE Types'
  BY <1>3 DEF Reopen, loop, exports, past, Types, TypeOK
<1>4. ASSUME NEW i \in Existing, NEW lead \in Leads, NEW n \in 1..5, Confirm(i, lead, n)
      PROVE  Types'
  <2>1. /\ subs[i] \in Sub
        /\ Baseline(subs[i].sample) \in Snapshot
        /\ Confirmed(i) \in Snapshot /\ Confirmed(i).kind = "confirmed"
        /\ \A e \in Diff(i, lead) : e \in Event
    BY ConfirmTypes DEF Types
  <2>2. \A k \in snaps' : k \in Snapshot
    BY <1>4, <2>1 DEF Confirm, Types, TypeOK
  <2>3. \A e \in events \cup Diff(i, lead) : e \in Event
    BY <2>1 DEF Types, TypeOK
  <2>4. \A e \in events' : e \in Event
    <3>1. events' = events \/ events' \in Stored(Diff(i, lead), n >= 3)
      BY <1>4 DEF Confirm
    <3>2. (n >= 3) \in BOOLEAN
      OBVIOUS
    <3>3. events' \subseteq events \cup Diff(i, lead)
      BY <3>1, <3>2 DEF Stored
    <3> QED
      BY <2>3, <3>3
  <2>5. /\ IsFiniteSet(DOMAIN pool')
        /\ \A l \in DOMAIN pool' :
              /\ l \in Snapshot /\ l.kind = "confirmed"
              /\ pool'[l].status \in ItemStatus /\ \A e \in pool'[l].events : e \in Event
    <3>1. CASE pool' = pool
      BY <3>1 DEF Types, TypeOK
    <3>2. CASE pool' = Pooled(Confirmed(i), EventsOf(events \cup Diff(i, lead), i))
      BY <2>1, <2>3, <3>2, PooledTypes DEF EventsOf
    <3> QED
      BY <1>4, <3>1, <3>2 DEF Confirm
  <2>6. status' \in [Samples -> {"open", "submitted", "completed"}]
    BY <1>4, <2>1 DEF Confirm, Types, TypeOK, Sub
  <2> QED
    BY <1>4, <2>2, <2>4, <2>5, <2>6 DEF Confirm, exports, past, Types, TypeOK
<1>5. ASSUME NEW i \in Existing, Return(i) PROVE Types'
  BY <1>5 DEF Return, loop, exports, past, Types, TypeOK
<1>6. ASSUME NEW k \in snaps, UpsertItem(k) PROVE Types'
  <2>1. k \in Snapshot /\ k.kind = "confirmed" /\ \A e \in EventsOf(events, k.sub) : e \in Event
    BY <1>6 DEF UpsertItem, Poolable, Types, TypeOK, EventsOf
  <2>2. /\ IsFiniteSet(DOMAIN pool')
        /\ \A l \in DOMAIN pool' :
              /\ l \in Snapshot /\ l.kind = "confirmed"
              /\ pool'[l].status \in ItemStatus /\ \A e \in pool'[l].events : e \in Event
    BY <1>6, <2>1, PooledTypes DEF UpsertItem
  <2> QED
    BY <1>6, <2>2 DEF UpsertItem, review, exports, past, Types, TypeOK
<1>7. ASSUME NEW k \in DOMAIN pool, RemoveItem(k) PROVE Types'
  <2>1. DOMAIN pool' = DOMAIN pool
    BY <1>7 DEF RemoveItem
  <2>2. \A l \in DOMAIN pool : pool'[l].events = pool[l].events
                               /\ pool'[l].status \in {pool[l].status, "removed"}
    BY <1>7 DEF RemoveItem
  <2> QED
    BY <1>7, <2>1, <2>2 DEF RemoveItem, review, exports, past, Types, TypeOK, ItemStatus
<1>8. ASSUME NEW j \in Jobs, NEW wanted \in SUBSET DOMAIN pool, NEW ofBatch \in BOOLEAN,
             NEW n \in 1..4, CreateExport(j, wanted, ofBatch, n)
      PROVE  Types'
  <2>1. Cardinality(Sources(wanted)) \in Nat
    BY FS_Subset, FS_CardinalityType DEF Types, Sources
  <2>2. RowAfter(n) \in JobStatus
    BY DEF RowAfter, JobStatus
  <2>3. jobs' \in [Jobs -> [status : JobStatus, ofBatch : BOOLEAN, items : Nat] \cup {NoJob}]
    BY <1>8, <2>1, <2>2 DEF CreateExport, Types, TypeOK
  <2>4. artifacts' = artifacts \/ artifacts' = [artifacts EXCEPT ![j] = Payload(wanted)]
    BY <1>8 DEF CreateExport
  <2> QED
    BY <1>8, <2>3, <2>4, FiledTypes DEF CreateExport, review, loop, past, Types, TypeOK
<1>9. ASSUME NEW j \in Jobs, NEW wanted \in SUBSET DOMAIN pool, NEW ofBatch \in BOOLEAN,
             FailExport(j, wanted, ofBatch)
      PROVE  Types'
  <2>1. artifacts' = artifacts \/ artifacts' = [artifacts EXCEPT ![j] = Payload(wanted)]
    BY <1>9 DEF FailExport
  <2> QED
    BY <1>9, <2>1, FiledTypes DEF FailExport, review, loop, past, Types, TypeOK, JobStatus
<1>10. ASSUME NEW j \in Jobs, CancelExport(j) PROVE Types'
  BY <1>10 DEF CancelExport, Cancellable, NoJob, review, loop, past, Types, TypeOK, JobStatus
<1>11. ASSUME NEW n \in 0..3, NEW left \in SUBSET Existing, NEW kept \in SUBSET Shared,
              DeleteBatch(n, left, kept)
       PROVE  Types'
  <2>1. DOMAIN pool' = {} \/ pool' = pool
    BY <1>11 DEF DeleteBatch
  <2>2. /\ IsFiniteSet(DOMAIN pool')
        /\ \A l \in DOMAIN pool' :
              /\ l \in Snapshot /\ l.kind = "confirmed"
              /\ pool'[l].status \in ItemStatus /\ \A e \in pool'[l].events : e \in Event
    BY <2>1, FS_EmptySet DEF Types, TypeOK
  <2>3. subs' \in [SubIds -> Sub \cup {NoSub, Gone}]
    BY <1>11 DEF DeleteBatch, Types, TypeOK
  <2>4. served' \in BOOLEAN /\ snaps' \subseteq snaps /\ events' \subseteq events
    BY <1>11 DEF DeleteBatch
  <2>5. /\ status' \in [Samples -> {"open", "submitted", "completed"}]
        /\ config' \in [Samples -> Configs \cup {NoConfig}]
    BY <1>11 DEF DeleteBatch, Types, TypeOK
  <2>6. deletions' \in 0..MaxDeletions /\ losses' \in 0..deletions'
    BY <1>11, CorrectionPoolAssumption DEF DeleteBatch, Types, TypeOK
  <2>7. torn' \in SUBSET SubIds
    BY <1>11 DEF DeleteBatch, Existing, Types, TypeOK
  <2>8. UNCHANGED <<store, imported, reimports, jobs, artifacts>>
    BY <1>11 DEF DeleteBatch, exports
  <2> QED
    BY <2>2, <2>3, <2>4, <2>5, <2>6, <2>7, <2>8 DEF Types, TypeOK
<1>12. ASSUME NEW I \in [Samples -> SUBSET Fields], Register(I) \/ Reimport(I) PROVE Types'
  <2>1. reimports' \in 0..MaxReimports /\ imported' = I /\ served' = TRUE
    BY <1>12, CorrectionPoolAssumption DEF Register, Reimport, Import, Types, TypeOK
  <2>2. UNCHANGED <<store, deletions, losses, torn, status, config, subs, snaps, events, pool,
                    jobs, artifacts>>
    BY <1>12 DEF Register, Reimport, loop, exports
  <2> QED
    BY <2>1, <2>2 DEF Types, TypeOK
<1> QED
  BY <1>1, <1>2, <1>3, <1>4, <1>5, <1>6, <1>7, <1>8, <1>9, <1>10, <1>11, <1>12 DEF Next

\* Type correctness of the closed loop and the export jobs.
THEOREM PoolTypes == Spec => []TypeOK
<1>1. Types => TypeOK
  BY DEF Types
<1> QED
  BY <1>1, InitTypes, StepTypes, PTL DEF Spec

-----------------------------------------------------------------------------
\* Snapshots, events and pool items.

\* Events E account for all edits of submission i to a stored baseline.
Accounts(i, E) ==
    \E b \in snaps :
        /\ b.kind = "baseline" /\ b.sample = subs[i].sample
        /\ subs[i].edits \ b.fields \subseteq {e.field : e \in E}

\* Confirmed snapshot k is of a submission and, if that is there, what it makes of
\* a stored baseline.
Made(k) ==
    /\ k.sub \in SubIds /\ subs[k.sub] # NoSub
    /\ subs[k.sub] \in Sub => k.sample = subs[k.sub].sample /\ MadeOfBaseline(k)

\* Event e is of a submission and, if that is there, a change that it made.
Meant(e) ==
    /\ e.sub \in SubIds /\ subs[e.sub] # NoSub
    /\ subs[e.sub] \in Sub => e.field \in subs[e.sub].edits

\* The item of k, if its submission is there, tells of its edits and, if that is not
\* torn, has its snapshot and its events.
Sourced(k) ==
    /\ k.sub \in SubIds /\ subs[k.sub] # NoSub
    /\ subs[k.sub] \in Sub =>
        /\ pool[k].events # {}
        /\ \A e \in pool[k].events : e.field \in subs[k.sub].edits
        /\ k.sub \notin torn =>
             /\ k \in snaps /\ pool[k].events \subseteq EventsOf(events, k.sub)
             /\ store = "database" => Accounts(k.sub, pool[k].events)

\* The inductive invariant: PoolExplained, and what it rests on for the snapshots
\* and events from which an item may be made any time.
Traced ==
    /\ \A k \in snaps : k.kind = "confirmed" => Made(k)
    /\ \A e \in events : Meant(e)
    /\ store = "database" =>
         \A i \in SubIds : subs[i] \in Sub /\ EventsOf(events, i) # {} =>
           Accounts(i, EventsOf(events, i))
    /\ \A k \in DOMAIN pool : Sourced(k)

LEMMA TracedExplains == Types /\ Traced => PoolExplained
<1> SUFFICES ASSUME Types, Traced, NEW k \in DOMAIN pool, k.sub \in Existing
             PROVE  /\ pool[k].events # {}
                    /\ {e.field : e \in pool[k].events} \subseteq subs[k.sub].edits
                    /\ k.sub \notin torn =>
                         /\ k \in snaps /\ MadeOfBaseline(k)
                         /\ pool[k].events \subseteq EventsOf(events, k.sub)
                         /\ store = "database" =>
                              \E b \in snaps :
                                /\ b.kind = "baseline" /\ b.sample = k.sample
                                /\ subs[k.sub].edits \ b.fields
                                     \subseteq {e.field : e \in pool[k].events}
  BY DEF PoolExplained
<1>1. k.sub \in SubIds /\ subs[k.sub] \in Sub /\ k.kind = "confirmed"
  BY ExistingSubs DEF Types, TypeOK, Existing
<1>2. /\ pool[k].events # {}
      /\ \A e \in pool[k].events : e.field \in subs[k.sub].edits
      /\ k.sub \notin torn =>
           /\ k \in snaps /\ pool[k].events \subseteq EventsOf(events, k.sub)
           /\ store = "database" => Accounts(k.sub, pool[k].events)
  BY <1>1 DEF Traced, Sourced
<1>3. k.sub \notin torn => k.sample = subs[k.sub].sample /\ MadeOfBaseline(k)
  BY <1>1, <1>2 DEF Traced, Made
<1> QED
  BY <1>2, <1>3 DEF Accounts

\* What a step may do to the loop: nothing, or one of six.
LEMMA LoopSteps ==
    ASSUME [Next]_vars
    PROVE  \/ UNCHANGED <<store, torn, subs, snaps, events, pool>>
           \/ \E i \in SubIds, s \in Samples, E \in SUBSET Fields, c \in Configs, whole \in BOOLEAN :
                Submit(i, s, E, c, whole)
           \/ \E i \in Existing, lead \in Leads, n \in 1..5 : Confirm(i, lead, n)
           \/ \E k \in snaps : UpsertItem(k)
           \/ \E k \in DOMAIN pool : RemoveItem(k)
           \/ \E n \in 0..3, left \in SUBSET Existing, kept \in SUBSET Shared :
                DeleteBatch(n, left, kept)
BY DEF Next, vars, review, loop, exports, past, Reopen, Return, CreateExport, FailExport,
       CancelExport, Register, Reimport

\* A submission takes a number that nothing refers to.
LEMMA SubmitTraced ==
    ASSUME Types, Traced, NEW i \in SubIds, NEW s \in Samples, NEW E \in SUBSET Fields,
           NEW c \in Configs, NEW whole \in BOOLEAN, Submit(i, s, E, c, whole)
    PROVE  Traced'
<1>1. subs[i] = NoSub /\ NoSub \notin Sub /\ i # 0
  BY CorrectionPoolAssumption DEF Submit, NoSub, Sub, SubIds
<1>2. \A j \in SubIds \ {i} : subs'[j] = subs[j]
  BY DEF Submit, Types, TypeOK
<1>3. subs'[i] # NoSub
  BY CorrectionPoolAssumption DEF Submit, NoSub, Types, TypeOK
<1>4. UNCHANGED <<store, torn, snaps, events, pool>>
  BY DEF Submit, loop, past
<1>5. \A k \in snaps' : k.kind = "confirmed" => Made(k)'
  BY <1>1, <1>2, <1>4 DEF Traced, Made, MadeOfBaseline
<1>6. \A e \in events' : Meant(e)'
  BY <1>1, <1>2, <1>4 DEF Traced, Meant
<1>7. EventsOf(events, i) = {}
  BY <1>1 DEF EventsOf, Traced, Meant
<1>8. ASSUME store' = "database", NEW j \in SubIds, subs'[j] \in Sub, EventsOf(events', j) # {}
      PROVE  Accounts(j, EventsOf(events, j))'
  BY <1>2, <1>4, <1>7, <1>8 DEF Traced, Accounts
<1>9. ASSUME NEW k \in DOMAIN pool' PROVE Sourced(k)'
  <2>1. Sourced(k)
    BY <1>4 DEF Traced
  <2>2. CASE k.sub = i
    BY <1>1, <2>1, <2>2 DEF Sourced
  <2>3. CASE k.sub # i
    BY <1>2, <1>4, <2>1, <2>3 DEF Sourced, Accounts
  <2> QED
    BY <2>2, <2>3
<1> QED
  BY <1>5, <1>6, <1>8, <1>9 DEF Traced

\* What is there stays explained when snapshots and events are added.
LEMMA Monotone ==
    ASSUME UNCHANGED <<store, torn, subs>>, snaps \subseteq snaps', events \subseteq events'
    PROVE  /\ \A k \in snaps : Made(k) => Made(k)'
           /\ \A e \in events : Meant(e) => Meant(e)'
           /\ \A i, E : Accounts(i, E) => Accounts(i, E)'
           /\ \A k : Sourced(k) /\ pool'[k].events = pool[k].events => Sourced(k)'
BY DEF Made, MadeOfBaseline, Meant, Accounts, Sourced, EventsOf

\* A confirmation stores a snapshot with its baseline, then events that account for
\* the edits to that baseline, then the item that has them.
LEMMA ConfirmTraced ==
    ASSUME Types, Traced, NEW i \in Existing, NEW lead \in Leads, NEW n \in 1..5,
           Confirm(i, lead, n)
    PROVE  Traced'
<1> DEFINE s == subs[i].sample
           new == Diff(i, lead)
           k0 == Confirmed(i)
<1>1. subs[i] \in Sub /\ subs[i] # NoSub /\ i \in SubIds /\ i # 0
  BY ConfirmTypes, CorrectionPoolAssumption DEF Types, SubIds, Sub, NoSub
<1>2. UNCHANGED <<store, torn, subs>> /\ snaps \subseteq snaps'
  BY DEF Confirm, past
<1>3. \/ events' = events
      \/ n >= 2 /\ events' \in Stored(new, n >= 3)
  BY DEF Confirm
<1>4. /\ events \subseteq events' /\ events' \subseteq events \cup new
      /\ n >= 3 => events' = events \cup new
      /\ store = "database" /\ n < 3 => events' = events
  BY <1>3 DEF Stored, Confirm
<1>5. n >= 2 => Baseline(s) \in snaps' /\ k0 \in snaps'
  BY DEF Confirm
<1>6. /\ Baseline(s).kind = "baseline" /\ Baseline(s).sample = s
      /\ Baseline(s).fields = imported[s]
      /\ k0.kind = "confirmed" /\ k0.sample = s /\ k0.sub = i
      /\ k0.fields = imported[s] \cup subs[i].edits
  BY DEF Baseline, Confirmed
<1>7. \A e \in new : e.sub = i /\ e.field \in subs[i].edits
  BY <1>6 DEF Diff
<1>8. subs[i].edits \ imported[s] \subseteq {e.field : e \in new}
  <2> SUFFICES ASSUME NEW f \in subs[i].edits \ imported[s]
               PROVE  \E e \in new : e.field = f
    OBVIOUS
  <2> DEFINE e == [sub |-> i, lead |-> lead, field |-> f]
  <2>1. e \in new
    BY <1>6 DEF Diff
  <2>2. e.field = f
    OBVIOUS
  <2> QED
    BY <2>1, <2>2
<1>9. /\ \A k \in snaps : Made(k) => Made(k)'
      /\ \A e \in events : Meant(e) => Meant(e)'
      /\ \A j, E : Accounts(j, E) => Accounts(j, E)'
      /\ \A k : Sourced(k) /\ pool'[k].events = pool[k].events => Sourced(k)'
  BY <1>2, <1>4, Monotone
<1>10. ASSUME NEW k \in snaps', k.kind = "confirmed" PROVE Made(k)'
  <2>1. k \in snaps \/ k = Baseline(s) \/ (n >= 2 /\ k = k0)
    BY DEF Confirm
  <2>2. CASE k \in snaps
    BY <1>9, <1>10, <2>2 DEF Traced
  <2>3. CASE n >= 2 /\ k = k0
    BY <1>1, <1>2, <1>5, <1>6, <2>3 DEF Made, MadeOfBaseline
  <2> QED
    BY <1>6, <1>10, <2>1, <2>2, <2>3
<1>11. ASSUME NEW e \in events' PROVE Meant(e)'
  <2>1. CASE e \in events
    BY <1>9, <2>1 DEF Traced
  <2>2. CASE e \in new
    BY <1>1, <1>2, <1>7, <2>2 DEF Meant
  <2> QED
    BY <1>4, <2>1, <2>2
<1>12. ASSUME NEW E, E = EventsOf(events', i), n >= 3 PROVE Accounts(i, E)'
  <2>1. new \subseteq E
    BY <1>4, <1>7, <1>12 DEF EventsOf
  <2>2. subs[i].edits \ imported[s] \subseteq {e.field : e \in E}
    BY <1>8, <2>1
  <2>3. Baseline(s) \in snaps'
    BY <1>5, <1>12
  <2> QED
    BY <1>2, <1>6, <2>2, <2>3 DEF Accounts
<1>13. ASSUME store' = "database", NEW j \in SubIds, subs'[j] \in Sub, EventsOf(events', j) # {}
       PROVE  Accounts(j, EventsOf(events, j))'
  <2>1. CASE j = i /\ n >= 3
    BY <1>12, <2>1
  <2>2. CASE ~(j = i /\ n >= 3)
    <3>1. j # 0
      BY CorrectionPoolAssumption DEF SubIds
    <3>2. EventsOf(events', j) = EventsOf(events, j)
      BY <1>2, <1>4, <1>7, <1>13, <2>2, <3>1 DEF EventsOf
    <3>3. Accounts(j, EventsOf(events, j))
      BY <1>2, <1>13, <3>2 DEF Traced
    <3>4. ASSUME NEW E, E = EventsOf(events, j) PROVE Accounts(j, E)'
      BY <1>9, <3>3, <3>4
    <3> QED
      BY <3>2, <3>4
  <2> QED
    BY <2>1, <2>2
<1>14. ASSUME NEW k \in DOMAIN pool' PROVE Sourced(k)'
  <2>1. CASE k \in DOMAIN pool /\ pool'[k] = pool[k]
    BY <1>9, <2>1 DEF Traced
  <2>2. CASE /\ n >= 4 /\ k = k0 /\ EventsOf(events', i) # {}
             /\ pool'[k] = [status |-> "active", events |-> EventsOf(events', i)]
    <3>1. k \in snaps' /\ k.sub = i /\ subs'[i] \in Sub /\ subs'[i] # NoSub
      BY <1>1, <1>2, <1>5, <1>6, <2>2, CorrectionPoolAssumption DEF Sub, NoSub
    <3>2. pool'[k].events = EventsOf(events', i)
      BY <2>2
    <3>3. ASSUME NEW E, E = EventsOf(events', i) PROVE Accounts(i, E)'
      BY <1>12, <2>2, <3>3
    <3>4. \A e \in pool'[k].events : e.field \in subs'[i].edits
      BY <1>1, <1>2, <1>11, <3>2 DEF EventsOf, Meant
    <3> QED
      BY <1>1, <2>2, <3>1, <3>2, <3>3, <3>4 DEF Sourced
  <2>3. \/ pool' = pool
        \/ n >= 4 /\ pool' = Pooled(k0, EventsOf(events', i))
    BY <1>4 DEF Confirm
  <2>4. \/ pool' = pool
        \/ /\ n >= 4 /\ EventsOf(events', i) # {}
           /\ DOMAIN pool' = {k0} \cup DOMAIN pool
           /\ pool'[k0] = [status |-> "active", events |-> EventsOf(events', i)]
           /\ \A l \in DOMAIN pool \ {k0} : pool'[l] = pool[l]
    BY <2>3 DEF Pooled
  <2> QED
    BY <2>1, <2>2, <2>4
<1> QED
  BY <1>10, <1>11, <1>13, <1>14 DEF Traced

\* An item made by hand has the events of a stored confirmed snapshot.
LEMMA UpsertTraced ==
    ASSUME Types, Traced, NEW k0 \in snaps, UpsertItem(k0)
    PROVE  Traced'
<1>1. UNCHANGED <<store, torn, subs, snaps, events>>
  BY DEF UpsertItem, review, past
<1>2. /\ k0.sub \in SubIds /\ subs[k0.sub] # NoSub /\ k0.sub # 0
      /\ EventsOf(events, k0.sub) # {}
  BY CorrectionPoolAssumption DEF UpsertItem, Poolable, Traced, Made, SubIds
<1>3. /\ DOMAIN pool' = {k0} \cup DOMAIN pool
      /\ pool'[k0].events = EventsOf(events, k0.sub)
      /\ \A l \in DOMAIN pool \ {k0} : pool'[l] = pool[l]
  BY <1>2 DEF UpsertItem, Pooled
<1>4. /\ \A k \in snaps : Made(k) => Made(k)'
      /\ \A e \in events : Meant(e) => Meant(e)'
      /\ \A j, E : Accounts(j, E) => Accounts(j, E)'
      /\ \A k : Sourced(k) /\ pool'[k].events = pool[k].events => Sourced(k)'
  BY <1>1, Monotone
<1>5. ASSUME NEW k \in DOMAIN pool' PROVE Sourced(k)'
  <2>1. CASE k # k0
    BY <1>3, <1>4, <2>1 DEF Traced
  <2>2. CASE k = k0
    <3>1. \A e \in EventsOf(events, k0.sub) :
             subs[k0.sub] \in Sub => e.field \in subs[k0.sub].edits
      BY <1>2 DEF EventsOf, Traced, Meant
    <3>2. store = "database" /\ subs[k0.sub] \in Sub =>
             Accounts(k0.sub, EventsOf(events, k0.sub))
      BY <1>2 DEF Traced
    <3> QED
      BY <1>1, <1>2, <1>3, <2>2, <3>1, <3>2 DEF Sourced, Accounts
  <2> QED
    BY <2>1, <2>2
<1>6. ASSUME store' = "database", NEW j \in SubIds, subs'[j] \in Sub, EventsOf(events', j) # {}
      PROVE  Accounts(j, EventsOf(events, j))'
  BY <1>1, <1>6 DEF Traced, Accounts
<1> QED
  BY <1>1, <1>4, <1>5, <1>6 DEF Traced

\* A removed item keeps its events.
LEMMA RemoveTraced ==
    ASSUME Types, Traced, NEW k0 \in DOMAIN pool, RemoveItem(k0)
    PROVE  Traced'
<1>1. UNCHANGED <<store, torn, subs, snaps, events>> /\ DOMAIN pool' = DOMAIN pool
  BY DEF RemoveItem, review, past
<1>2. \A k \in DOMAIN pool : pool'[k].events = pool[k].events
  BY DEF RemoveItem
<1>3. \A k \in DOMAIN pool' : Sourced(k)'
  BY <1>1, <1>2 DEF Traced, Sourced, Accounts
<1>4. ASSUME store' = "database", NEW j \in SubIds, subs'[j] \in Sub, EventsOf(events', j) # {}
      PROVE  Accounts(j, EventsOf(events, j))'
  BY <1>1, <1>4 DEF Traced, Accounts
<1> QED
  BY <1>1, <1>3, <1>4 DEF Traced, Made, MadeOfBaseline, Meant

\* Of what a submission that is not torn has led to, a deletion leaves all, or
\* the submission is gone.
LEMMA DeleteLeaves ==
    ASSUME Types, NEW n \in 0..3, NEW left \in SUBSET Existing, NEW kept \in SUBSET Shared,
           DeleteBatch(n, left, kept), NEW i \in SubIds
    PROVE  /\ subs[i] # NoSub => subs'[i] # NoSub
           /\ subs'[i] \in Sub => subs'[i] = subs[i] /\ pool' = pool
           /\ subs'[i] \in Sub /\ i \notin torn' =>
                i \notin torn /\ snaps' = snaps /\ events' = events
<1>1. subs'[i] = (IF i \in Existing \ left THEN Gone ELSE subs[i])
  BY DEF DeleteBatch
<1>2. Gone \notin Sub /\ NoSub \notin Sub /\ Gone # NoSub
  BY CorrectionPoolAssumption DEF Gone, NoSub, Sub
<1>3. subs'[i] \in Sub => i \in left
  BY <1>1, <1>2, ExistingSubs DEF Types, TypeOK
<1>4. \/ torn' = torn /\ snaps' = snaps /\ events' = events
      \/ torn' = left
  BY DEF DeleteBatch
<1>5. left # {} => pool' = pool
  BY DEF DeleteBatch
<1> QED
  BY <1>1, <1>2, <1>3, <1>4, <1>5

\* A deletion that was cut short leaves torn submissions.
LEMMA DeleteTraced ==
    ASSUME Types, Traced, NEW n \in 0..3, NEW left \in SUBSET Existing,
           NEW kept \in SUBSET Shared, DeleteBatch(n, left, kept)
    PROVE  Traced'
<1>1. /\ snaps' \in {snaps, {}} /\ events' \subseteq events /\ store' = store
      /\ DOMAIN pool' = {} \/ pool' = pool
  BY DEF DeleteBatch
<1>2. \A i \in SubIds :
        /\ subs[i] # NoSub => subs'[i] # NoSub
        /\ subs'[i] \in Sub => subs'[i] = subs[i]
        /\ subs'[i] \in Sub /\ i \notin torn' =>
             i \notin torn /\ snaps' = snaps /\ events' = events
  BY DeleteLeaves
<1>3. ASSUME NEW k \in snaps', k.kind = "confirmed" PROVE Made(k)'
  <2>1. snaps' = snaps /\ Made(k)
    BY <1>1, <1>3 DEF Traced
  <2> QED
    BY <1>2, <2>1 DEF Made, MadeOfBaseline
<1>4. \A e \in events' : Meant(e)'
  BY <1>1, <1>2 DEF Traced, Meant
<1>5. ASSUME store' = "database", NEW j \in SubIds, subs'[j] \in Sub, EventsOf(events', j) # {}
      PROVE  Accounts(j, EventsOf(events, j))'
  <2>1. snaps' = snaps /\ events' = events
    BY <1>1, <1>5 DEF DeleteBatch, Shared, EventsOf
  <2> QED
    BY <1>1, <1>2, <1>5, <2>1 DEF Traced, Accounts
<1>6. ASSUME NEW k \in DOMAIN pool' PROVE Sourced(k)'
  <2>1. pool' = pool /\ Sourced(k)
    BY <1>1, <1>6 DEF Traced
  <2> QED
    BY <1>1, <1>2, <2>1 DEF Sourced, Accounts
<1> QED
  BY <1>3, <1>4, <1>5, <1>6 DEF Traced

\* Of what a submission has led to a step drops nothing, or it is a deletion after
\* which the submission is gone or torn.
LEMMA Outlives ==
    ASSUME Types, [Next]_vars, NEW i \in SubIds, subs[i] # NoSub
    PROVE  /\ subs'[i] # NoSub
           /\ subs'[i] \in Sub /\ i \notin torn' =>
                /\ subs'[i] = subs[i] /\ i \notin torn
                /\ snaps \subseteq snaps' /\ events \subseteq events'
<1>1. CASE UNCHANGED <<store, torn, subs, snaps, events, pool>>
  BY <1>1
<1>2. ASSUME NEW h \in SubIds, NEW s \in Samples, NEW E \in SUBSET Fields, NEW c \in Configs,
             NEW whole \in BOOLEAN, Submit(h, s, E, c, whole)
      PROVE  subs'[i] = subs[i] /\ UNCHANGED <<torn, snaps, events>>
  BY <1>2 DEF Submit, loop, past, Types, TypeOK
<1>3. ASSUME NEW h \in Existing, NEW lead \in Leads, NEW n \in 1..5, Confirm(h, lead, n)
      PROVE  UNCHANGED <<subs, torn>> /\ snaps \subseteq snaps' /\ events \subseteq events'
  BY <1>3 DEF Confirm, Stored, past
<1>4. ASSUME NEW k, UpsertItem(k) \/ RemoveItem(k)
      PROVE  UNCHANGED <<torn, subs, snaps, events>>
  BY <1>4 DEF UpsertItem, RemoveItem, review, past
<1>5. ASSUME NEW n \in 0..3, NEW left \in SUBSET Existing, NEW kept \in SUBSET Shared,
             DeleteBatch(n, left, kept)
      PROVE  /\ subs'[i] # NoSub
             /\ subs'[i] \in Sub /\ i \notin torn' =>
                  subs'[i] = subs[i] /\ i \notin torn /\ snaps' = snaps /\ events' = events
  BY <1>5, DeleteLeaves
<1> QED
  BY <1>1, <1>2, <1>3, <1>4, <1>5, LoopSteps

\* Every step keeps the trace.
LEMMA StepTraced == Types /\ Traced /\ [Next]_vars => Traced'
<1> SUFFICES ASSUME Types, Traced, [Next]_vars PROVE Traced'
  OBVIOUS
<1>1. CASE UNCHANGED <<store, torn, subs, snaps, events, pool>>
  BY <1>1 DEF Traced, Made, MadeOfBaseline, Meant, Accounts, Sourced
<1> QED
  BY <1>1, LoopSteps, SubmitTraced, ConfirmTraced, UpsertTraced, RemoveTraced, DeleteTraced

\* Nothing is stored in the beginning.
LEMMA InitTraced == Init => Traced
BY DEF Init, Traced, EventsOf

\* Pool items have the confirmed snapshot and the events that explain them, in
\* whatever order submissions are confirmed, wherever requests are stopped, and
\* whatever a restart imports.
THEOREM Explained == Spec => []PoolExplained
BY InitTypes, StepTypes, InitTraced, StepTraced, TracedExplains, PTL DEF Spec

\* Unless its batch is deleted, if only in part, what a submission has led to stays.
THEOREM Kept == Spec => SourcesKept
<1>1. ASSUME Types, Traced, [Next]_vars, NEW i \in SubIds \ torn', subs'[i] \in Sub
      PROVE  /\ {k \in snaps : k.sub = i} \subseteq snaps'
             /\ EventsOf(events, i) \subseteq EventsOf(events', i)
             /\ \A k \in DOMAIN pool : k.sub = i =>
                  k \in DOMAIN pool' /\ pool[k].events \subseteq pool'[k].events
  <2>1. CASE UNCHANGED <<snaps, events, pool>>
    BY <2>1
  <2>2. ASSUME NEW h \in Existing, NEW lead \in Leads, NEW n \in 1..5, Confirm(h, lead, n)
        PROVE  /\ snaps \subseteq snaps' /\ events \subseteq events'
               /\ \A k \in DOMAIN pool : k.sub = i =>
                    k \in DOMAIN pool' /\ pool[k].events \subseteq pool'[k].events
    <3>1. snaps \subseteq snaps' /\ events \subseteq events' /\ UNCHANGED <<subs, torn>>
      BY <2>2 DEF Confirm, Stored, past
    <3> DEFINE E == EventsOf(events \cup Diff(h, lead), h)
    <3>2. pool' = pool \/ pool' = Pooled(Confirmed(h), E)
      BY <2>2 DEF Confirm
    <3>3. \A k \in DOMAIN pool : k.sub = i => pool[k].events \subseteq EventsOf(events, i)
      BY <1>1, <3>1 DEF Traced, Sourced
    <3>4. Confirmed(h).sub = h /\ EventsOf(events, h) \subseteq E
      BY DEF Confirmed, EventsOf
    <3>5. ASSUME NEW k \in DOMAIN pool, k.sub = i
          PROVE  k \in DOMAIN pool' /\ pool[k].events \subseteq pool'[k].events
      <4>1. pool[k].events \subseteq EventsOf(events, i)
        BY <3>3, <3>5
      <4>2. k = Confirmed(h) => i = h
        BY <3>4, <3>5
      <4>3. \/ pool' = pool
            \/ /\ k \in DOMAIN pool'
               /\ pool'[k] = IF k = Confirmed(h) THEN [status |-> "active", events |-> E] ELSE pool[k]
        BY <3>2 DEF Pooled
      <4> HIDE DEF E
      <4>4. CASE k = Confirmed(h)
        <5>1. pool[k].events \subseteq E
          BY <3>4, <4>1, <4>2, <4>4
        <5> QED
          BY <3>5, <4>3, <4>4, <5>1
      <4>5. CASE k # Confirmed(h)
        BY <3>5, <4>3, <4>5
      <4> QED
        BY <4>4, <4>5
    <3> QED
      BY <3>1, <3>5
  <2>3. ASSUME NEW k0 \in snaps, UpsertItem(k0)
        PROVE  /\ snaps' = snaps /\ events' = events
               /\ \A k \in DOMAIN pool : k.sub = i =>
                    k \in DOMAIN pool' /\ pool[k].events \subseteq pool'[k].events
    <3>1. snaps' = snaps /\ events' = events /\ UNCHANGED <<subs, torn>>
      BY <2>3 DEF UpsertItem, review, past
    <3>2. \A k \in DOMAIN pool : k.sub = i => pool[k].events \subseteq EventsOf(events, k.sub)
      BY <1>1, <3>1 DEF Traced, Sourced
    <3> QED
      BY <2>3, <3>1, <3>2 DEF UpsertItem, Pooled
  <2>4. ASSUME NEW k0 \in DOMAIN pool, RemoveItem(k0)
        PROVE  /\ snaps' = snaps /\ events' = events
               /\ \A k \in DOMAIN pool : k \in DOMAIN pool' /\ pool'[k].events = pool[k].events
    BY <2>4 DEF RemoveItem
  <2>5. ASSUME NEW n \in 0..3, NEW left \in SUBSET Existing, NEW kept \in SUBSET Shared,
               DeleteBatch(n, left, kept)
        PROVE  UNCHANGED <<snaps, events, pool>>
    BY <1>1, <2>5, DeleteLeaves
  <2>6. ASSUME NEW h \in SubIds, NEW s \in Samples, NEW E \in SUBSET Fields, NEW c \in Configs,
               NEW whole \in BOOLEAN, Submit(h, s, E, c, whole)
        PROVE  UNCHANGED <<snaps, events, pool>>
    BY <2>6 DEF Submit, loop
  <2> QED
    BY <1>1, <2>1, <2>2, <2>3, <2>4, <2>5, <2>6, LoopSteps DEF EventsOf
<1>2. Types /\ Traced /\ [Next]_vars =>
        [\A i \in SubIds \ torn' : subs'[i] \in Sub =>
            /\ {k \in snaps : k.sub = i} \subseteq snaps'
            /\ EventsOf(events, i) \subseteq events'
            /\ \A k \in DOMAIN pool : k.sub = i =>
                 k \in DOMAIN pool' /\ pool[k].events \subseteq pool'[k].events]_vars
  BY <1>1 DEF EventsOf
<1> QED
  BY <1>2, InitTypes, StepTypes, InitTraced, StepTraced, PTL DEF Spec, SourcesKept
-----------------------------------------------------------------------------
\* Export jobs.

\* Only the three actions on jobs change a job or its file.
LEMMA JobSteps ==
    ASSUME [Next]_vars
    PROVE  \/ jobs' = jobs /\ artifacts' = artifacts
           \/ \E j \in Jobs, wanted \in SUBSET DOMAIN pool, ofBatch \in BOOLEAN :
                \/ \E n \in 1..4 : CreateExport(j, wanted, ofBatch, n)
                \/ FailExport(j, wanted, ofBatch)
           \/ \E j \in Jobs : CancelExport(j)
BY DEF Next, vars, exports, Submit, Reopen, Confirm, Return, UpsertItem, RemoveItem,
       DeleteBatch, Register, Reimport

\* A completed job has its file.  What a file holds are snapshots that are still
\* stored, unless a deletion has taken the submission or what hangs on it.
Complete(j) ==
    jobs[j].status = "completed" =>
        artifacts[j] # {} /\ Cardinality(artifacts[j]) = jobs[j].items
Filed(k) ==
    /\ k.kind = "confirmed" /\ k.sub \in SubIds /\ subs[k.sub] # NoSub
    /\ subs[k.sub] \in Sub /\ k.sub \notin torn => k \in snaps
Downloads ==
    \A j \in Jobs : Complete(j) /\ \A k \in artifacts[j] : Filed(k)

\* What is in a file stays stored, or a deletion accounts for it.
LEMMA StaysFiled ==
    ASSUME Types, [Next]_vars, NEW k, Filed(k)
    PROVE  Filed(k)'
BY Outlives DEF Filed

\* The items of which an export makes a file are all in it.
LEMMA WholeFile ==
    ASSUME Types, Traced, NEW wanted \in SUBSET DOMAIN pool, NEW ofBatch,
           Selected(wanted, ofBatch), Exportable(wanted)
    PROVE  /\ Payload(wanted) # {}
           /\ Cardinality(Payload(wanted)) = Cardinality(Sources(wanted))
           /\ \A k \in Payload(wanted) : Filed(k)
<1>1. Payload(wanted) = Sources(wanted) /\ Sources(wanted) # {}
  BY DEF Payload, Exportable, Selected
<1>2. \A k \in Payload(wanted) : k \in DOMAIN pool /\ k \in snaps
  BY DEF Payload, Sources
<1> QED
  BY <1>1, <1>2 DEF Filed, Traced, Sourced, Types, TypeOK

\* Every step keeps the files of completed jobs.
LEMMA StepDownloads ==
    Types /\ Traced /\ Downloads /\ [Next]_vars => Downloads'
<1> SUFFICES ASSUME Types, Traced, Downloads, [Next]_vars PROVE Downloads'
  OBVIOUS
<1>1. \A h \in Jobs : \A k \in artifacts[h] : Filed(k)'
  BY StaysFiled DEF Downloads
<1>2. CASE jobs' = jobs /\ artifacts' = artifacts
  BY <1>1, <1>2 DEF Downloads, Complete
<1>3. ASSUME NEW j \in Jobs, NEW wanted \in SUBSET DOMAIN pool, NEW ofBatch \in BOOLEAN,
             NEW n \in 1..4, CreateExport(j, wanted, ofBatch, n)
      PROVE  Downloads'
  <2>1. ASSUME n >= 3
        PROVE  /\ Payload(wanted) # {}
               /\ Cardinality(Payload(wanted)) = Cardinality(Sources(wanted))
               /\ \A k \in Payload(wanted) : Filed(k)'
    BY <1>3, <2>1, WholeFile, StaysFiled DEF CreateExport
  <2>2. "file" \in Wrote(n) <=> n >= 3
    BY DEF Wrote, ExportWrites
  <2>3. RowAfter(n) = "completed" => n = 4
    BY DEF RowAfter, Wrote, ExportWrites
  <2>4. /\ jobs'[j].status = RowAfter(n)
        /\ RowAfter(n) = "completed" => jobs'[j].items = Cardinality(Sources(wanted))
        /\ artifacts'[j] = IF n >= 3 THEN Payload(wanted) ELSE artifacts[j]
        /\ \A h \in Jobs \ {j} : jobs'[h] = jobs[h] /\ artifacts'[h] = artifacts[h]
    BY <1>3, <2>2 DEF CreateExport, Types, TypeOK
  <2>5. Complete(j)'
    BY <2>1, <2>3, <2>4 DEF Complete
  <2>6. \A k \in artifacts'[j] : Filed(k)'
    BY <1>1, <2>1, <2>4
  <2> QED
    BY <1>1, <2>4, <2>5, <2>6 DEF Downloads, Complete
<1>4. ASSUME NEW j \in Jobs, NEW wanted \in SUBSET DOMAIN pool, NEW ofBatch \in BOOLEAN,
             FailExport(j, wanted, ofBatch)
      PROVE  Downloads'
  <2>1. /\ jobs'[j].status = "failed"
        /\ \A h \in Jobs \ {j} : jobs'[h] = jobs[h] /\ artifacts'[h] = artifacts[h]
    BY <1>4 DEF FailExport, Types, TypeOK
  <2>2. \/ artifacts' = artifacts
        \/ /\ Selected(wanted, ofBatch) /\ Exportable(wanted)
           /\ artifacts'[j] = Payload(wanted)
    BY <1>4 DEF FailExport, Types, TypeOK
  <2>3. \A k \in artifacts'[j] : Filed(k)'
    BY <1>1, <2>2, WholeFile, StaysFiled
  <2> QED
    BY <1>1, <2>1, <2>3 DEF Downloads, Complete
<1>5. ASSUME NEW j \in Jobs, CancelExport(j) PROVE Downloads'
  <2>1. /\ jobs'[j].status = "cancelled" /\ artifacts' = artifacts
        /\ \A h \in Jobs \ {j} : jobs'[h] = jobs[h]
    BY <1>5 DEF CancelExport, Cancellable, NoJob, Types, TypeOK
  <2> QED
    BY <1>1, <2>1 DEF Downloads, Complete
<1> QED
  BY <1>2, <1>3, <1>4, <1>5, JobSteps

\* A completed job has its whole file, wherever requests end, and the file holds what
\* the submissions that are there in full have made of stored baselines.
THEOREM Downloadable == Spec => []CompletedIsDownloadable
<1>1. Init => Downloads
  BY DEF Init, Downloads, Complete, NoJob
<1>2. Types /\ Traced /\ Downloads => CompletedIsDownloadable
  <2> SUFFICES ASSUME Types, Traced, Downloads, NEW j \in Jobs, NEW k \in artifacts[j],
                      k.sub \in Existing \ torn
               PROVE  k \in snaps /\ MadeOfBaseline(k)
    BY DEF Downloads, Complete, CompletedIsDownloadable
  <2>1. subs[k.sub] \in Sub
    BY ExistingSubs DEF Types, TypeOK, Existing
  <2> QED
    BY <2>1 DEF Downloads, Filed, Traced, Made
<1> QED
  BY <1>1, <1>2, InitTypes, StepTypes, InitTraced, StepTraced, StepDownloads, PTL DEF Spec

\* A job that has ended stays as it ended, and so does its file.
THEOREM Settled == Spec => JobsSettle
<1>1. ASSUME Types, [Next]_vars, NEW h \in Jobs,
             jobs[h].status \in {"completed", "failed", "cancelled"}
      PROVE  jobs'[h] = jobs[h] /\ artifacts'[h] = artifacts[h]
  <2>1. jobs[h] # NoJob
    BY <1>1 DEF NoJob
  <2>2. CASE jobs' = jobs /\ artifacts' = artifacts
    BY <2>2
  <2>3. ASSUME NEW j \in Jobs, NEW wanted \in SUBSET DOMAIN pool, NEW ofBatch \in BOOLEAN,
               NEW n \in 1..4, CreateExport(j, wanted, ofBatch, n)
        PROVE  jobs'[h] = jobs[h] /\ artifacts'[h] = artifacts[h]
    BY <2>1, <2>3 DEF CreateExport, NewJob, Types, TypeOK
  <2>4. ASSUME NEW j \in Jobs, NEW wanted, NEW ofBatch \in BOOLEAN,
               FailExport(j, wanted, ofBatch)
        PROVE  jobs'[h] = jobs[h] /\ artifacts'[h] = artifacts[h]
    <3>1. j # h /\ jobs' = [jobs EXCEPT ![j] = [status |-> "failed", ofBatch |-> ofBatch, items |-> 0]]
      BY <2>1, <2>4 DEF FailExport, NewJob
    <3>2. artifacts' = artifacts \/ artifacts' = [artifacts EXCEPT ![j] = Payload(wanted)]
      BY <2>4 DEF FailExport
    <3> QED
      BY <1>1, <3>1, <3>2 DEF Types, TypeOK
  <2>5. ASSUME NEW j \in Jobs, CancelExport(j)
        PROVE  jobs'[h] = jobs[h] /\ artifacts'[h] = artifacts[h]
    <3>1. CASE h # j
      BY <2>5, <3>1 DEF CancelExport, Types, TypeOK
    <3>2. CASE h = j
      BY <1>1, <2>1, <2>5, <3>2 DEF CancelExport, Cancellable, Types, TypeOK
    <3> QED
      BY <3>1, <3>2
  <2> QED
    BY <1>1, <2>2, <2>3, <2>4, <2>5, JobSteps
<1>2. Types /\ [Next]_vars =>
        [\A j \in Jobs : jobs[j].status \in {"completed", "failed", "cancelled"} =>
            jobs'[j] = jobs[j] /\ artifacts'[j] = artifacts[j]]_vars
  BY <1>1
<1> QED
  BY <1>2, InitTypes, StepTypes, PTL DEF Spec, JobsSettle
=============================================================================
