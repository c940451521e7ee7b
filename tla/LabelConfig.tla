---------------------------- MODULE LabelConfig ----------------------------
(***************************************************************************)
(* The file-backed label config repository (labels.py) of one dataset      *)
(* type: version rows in memory and, under the store root, one file per    *)
(* version, then registry.json, then active.json.  Each file is replaced   *)
(* atomically, one after the other; a process may die between two of them  *)
(* (then it starts again from the files), or a write may fail and the      *)
(* request end with an error while the process lives on.                   *)
(*                                                                         *)
(* Left out: registry.json, which nothing reads; timestamps (rows are      *)
(* created in the order of their ids; which of several active rows was     *)
(* activated last is not recorded); the payload of a config.               *)
(***************************************************************************)
EXTENDS Naturals, FiniteSets

CONSTANTS
    Configs, NoConfig, VersionOf,
    MaxId,        \* bound on the config counter
    MaxErrors     \* bound on the writes that fail

ASSUME LabelConfigAssumption ==
    /\ NoConfig \notin Configs
    /\ MaxId \in Nat /\ MaxErrors \in Nat

VARIABLES
    up,           \* is the process running?
    rows,         \* rows[i]: version row i in memory, or NoRow
    active,       \* id of the active row in memory, or 0
    disk,         \* disk[i]: the version file of row i, or NoRow
    pointer,      \* the id active.json names, or 0 without the file
    counter,      \* the last id given out
    errors,       \* the writes that have failed
    meant         \* history: meant[i] is the config that id i stood for, in the
                  \* files or in memory, or NoConfig (see Recalls)

memory == <<rows, active, counter>>
files == <<disk, pointer>>
vars == <<up, memory, files, errors, meant>>

Rows == 1..MaxId
Status == {"draft", "active", "archived"}
NoRow == [config |-> NoConfig, status |-> "draft"]
Row == [config : Configs, status : Status]

Kept(store) == {i \in Rows : store[i] # NoRow}
ConfigsOf(store) == {store[i].config : i \in Kept(store)}
Empty == [i \in Rows |-> NoRow]

Least(S) == CHOOSE i \in S : \A j \in S : i <= j
Greatest(S) == CHOOSE i \in S : \A j \in S : j <= i

-----------------------------------------------------------------------------
\* _normalize_dataset_records.

\* Of the rows with one content: the active pointer's, else the oldest marked
\* active, else the oldest.
Canonical(store, ac, c) ==
    LET same == {i \in Kept(store) : store[i].config = c}
        marked == {i \in same : store[i].status = "active"}
    IN  IF ac \in same THEN ac ELSE Least(IF marked # {} THEN marked ELSE same)

\* The rows that can become active: the pointer's, else one marked active, else
\* the newest.
Candidates(store, ac, keep) ==
    LET marked == {i \in keep : store[i].status = "active"}
    IN  IF ac \in keep THEN {ac}
        ELSE IF marked # {} THEN marked
        ELSE {Greatest(keep)}

\* Mutant: the rows that were dropped are archived too.
MarkedBlindly(store, keep, i) ==
    [j \in Rows |-> [store[j] EXCEPT !.status = IF j = i THEN "active" ELSE "archived"]]

\* Status active for row i of those kept, and for no other.
Marked(store, keep, i) ==
    [j \in Rows |->
        IF j \notin keep THEN NoRow
        ELSE IF j = i THEN [store[j] EXCEPT !.status = "active"]
        ELSE [store[j] EXCEPT !.status = IF @ = "active" THEN "archived" ELSE @]]

\* The normal forms of a store and its pointer.
Normal(store, ac) ==
    LET keep == {Canonical(store, ac, c) : c \in ConfigsOf(store)}
    IN  IF keep = {} THEN {[rows |-> store, active |-> 0]}
        ELSE {[rows |-> Marked(store, keep, i), active |-> i] :
                i \in Candidates(store, ac, keep)}

\* _load_dataset: the files are laid over what memory has, the pointer counts if
\* its row is there, and the result is normalised.  Without version files the
\* memory stays as it is.
Overlaid == [i \in Rows |-> IF disk[i] # NoRow THEN disk[i] ELSE rows[i]]
Pointed == IF pointer \in Kept(Overlaid) THEN pointer ELSE active
Loaded ==
    IF Kept(disk) = {} THEN {[rows |-> rows, active |-> active]}
    ELSE Normal(Overlaid, Pointed)

\* Whether _load_dataset writes the normal form back.
Repairs(view) == Kept(disk) # {} /\ view # [rows |-> Overlaid, active |-> Pointed]

-----------------------------------------------------------------------------
\* _persist_dataset.

\* Mutant: active.json is written once, when there is none.
PersistedPointerOnce(from, view, k) ==
    /\ disk' = IF k = 0 THEN from.rows
               ELSE [i \in Rows |->
                       IF view.rows[i] = NoRow THEN NoRow
                       ELSE IF i < k THEN view.rows[i] ELSE from.rows[i]]
    /\ pointer' = IF from.active = 0 THEN view.active ELSE from.active

\* After k steps: the files of dropped rows go, the version files follow in the
\* order of the rows, active.json is the last.
LastStep == MaxId + 2
Persisted(from, view, k) ==
    /\ disk' = IF k = 0 THEN from.rows
               ELSE [i \in Rows |->
                       IF view.rows[i] = NoRow THEN NoRow
                       ELSE IF i < k THEN view.rows[i] ELSE from.rows[i]]
    /\ pointer' = IF k = LastStep /\ view.active # 0 THEN view.active ELSE from.active

OnDisk == [rows |-> disk, active |-> pointer]

\* The process is down; what was in memory is gone.
Down == up' = FALSE /\ rows' = Empty /\ active' = 0 /\ counter' = 0

Ends(view, last) ==
    /\ up' = TRUE
    /\ rows' = view.rows /\ active' = view.active /\ counter' = last

\* The history: an id means what its row says, and goes on meaning that without a
\* row until the process is down and every file that is left has a smaller id.
Recalls ==
    meant' = [i \in Rows |->
        IF disk'[i] # NoRow THEN disk'[i].config
        ELSE IF rows'[i] # NoRow THEN rows'[i].config
        ELSE IF up' \/ \E j \in Kept(disk') : i < j THEN meant[i]
        ELSE NoConfig]

\* The request writes, over the files from, the view it has built in memory: it
\* ends well, or a failed write or a crash stops it after k steps.  The process
\* does not come up on a failed write.
Write(from, view, last) ==
    /\ \/ Ends(view, last) /\ Persisted(from, view, LastStep) /\ UNCHANGED errors
       \/ \E k \in 0..(LastStep - 1) :
            /\ Persisted(from, view, k)
            /\ \/ Down /\ UNCHANGED errors
               \/ up /\ Ends(view, last) /\ errors < MaxErrors /\ errors' = errors + 1
    /\ Recalls

\* The files once _load_dataset has written its normal form back, if it has to.
Repaired(view) == IF Repairs(view) THEN view ELSE OnDisk

-----------------------------------------------------------------------------
\* A store this program, or one before it that could save without activating and
\* did not compare contents, has left: a version names one content, of which
\* there may be several rows.
Historical(store, ac) ==
    /\ \A i, j \in Kept(store) :
         VersionOf[store[i].config] = VersionOf[store[j].config] =>
            store[i].config = store[j].config
    /\ \A i, j \in Kept(store) :
         store[i].status = "active" /\ store[j].status = "active" => i = j
    /\ \A i \in Kept(store) : 1..i \subseteq Kept(store)
    /\ ac # 0 => ac \in Kept(store) /\ store[ac].status = "active"

Init ==
    /\ up = FALSE
    /\ rows = Empty /\ active = 0 /\ counter = 0
    /\ disk \in [Rows -> Row \cup {NoRow}]
    /\ pointer \in 0..MaxId
    /\ Historical(disk, pointer)
    /\ errors = 0
    /\ meant = [i \in Rows |-> disk[i].config]

\* _load_dataset counts every version file, also those it then drops.
Counted == Greatest(Kept(disk) \cup {counter})

\* The constructor (up = FALSE, memory is empty), list_configs, reload_active,
\* and a save or an activation that is stopped while it repairs the files.
Load ==
    \E view \in Loaded :
        IF Repairs(view) THEN Write(OnDisk, view, Counted)
        ELSE Ends(view, Counted) /\ UNCHANGED <<files, errors>> /\ Recalls

\* InMemoryLabelConfigRepository.activate.
Activated(view, i) == [rows |-> Marked(view.rows, Kept(view.rows), i), active |-> i]

\* activate.
Activate(i) ==
    /\ up
    /\ \E view \in Loaded :
         /\ i \in Kept(view.rows)
         /\ Write(Repaired(view), Activated(view, i), counter)

\* Mutant: a version may be taken again.
NoConflicts(view, c) == FALSE

Conflicts(view, c) ==
    \E i \in Kept(view.rows) :
        view.rows[i].config # c /\ VersionOf[view.rows[i].config] = VersionOf[c]

\* save of content that has a row: no new version.
SaveAgain(c) ==
    /\ up
    /\ \E view \in Loaded : \E i \in Kept(view.rows) :
         /\ view.rows[i].config = c
         /\ Write(Repaired(view), Activated(view, i), counter)

\* Mutant: the next id is the number of rows, not the counter.
NextIdByCount(view) == Cardinality(Kept(view.rows)) + 1

\* The counter, which covers the ids whose rows this process has dropped, too.
NextId(view) == counter + 1

\* save of new content under a version that is free.
SaveNew(c) ==
    /\ up /\ counter < MaxId
    /\ \E view \in Loaded :
         LET i == NextId(view)
             with == [view.rows EXCEPT ![i] = [config |-> c, status |-> "draft"]]
         IN  /\ c \notin ConfigsOf(view.rows)
             /\ ~Conflicts(view, c)
             /\ Write(Repaired(view), Activated([view EXCEPT !.rows = with], i), i)

\* The process stops between two requests.
Stop == up /\ Down /\ UNCHANGED <<files, errors>> /\ Recalls

Next ==
    \/ Load \/ Stop
    \/ \E i \in Rows : Activate(i)
    \/ \E c \in Configs : SaveAgain(c) \/ SaveNew(c)

Spec == Init /\ [][Next]_vars

-----------------------------------------------------------------------------
TypeOK ==
    /\ up \in BOOLEAN
    /\ rows \in [Rows -> Row \cup {NoRow}]
    /\ disk \in [Rows -> Row \cup {NoRow}]
    /\ active \in 0..MaxId /\ pointer \in 0..MaxId
    /\ counter \in 0..MaxId
    /\ errors \in 0..MaxErrors
    /\ meant \in [Rows -> Configs \cup {NoConfig}]

\* "Same-hash duplicates collapse to one canonical history item" and "same
\* config.version with different content: 409" (BE-LABEL-010, BE-LABEL-007): in
\* a running process no two rows have one version, whatever the store was and
\* wherever earlier requests stopped; and one row is active, the active id's.
OneRowPerVersion ==
    up => /\ \A i, j \in Kept(rows) :
               VersionOf[rows[i].config] = VersionOf[rows[j].config] => i = j
          /\ {i \in Kept(rows) : rows[i].status = "active"} = {active} \ {0}

\* What a start would make of the files.
Recovered ==
    CHOOSE view \in Normal(disk, IF pointer \in Kept(disk) THEN pointer ELSE 0) : TRUE
ActiveOf(view) == IF view.active = 0 THEN NoConfig ELSE view.rows[view.active].config

\* "Reload active after restart. No version creation; same hash/id" (BE-LABEL-009):
\* as long as no write has failed, the config get_active serves is the one a
\* restart would serve, under the same id.
ServedSurvives ==
    up /\ errors = 0 => Recovered.active = active /\ ActiveOf(Recovered) =
        IF active = 0 THEN NoConfig ELSE rows[active].config

\* No save, activation, repair, crash or failed write makes a stored config
\* disappear from the files.  An id that was in the files or served, and that tasks
\* and submissions may have recorded, comes to mean another config only after the
\* process has gone down with every file it left below that id: the next process
\* counts from the files that are there (507), so it can give out again the id of a
\* duplicate that was dropped, or of a failed save.  While the process runs, and for
\* the ids below a file's, no id is given twice, those without a row included.
HistoryKept ==
    [][/\ ConfigsOf(disk) \subseteq ConfigsOf(disk')
       /\ \A i \in Rows :
            meant[i] # NoConfig /\ meant'[i] # meant[i] =>
                ~up' /\ \A j \in Kept(disk') : j < i]_vars

\* The config the active pointer names, if there is one.
PointedConfig == IF pointer = 0 THEN NoConfig ELSE disk[pointer].config

\* The files implement the book that the database repository keeps, but for
\* calls that are stopped: these store the config or not, activate it or not, and
\* never anything else.
Book == INSTANCE LabelBook WITH
    stored <- ConfigsOf(disk),
    active <- PointedConfig,
    pending <- ConfigsOf(rows) \ ConfigsOf(disk),
    Torn <- TRUE
BookRefined == Book!BookSpec
=============================================================================
