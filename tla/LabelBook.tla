----------------------------- MODULE LabelBook -----------------------------
(***************************************************************************)
(* What a label config repository promises about one dataset type: the     *)
(* configs it stores and the one that is active.  The database repository  *)
(* (db/foundation.py), whose every call is one transaction, is this        *)
(* specification with Torn = FALSE.  The file repository of labels.py may  *)
(* be stopped between a version file and the active pointer, and it keeps  *)
(* in memory what a failed save did not write: it implements this          *)
(* specification with Torn = TRUE (module LabelConfig).                    *)
(***************************************************************************)
EXTENDS FiniteSets

CONSTANTS
    Configs,      \* config payloads; the content hash tells them apart
    NoConfig,
    VersionOf,    \* VersionOf[c]: the version c names itself
    Torn          \* may a call be stopped half-way?

VARIABLES
    stored,       \* configs with a row
    active,       \* the config of the active pointer, or NoConfig
    pending       \* configs of failed saves that a later call may store

book == <<stored, active, pending>>

\* LabelConfigVersionConflictError: the version is taken by another content.
Conflicts(S, c) == \E d \in S : d # c /\ VersionOf[d] = VersionOf[c]

\* save: content that is stored already is activated again, new content is
\* stored and activated, whatever the request's activate flag says.
Save(c) ==
    /\ ~Conflicts(stored \cup pending, c)
    /\ stored' = stored \cup pending \cup {c}
    /\ active' = c
    /\ pending' = {}

\* activate.
Activate(c) ==
    /\ c \in stored \cup pending
    /\ stored' = stored \cup pending
    /\ active' = c
    /\ pending' = {}

\* A call that fails: what it has written stays, what it has not may follow.
\* Where nothing was active, whatever is stored may become so.
Tear(c) ==
    /\ Torn
    /\ ~Conflicts(stored \cup pending, c)
    /\ \E S \in SUBSET (pending \cup {c}) : stored' = stored \cup S
    /\ pending' \in SUBSET ((pending \cup {c}) \ stored')
    /\ active' \in {active, c} \cup IF active = NoConfig THEN stored' ELSE {}

\* A listing stores what is pending; a restart forgets it.
Settle ==
    /\ Torn
    /\ stored' \in {stored, stored \cup pending}
    /\ pending' = {}
    /\ UNCHANGED active

BookInit ==
    /\ stored \in SUBSET Configs
    /\ \A c \in stored : ~Conflicts(stored, c)
    /\ active \in stored \cup {NoConfig}
    /\ pending = {}

BookNext == Settle \/ \E c \in Configs : Save(c) \/ Activate(c) \/ Tear(c)

BookSpec == BookInit /\ [][BookNext]_book
=============================================================================
