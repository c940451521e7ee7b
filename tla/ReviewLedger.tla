---------------------------- MODULE ReviewLedger ----------------------------
(***************************************************************************)
(* What the annotation workflow promises about the work on a sample: a     *)
(* ledger per sample in which every submission is made against the         *)
(* sample's current revision and moves it on, is never altered afterwards, *)
(* and is accepted by a lead only once it is in the ledger.  Who edits,    *)
(* leases, drafts and assignments are not visible here.                    *)
(***************************************************************************)
EXTENDS Naturals, Sequences

CONSTANTS Samples, Users

VARIABLES
    revision,     \* revision[s]: the revision of sample s
    entries,      \* entries[s]: the submissions of s, oldest first
    accepted      \* accepted[s]: the positions in entries[s] a lead accepted

ledgerVars == <<revision, entries, accepted>>

LedgerInit ==
    /\ revision = [s \in Samples |-> 0]
    /\ entries = [s \in Samples |-> << >>]
    /\ accepted = [s \in Samples |-> {}]

\* A checkpoint of work in progress moves the revision.
Checkpoint(s) ==
    /\ revision' = [revision EXCEPT ![s] = @ + 1]
    /\ UNCHANGED <<entries, accepted>>

\* User u submits the samples of S together.
Submit(u, S) ==
    /\ entries' = [s \in Samples |->
                     IF s \in S THEN Append(entries[s], [user |-> u, base |-> revision[s]])
                     ELSE entries[s]]
    /\ revision' = [s \in Samples |-> IF s \in S THEN revision[s] + 1 ELSE revision[s]]
    /\ UNCHANGED accepted

Accept(s, i) ==
    /\ i \in 1..Len(entries[s])
    /\ accepted' = [accepted EXCEPT ![s] = @ \cup {i}]
    /\ UNCHANGED <<revision, entries>>

LedgerNext ==
    \/ \E s \in Samples : Checkpoint(s)
    \/ \E u \in Users, S \in SUBSET Samples : Submit(u, S)
    \/ \E s \in Samples : \E i \in 1..Len(entries[s]) : Accept(s, i)

LedgerSpec == LedgerInit /\ [][LedgerNext]_ledgerVars
=============================================================================
