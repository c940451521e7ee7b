----------------------------- MODULE LabelEdits -----------------------------
(***************************************************************************)
(* What a submission's edit operations do to an annotation: the validation *)
(* of one operation (validate_label_edits), its application to the payload *)
(* of the baseline (_apply_label_edit_operations_to_payload) and the       *)
(* modification events derived from the two payloads                       *)
(* (_diff_snapshots_to_events).  A behaviour applies one submission's      *)
(* operations in order, each of them one that validation let through.      *)
(*                                                                         *)
(* A value is an atom (a text, a number, None, Missing) or a sequence of   *)
(* values: lists, boxes, and what the tag operations make of them.         *)
(* Validation knows a well-formed text by its membership in Texts; length, *)
(* character and number ranges are in the choice of the constants.         *)
(***************************************************************************)
EXTENDS Naturals, FiniteSets, SequencesExt

CONSTANTS
    Texts,          \* acceptable texts and tags
    Letters,        \* Letters[t]: the characters of text t, texts themselves
    Codes,          \* the texts the label configuration offers as options
    Numbers,        \* acceptable numbers
    Boxes,          \* acceptable boxes, four numbers each
    None, Missing,  \* null, and the value of a field a record does not have
    Ids,            \* record ids
    Fields,         \* the fields of the annotation that this instance has
    Baselines,      \* the annotations a submission may start from
    NewCandidates,  \* what add_candidate may bring as `after`
    Inputs,         \* what the other operations may bring as before and after
    MaxOps          \* bound on the operations of a submission

Atoms == Texts \cup Numbers \cup {None, Missing}

\* STAGE1_FIELDS, RELATION_FIELDS, VERIFICATION_FIELDS, CANDIDATE_FIELDS: the
\* fields an operation may name, by the type of its scope.
ScopeFields ==
    [stage1 |-> {"environment_analysis", "scene_elements", "key_anchors"},
     relation |-> {"subject", "relation", "object", "description", "bbox"},
     verification |->
         {"subject", "relation", "object", "bbox", "visibility_level",
          "information_loss_type", "bbox_observation", "global_context_observation",
          "verification_result", "verification_confidence"},
     candidate |->
         {"violation_category", "evidence_relations", "evidence_relation_indices",
          "evidence_reasoning", "relation_hint", "segmentation_targets",
          "confidence", "sample_category"}]

FieldsOf(type) == ScopeFields[type] \cap Fields

VARIABLES
    baseline,  \* the payload of the baseline snapshot
    current,   \* the payload after the operations so far
    raised,    \* has applying an operation raised?
    applied    \* number of operations so far

vars == <<baseline, current, raised, applied>>

\* A payload: the records of stage1, the relations and the verifications, which
\* are never created or removed, and the list of candidates.
Fixed == {<<"stage1", None>>} \cup ({"relation", "verification"} \X Ids)
Scopes == Fixed \cup ({"candidate"} \X Ids)
CandidateFields == FieldsOf("candidate")

-----------------------------------------------------------------------------
\* validate_label_edits.

IsList(v) == v \notin Atoms

TextFields ==
    {"environment_analysis", "description", "bbox_observation",
     "global_context_observation", "evidence_reasoning", "relation_hint",
     "subject", "object"}
TagFields == {"scene_elements", "segmentation_targets", "key_anchors"}
EnumFields ==
    {"relation", "visibility_level", "verification_result", "violation_category",
     "sample_category", "information_loss_type"}

\* _validate_text_value, _validate_open_tags (no duplicates), _validate_closed_enum
\* (an option or some options), _validate_bbox, _validate_confidence and the lists
\* of evidence.
ValidValue(f, v) ==
    \/ f \in TextFields /\ v \in Texts
    \/ f \in TagFields /\ IsList(v) /\ ToSet(v) \subseteq Texts /\ IsInjective(v)
    \/ f \in EnumFields /\ v \in Codes
    \/ f \in EnumFields /\ IsList(v) /\ v # <<>> /\ ToSet(v) \subseteq Codes
    \/ f = "bbox" /\ v \in Boxes
    \/ f \in {"confidence", "verification_confidence"} /\ v \in Numbers
    \/ f = "evidence_relations" /\ IsList(v) /\ ToSet(v) \subseteq Texts
    \/ f = "evidence_relation_indices" /\ IsList(v) /\ ToSet(v) \subseteq Numbers

\* Every operation on a field must bring a valid `after`, also those that add or
\* remove one tag; `before` is not looked at.
Valid(s, f, after) == f \in FieldsOf(s[1]) /\ ValidValue(f, after)

-----------------------------------------------------------------------------
\* _apply_label_edit_operations_to_payload.

\* list(value), with .get(field, []): the list itself, the characters of a text.
AsList(v) ==
    CASE v = Missing -> <<>>
      [] v \in Texts -> Letters[v]
      [] OTHER -> v

\* list() of anything else raises.
Listable(v) == IsList(v) \/ v = Missing \/ v \in Texts

WithTag(v, tag) ==
    IF tag \in ToSet(AsList(v)) THEN AsList(v) ELSE Append(AsList(v), tag)

WithoutTag(v, tag) == SelectSeq(AsList(v), LAMBDA t : t # tag)

\* _record_by_id: the first record of that id.
RecordById(cands, id) ==
    CHOOSE i \in DOMAIN cands :
        cands[i].id = id /\ \A j \in DOMAIN cands : cands[j].id = id => i <= j

HasCandidate(id) == \E i \in DOMAIN current.cands : current.cands[i].id = id

\* The record an operation of scope s finds.
Present(s) == IF s[1] = "candidate" THEN HasCandidate(s[2]) ELSE s \in DOMAIN current.fixed

Value(s, f) ==
    IF s[1] = "candidate"
    THEN current.cands[RecordById(current.cands, s[2])].values[f]
    ELSE current.fixed[s][f]

Put(s, f, v) ==
    IF s[1] = "candidate"
    THEN [current EXCEPT !.cands[RecordById(current.cands, s[2])].values[f] = v]
    ELSE [current EXCEPT !.fixed[s][f] = v]

Init ==
    /\ baseline \in Baselines
    /\ current = baseline
    /\ raised = FALSE /\ applied = 0

Next1 ==
    /\ ~raised
    /\ applied < MaxOps /\ applied' = applied + 1
    /\ UNCHANGED baseline

\* The operations of one field, on a record that is there.
Replace(s, f, after) ==
    /\ Next1 /\ Valid(s, f, after) /\ Present(s)
    /\ current' = Put(s, f, after)
    /\ UNCHANGED raised

AddTag(s, f, after) ==
    /\ Next1 /\ Valid(s, f, after) /\ Present(s) /\ Listable(Value(s, f))
    /\ current' = Put(s, f, WithTag(Value(s, f), after))
    /\ UNCHANGED raised

RemoveTag(s, f, before, after) ==
    /\ Next1 /\ Valid(s, f, after) /\ Present(s) /\ Listable(Value(s, f))
    /\ current' = Put(s, f, WithoutTag(Value(s, f), before))
    /\ UNCHANGED raised

\* A tag operation on a number or a null: the confirmation fails.
TagRaises(s, f, after) ==
    /\ Next1 /\ Valid(s, f, after) /\ Present(s) /\ ~Listable(Value(s, f))
    /\ raised' = TRUE
    /\ UNCHANGED current

\* soft_delete_relation and add_relation are let through and do nothing; so do any
\* operation on a record that is not there, delete_candidate included, and
\* add_candidate on one that is.
Ignored(s, f, after) ==
    /\ Next1 /\ Valid(s, f, after)
    /\ UNCHANGED <<current, raised>>

\* A mutated form: the record has the id of `after` only.
CreatedAsGiven(id, after) == [id |-> after.id, values |-> after.values]

\* add_candidate: `after` is any object, not validated further, and its own id
\* overrides the one of the scope.  If the record is there nothing happens.
Created(id, after) ==
    [id |-> IF after.id = Missing THEN id ELSE after.id, values |-> after.values]

AddCandidate(id, after) ==
    /\ Next1
    /\ ~HasCandidate(id)
    /\ current' = [current EXCEPT !.cands = Append(@, Created(id, after))]
    /\ UNCHANGED raised

\* A mutated form: the list is cut at the first record of that id.
CutAt(cands, id) == SubSeq(cands, 1, RecordById(cands, id) - 1)

\* The records of another id, in their order: the k-th is the one that has k of
\* them up to itself.
Omit(cands, id) ==
    LET kept == {i \in DOMAIN cands : cands[i].id # id}
        At(k) == CHOOSE i \in kept : Cardinality({j \in kept : j <= i}) = k
    IN  [k \in 1..Cardinality(kept) |-> cands[At(k)]]

\* delete_candidate: every record of that id.
Remaining(cands, id) == Omit(cands, id)

DeleteCandidate(id) ==
    /\ Next1
    /\ HasCandidate(id)
    /\ current' = [current EXCEPT !.cands = Remaining(@, id)]
    /\ UNCHANGED raised

FieldEdit ==
    \E s \in Scopes : \E f \in FieldsOf(s[1]), after \in Inputs :
        \/ Replace(s, f, after)
        \/ AddTag(s, f, after)
        \/ \E before \in Inputs : RemoveTag(s, f, before, after)
        \/ TagRaises(s, f, after)
        \/ Ignored(s, f, after)

CandidateEdit ==
    \E id \in Ids :
        \/ \E after \in NewCandidates : AddCandidate(id, after)
        \/ DeleteCandidate(id)

Next == FieldEdit \/ CandidateEdit

Spec == Init /\ [][Next]_vars

-----------------------------------------------------------------------------
\* _diff_snapshots_to_events.

\* record.get(field): a missing field reads as null.
Read(v) == IF v = Missing THEN None ELSE v

\* The candidates by id: of two with one id the later, and none without an id.
LastWithId(cands, id) ==
    CHOOSE i \in DOMAIN cands :
        cands[i].id = id /\ \A j \in DOMAIN cands : cands[j].id = id => j <= i
CandidateIds(p) == {p.cands[i].id : i \in DOMAIN p.cands} \ {None}
Candidate(p, id) == p.cands[LastWithId(p.cands, id)].values

\* What the difference reads at a scope and a field; at "candidate", all the record,
\* or none (a null).
Get(p, s, f) ==
    CASE f = "candidate" -> {Candidate(p, id) : id \in {s[2]} \cap CandidateIds(p)}
      [] f # "candidate" /\ s[1] = "candidate" -> Read(Candidate(p, s[2])[f])
      [] OTHER -> Read(p.fixed[s][f])

\* The fields of the scopes of S that differ.
Differing(b, c, S) ==
    UNION {{<<s, f>> : f \in {g \in FieldsOf(s[1]) : Get(b, s, g) # Get(c, s, g)}} :
           s \in S}

CandidateScopes(X) == {<<"candidate", id>> : id \in X}

\* A mutated form: the candidates are compared by their ids only.
KeysOfIds(b, c) ==
    LET one == (CandidateIds(b) \cup CandidateIds(c))
               \ (CandidateIds(b) \cap CandidateIds(c))
    IN  Differing(b, c, DOMAIN b.fixed \ {<<"stage1", None>>})
        \cup (CandidateScopes(one) \X {"candidate"})

\* The records that both payloads have are compared by field, stage1 is not compared,
\* a candidate that only one has is an event of its own.
Keys(b, c) ==
    LET both == CandidateIds(b) \cap CandidateIds(c)
        one == (CandidateIds(b) \cup CandidateIds(c)) \ both
    IN  Differing(b, c, DOMAIN b.fixed \ {<<"stage1", None>>})
        \cup Differing(b, c, CandidateScopes(both))
        \cup (CandidateScopes(one) \X {"candidate"})

\* The modification events, by target and field.
DiffEvents(b, c) ==
    [k \in Keys(b, c) |->
        [before |-> Get(b, k[1], k[2]), after |-> Get(c, k[1], k[2])]]

-----------------------------------------------------------------------------
\* A record with fields F, and one of a candidate.
IsRecord(r, F) == r = [f \in F |-> r[f]]
IsCandidate(c) == c = [id |-> c.id, values |-> c.values] /\ IsRecord(c.values, CandidateFields)

\* The payloads keep their shape: no operation creates or removes a record of
\* stage1, a relation or a verification, and every candidate has all its fields,
\* with an id of its own or null.
PayloadOK(p) ==
    /\ p = [fixed |-> p.fixed, cands |-> p.cands]
    /\ DOMAIN p.fixed \subseteq Fixed /\ IsRecord(p.fixed, DOMAIN p.fixed)
    /\ \A s \in DOMAIN p.fixed : IsRecord(p.fixed[s], FieldsOf(s[1]))
    /\ p.cands \in Seq(ToSet(p.cands))
    /\ \A i \in DOMAIN p.cands : IsCandidate(p.cands[i]) /\ p.cands[i].id \in Ids \cup {None}

\* Type invariant of the edited annotation.
TypeOK ==
    /\ PayloadOK(baseline) /\ PayloadOK(current)
    /\ DOMAIN current.fixed = DOMAIN baseline.fixed
    /\ raised \in BOOLEAN
    /\ applied \in 0..MaxOps

\* What the loop behind the confirmation looks at: everything but stage1's own
\* fields, and the candidates as a set of named records.
Reads(values) == [f \in DOMAIN values |-> Read(values[f])]
Records(p) == [s \in DOMAIN p.fixed \ {<<"stage1", None>>} |-> Reads(p.fixed[s])]
Candidates(p) == {<<p.cands[i].id, Reads(p.cands[i].values)>> : i \in DOMAIN p.cands}
WellNamed(p) ==
    \A i, j \in DOMAIN p.cands :
        p.cands[i].id # None /\ (p.cands[i].id = p.cands[j].id => i = j)

\* The value that events E leave in field f of a record that had v there.
After(E, s, f, v) == IF <<s, f>> \in DOMAIN E THEN E[<<s, f>>].after ELSE v

ReplayRecords(p, E) ==
    [s \in DOMAIN Records(p) |->
        [f \in FieldsOf(s[1]) |-> After(E, s, f, Records(p)[s][f])]]

ReplayCandidates(p, E) ==
    {<<c[1], [f \in CandidateFields |-> After(E, <<"candidate", c[1]>>, f, c[2][f])]>> :
        c \in {d \in Candidates(p) : <<<<"candidate", d[1]>>, "candidate">> \notin DOMAIN E}}
    \cup UNION {{<<k[1][2], Reads(values)>> : values \in E[k].after} :
                  k \in {d \in DOMAIN E : d[2] = "candidate" /\ E[d].before = {}}}

\* The same events read backwards.
Undo(E) == [k \in DOMAIN E |-> [before |-> E[k].after, after |-> E[k].before]]

\* The modification events are a faithful account: applied to the baseline they
\* give the confirmed annotation, and read backwards they give the baseline back
\* (so there is none only if nothing changed).  This is as far as it goes: stage1's
\* own fields are not compared, and of candidates that share an id, which
\* add_candidate can bring about, the later hides the earlier.
EventsReplay ==
    LET E == DiffEvents(baseline, current)
    IN  ~raised /\ WellNamed(current) =>
            /\ ReplayRecords(baseline, E) = Records(current)
            /\ ReplayRecords(current, Undo(E)) = Records(baseline)
            /\ ReplayCandidates(baseline, E) = Candidates(current)
            /\ ReplayCandidates(current, Undo(E)) = Candidates(baseline)

\* The candidates other than those named id, in their order.
Others(p, id) == Omit(p.cands, id)

\* An operation leaves every record but one alone, and the order of the candidates:
\* whatever record it hits, the others stay as and where they were.
OneRecordAtATime ==
    [][\/ current'.cands = current.cands
          /\ Cardinality({s \in DOMAIN current.fixed :
                             current'.fixed[s] # current.fixed[s]}) <= 1
       \/ current'.fixed = current.fixed
          /\ \E id \in Ids \cup {None} : Others(current', id) = Others(current, id)]_vars

-----------------------------------------------------------------------------
\* A baseline is made from the sample (_snapshot_payload_from_sample): all records have
\* their fields, and the candidates are numbered.  What add_candidate brings may have
\* an id, null, or no id.
ASSUME LabelEditsAssumption ==
    /\ None \notin Ids /\ MaxOps \in Nat
    /\ \A p \in Baselines : PayloadOK(p) /\ WellNamed(p)
    /\ \A c \in NewCandidates : IsCandidate(c) /\ c.id \in Ids \cup {None, Missing}
=============================================================================
