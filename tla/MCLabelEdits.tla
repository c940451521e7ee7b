---------------------------- MODULE MCLabelEdits ----------------------------
\* One baseline with a relation and two candidates; texts of one and two letters.
EXTENDS LabelEdits, TLC

CONSTANTS a, b, ab, n, c1, c2

MCLetters == (a :> <<a>>) @@ (b :> <<b>>) @@ (ab :> <<a, b>>)
MCFields ==
    {"environment_analysis", "scene_elements", "relation",
     "violation_category", "evidence_relations", "confidence"}
MCBoxes == {<<n, n, n, n>>}

Cand(cat, ev) ==
    [violation_category |-> cat, evidence_relations |-> ev, confidence |-> n]

MCBaselines ==
    {[fixed |->
        (<<"stage1", None>> :> [environment_analysis |-> ab, scene_elements |-> <<b>>])
        @@ (<<"relation", c1>> :> [relation |-> a]),
      cands |-> <<[id |-> c1, values |-> Cand(<<a>>, Missing)],
                  [id |-> c2, values |-> Cand(<<a>>, Missing)]>>]}

\* A candidate like the imported ones, one that lacks a field and brings the id of
\* another, and one whose id is null.
MCNewCandidates ==
    {[id |-> Missing, values |-> Cand(<<ab>>, None)],
     [id |-> c2, values |-> Cand(Missing, <<>>)],
     [id |-> None, values |-> Cand(<<a>>, <<b>>)]}

MCInputs == {a, ab, n, <<b>>, <<a, b>>}

\* Omit is the filter of a list comprehension.
Named == UNION {[1..k -> {[id |-> c1], [id |-> c2], [id |-> None]}] : k \in 0..5}
ASSUME OmitAssumption ==
    \A s \in Named, i \in Ids \cup {None} : Omit(s, i) = SelectSeq(s, LAMBDA c : c.id # i)
=============================================================================
