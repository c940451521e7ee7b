\* A submission of up to three operations on an annotation with one relation and two
\* candidates.  The list of operations ends.
CONSTANTS
    a = a
    b = b
    ab = ab
    n = n
    c1 = c1
    c2 = c2
    Texts = {a, b, ab}
    Letters <- MCLetters
    Codes = {a, b}
    Numbers = {n}
    Boxes <- MCBoxes
    None = None
    Missing = Missing
    Ids = {c1, c2}
    Fields <- MCFields
    Baselines <- MCBaselines
    NewCandidates <- MCNewCandidates
    Inputs <- MCInputs
    MaxOps = 3
CHECK_DEADLOCK FALSE
SPECIFICATION Spec
INVARIANTS
    TypeOK
    EventsReplay
PROPERTIES
    OneRecordAtATime
