SPECIFICATION Spec
CONSTANTS
    a = a
    b = b
    c = c
    d = d
    Configs = {a, b, c, d}
    NoConfig = NoConfig
    VersionOf <- Versions
    MaxId = 4
    MaxErrors = 3
INVARIANTS
    TypeOK
    OneRowPerVersion
    ServedSurvives
PROPERTIES
    HistoryKept
    BookRefined
