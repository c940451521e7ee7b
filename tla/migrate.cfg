\* Up to three runs, dry or not, each of which may be stopped.  After the last run
\* there is nothing to do.
CONSTANTS
    Sources <- MCSources
    Targets <- MCTargets
    MaxRuns = 3
CHECK_DEADLOCK FALSE
SPECIFICATION Spec
INVARIANTS
    TypeOK
    ReferencesResolve
    CleanRunCopiesAll
PROPERTIES
    NothingOverwritten
    RerunIsIdempotent
    PlanIsKept
