SPECIFICATION Spec
CONSTANTS
    TypeIds <- TwoTypes
    Slots <- OneSlot
    Names = {x, y}
    Uploads = {p, q}
    Annotated = {p}
    Phases = {"confirm", "retry"}
    NoBatch = NoBatch
    NoFile = NoFile
    Nobody = Nobody
    MaxHeld = 1
    MaxUnhealed = 1
    FileStore = TRUE
    Crashes = TRUE
SYMMETRY Symmetry
INVARIANTS
    TypeOK
    RestartForgetsNothing
    
PROPERTIES
    SourceIsStable
CHECK_DEADLOCK FALSE
