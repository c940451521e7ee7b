SPECIFICATION Spec
CONSTANTS
    Samples = {s1}
    Fields = {f, g}
    Leads = {lead1, lead2}
    Configs = {c1}
    NoConfig = NoConfig
    MaxSubs = 1
    MaxJobs = 1
    MaxReimports = 0
    MaxDeletions = 1
    Stores = {"files", "database"}
SYMMETRY Symmetry
INVARIANTS
    ExportsListable
