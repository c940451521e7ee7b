SPECIFICATION Spec
CONSTANTS
    Samples = {s1}
    Fields = {f}
    Leads = {lead1}
    Configs = {c1}
    NoConfig = NoConfig
    MaxSubs = 2
    MaxJobs = 1
    MaxReimports = 1
    MaxDeletions = 1
    Stores = {"files", "database"}
INVARIANTS
    TypeOK
    PoolExplained
    CompletedIsDownloadable
PROPERTIES
    SourcesKept
    JobsSettle
