SPECIFICATION Spec
CONSTANTS
    NoJob = NoJob
    Job = {j1}
    Sync = {x1}
    Stream = {s1, s2}
    Requests <- MCRetentionRequests
    MaxConcurrent = 1
    MaxProgress = 1
    Ttl = 2
    MaxTime = 5
    SingleConsumer = TRUE
INVARIANTS
    KeptForTtl
    ClearedAfterTwoTtl
    NoCleanDemoOutput
PROPERTIES
    KeepsContract
    EverythingSettles
    StreamEnds
