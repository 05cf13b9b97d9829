SPECIFICATION Spec
CONSTANTS
    NoJob = NoJob
    Job = {j1, j2}
    Sync = {x1}
    Stream = {s1, s2}
    Requests <- MCRequests
    MaxConcurrent = 2
    MaxProgress = 2
    Ttl = 1
    MaxTime = 0
    SingleConsumer = FALSE
SYMMETRY MCSymmetry
INVARIANTS
    TypeOK
    TerminalLast
    FinalEventTruthful
    SlotsConserved
    CountedIsServed
PROPERTIES
    StreamInOrder
