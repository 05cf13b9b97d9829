SPECIFICATION Spec
CONSTANTS
    None = None
    Tab = {t1}
    Batch <- MCBatch
    Class = {"ReconciliationError"}
    FirstDay = {0, 3}
    Account <- MCAccount
    Sample <- MCSample
    Threshold <- MCThreshold
    MaxKeys = 3
    MaxSteps = 4
INVARIANTS
    NeverToldNone
    TintsAreExplained
    OverageAsQuoted
    DaysInTheirColumns
    SampleAddsUp
CHECK_DEADLOCK FALSE
