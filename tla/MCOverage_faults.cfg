SPECIFICATION Spec
CONSTANTS
    starter = starter
    growth = growth
    Owner = {o1, o2}
    Tier = {starter, growth}
    Cap <- MCCap
    Rate <- MCRate
    NoTier = NoTier
    PlanTiers = {starter, NoTier}
    MaxCycle = 1
    MaxParses = 1
    MaxFaults = 1
    MaxManual = 1
INVARIANTS
    InvoicesAreOwed
    SettledIsInvoiced
    DuplicatesNeedFaults
PROPERTIES
    NoInvoiceAfterSettled
    LastCycleSettles
