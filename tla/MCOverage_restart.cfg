SPECIFICATION Spec
CONSTANTS
    starter = starter
    growth = growth
    Owner = {o1}
    Tier = {starter, growth}
    Cap <- MCCap
    Rate <- MCRate
    NoTier = NoTier
    PlanTiers = {starter, growth}
    MaxCycle = 1
    MaxParses = 1
    MaxFaults = 1
    MaxManual = 0
INVARIANTS
    NoDoubleBilling
