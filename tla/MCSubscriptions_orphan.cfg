SPECIFICATION Spec
CONSTANTS
    o1 = o1
    s1 = s1
    s2 = s2
    NoSub = NoSub
    Owner = {o1}
    Sub = {s1}
    OwnerOf <- MCOwnerOf
    Overtaken = {"charge"}
    OneAtATime = TRUE
    MaxFaults = 0
    MaxErasures = 1
INVARIANTS
    NoOrphanedCharge
