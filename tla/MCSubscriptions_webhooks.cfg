SPECIFICATION Spec
CONSTANTS
    o1 = o1
    s1 = s1
    s2 = s2
    NoSub = NoSub
    Owner = {o1}
    Sub = {s1, s2}
    OwnerOf <- MCOwnerOf
    Overtaken = {"charge"}
    OneAtATime = TRUE
    MaxFaults = 1
    MaxErasures = 2
INVARIANTS
    ServedIsPaid
    PaidIsServed
    KnownIsCancelled
PROPERTIES
    Converges
