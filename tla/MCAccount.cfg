SPECIFICATION Spec
CONSTANTS
    b1 = b1
    b2 = b2
    None = None
    Browser = {b1, b2}
    Patient = {b1}
    MaxUser = 1
    MaxLinks = 1
    MaxLate = 1
INVARIANTS
    GoneIsErased
PROPERTIES
    DeletionConverges
    SignInEnds
