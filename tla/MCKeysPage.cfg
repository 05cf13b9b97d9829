SPECIFICATION Spec
CONSTANTS
    t1 = t1
    t2 = t2
    o1 = o1
    o2 = o2
    None = None
    Tab = {t1}
    Owner = {o1, o2}
    MaxKey = 2
PROPERTIES
    RevokedByOwner
    KeyStaysUntilDone
    CreatedIsListed
