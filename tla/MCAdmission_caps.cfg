SPECIFICATION Spec
CONSTANTS
    o1 = o1
    t1 = t1
    t2 = t2
    l1 = l1
    f1 = f1
    ip1 = ip1
    ip2 = ip2
    r1 = r1
    r2 = r2
    r3 = r3
    r4 = r4
    demo = demo
    Nobody = Nobody
    DemoKey = {}
    Owner = {o1}
    TestKey = {t1, t2}
    LiveKey = {}
    FirstPartyKey = {}
    IP = {ip1}
    KeyOwner <- MCKeyOwner
    Request = {r1, r2, r3}
    Concurrent = 2
    FreeMax = 1
    Window = 2
    TestCap = 1
    Month = 2
    Retention = 3
    MaxTime = 4
SYMMETRY MCSymmetry
INVARIANTS
    TestCapOvershoot
    MeteredRowsKept
