SPECIFICATION FairSpec
CONSTANTS
    a = a
    b = b
    l = l
    d1 = d1
    d2 = d2
    r1 = r1
    r2 = r2
    None = None
    Blocks = {a, b}
    Addresses = {l, d1, d2, r1, r2}
    Address <- MCAddress
    InitReaders = {i1, i2, i3}
    Signers = {s1}
    Faults = {"rpc"}
INVARIANTS
    TypeOK
    PrefixIsCurrent
    ReadyIsComplete
PROPERTIES
    SignsWithCurrent
    EventuallyReady
