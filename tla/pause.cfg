SPECIFICATION FairSpec
CONSTANTS
    None = None
    Modules = {m1, m2, m3}
    Txs = {t1, t2}
    Faults = {"rpc", "revert", "crash"}
INVARIANT
    TypeOK
PROPERTIES
    EventuallyPaused
