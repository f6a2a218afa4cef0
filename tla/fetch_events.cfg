SPECIFICATION FairSpec
CONSTANTS
    Start = 0
    End = 4
    Capacity = 2
    Faults = {"partition", "other"}
    Patience = 2
    Rate = 2
    Burst = 2
    Errors = {"rpc"}
    None = None
INVARIANTS
    Partition
    OneRequest
PROPERTIES
    ImplementsQuery
    EndsOnlyInSilence
    SilenceEnds
    BalanceFollows
    Returns
CHECK_DEADLOCK FALSE
