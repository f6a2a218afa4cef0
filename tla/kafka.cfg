SPECIFICATION FairSpec
CONSTANTS
    Calls = {c1, c2}
    Subscribers = {s1, s2}
    MaxCopies = 2
    Faults = {"rpc", "broker", "close"}
    None = None
INVARIANTS
    TypeOK
    OneConsumer
PROPERTIES
    ImplementsPublish
    Recovers
