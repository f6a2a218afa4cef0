SPECIFICATION FairSpec
CONSTANTS
    a = a  b = b  f = f  m1 = m1  m2 = m2  s1 = s1  s2 = s2
    None = None
    Blocks = {a, b}
    Number <- MCNumber
    Ancestors <- MCAncestors
    Deposits <- MCDeposits
    LidoWC <- MCLidoWC
    Listed = {a, b}
    Modules = {m1, m2}
    Nonce <- MCNonce
    UnusedKeys <- MCUnusedKeys
    Paused <- MCPaused
    Views <- FollowingViews
    ResignBlocks = 2
    Slots = {s1, s2}
    Faults = {"keysApi", "rpc", "crash"}
INVARIANTS
    RecordedIsCovered
    ProcessedIsCovered
PROPERTIES
    EventuallyProcessed
    ImplementsCouncil
