SPECIFICATION Spec
CONSTANTS
    a = a  b = b  f = f  m1 = m1  m2 = m2  s1 = s1  s2 = s2
    None = None
    Blocks = {a, b, f}
    Number <- MCNumber
    Ancestors <- MCAncestors
    Deposits <- MCDeposits
    LidoWC <- MCLidoWC
    Listed = {a, b, f}
    Modules = {m1, m2}
    Nonce <- MCNonce
    UnusedKeys <- MCUnusedKeys
    Paused <- MCPaused
    Views <- FollowingViews
    ResignBlocks = 2
    Slots = {s1, s2}
    Faults = {"send"}
INVARIANTS
    RecordedIsCovered
