SPECIFICATION Spec
CONSTANTS
    g0 = g0  g1 = g1  g2 = g2  g3 = g3  g4 = g4  g5 = g5  f3 = f3  f4 = f4
    None = None
    Blocks = {g0, g1, g2, g3, g4, g5, f3, f4}
    Number <- MCNumber
    Ancestors <- MCAncestors
    Deposits = {g1, g3, f4}
    Deployment = 0
    Lag = 2
    Step = 2
    Rate = 2
    Versions = {"1.0.0", "1.1.0"}
    Faults = {"unlink", "crash"}
INVARIANTS
    OwnVersion
