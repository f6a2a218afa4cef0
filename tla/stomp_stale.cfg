SPECIFICATION Spec
CONSTANTS
    Sockets = {w1, w2, w3}
    Calls = {c1, c2}
    Subscriptions = 1
    ReconnectAttempts = 2
    Faults = {"stale"}
SYMMETRY StompSymmetry
INVARIANTS
    ConnectedIsTrue
