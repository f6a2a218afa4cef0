SPECIFICATION FairSpec
CONSTANTS
    Sockets = {w1, w2, w3}
    Calls = {c1, c2}
    Subscriptions = 2
    ReconnectAttempts = 2
    Faults = {"network"}
INVARIANTS
    TypeOK
    OneLiveSocket
    ConnectedIsTrue
    SendAfterConnect
    IdsAreFresh
    MessagesAreHandled
    DeathIsNoticed
PROPERTIES
    CallsSettle
    Recovers
