SPECIFICATION FairSpec
CONSTANTS
    Known = {a, b}
    Unknown = {x}
    Callers = {c1, c2}
    Capacity = 1
    PanicAfter = 3
    MaxConns = 2
INVARIANTS TypeOK SubscriptionsReachBroker AliveUntilShutdown
PROPERTIES Reconnects
CHECK_DEADLOCK FALSE
