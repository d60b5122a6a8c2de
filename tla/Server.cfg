SPECIFICATION Spec
CONSTANTS
    Conns = {c1, c2}
    BackoffBase = 1
    BackoffCap = 3
    MaxFailures = 3
INVARIANTS
    NoOrphanConn
    BackoffMatchesFailures
PROPERTIES
    ShutdownCompletes
    QueuedIsAccepted
    WatcherEnds
