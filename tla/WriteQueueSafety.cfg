\* Two writes, drained one at a time, with reconnects and raising dispatch.
SPECIFICATION FairSpec
CONSTANTS
    Op = {w1, w2}
    None = None
    MaxItems = 1
    AutoReconnect = TRUE
    DispatchMayRaise = TRUE
INVARIANTS
    TypeOK
    AtMostOnce
    PendingExact
    FlushSound
PROPERTIES
    ExitDrained
    QueuedWriteResolves
    ImplementsContract
