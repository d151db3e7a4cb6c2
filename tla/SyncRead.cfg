\* Two threads, or the callbacks on the pump, read two variables, one
\* of them subscribed to as well, by get and get_many; a pump runs or not.
SPECIFICATION FairSpec
CONSTANTS
    a1 = a1
    a2 = a2
    alt = alt
    ias = ias
    App <- MCApp
    Var <- MCVar
    Subscribed <- MCSubscribed
    Readers <- Either
    Pump = Pump
    Callback = Callback
    None = None
    MaxCalls = 2
CHECK_DEADLOCK FALSE
INVARIANTS
    TypeOK
    PendingIsHolders
PROPERTIES
    ImplementsContract
    CallsReturn
