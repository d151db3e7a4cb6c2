\* One thread owns the connection and uses every method; CallDispatch and Open
\* may block, and a lost handle is reopened by the pump.
SPECIFICATION FairSpec
CONSTANTS
    Caller = {c1}
    Pump = {p1, p2, p3}
    None = None
    Calls <- OwnerCalls
    MayHang = TRUE
    AutoReconnect = TRUE
    MaxPauses = 2
INVARIANTS
    TypeOK
    HungMeansStuck
    RunningMeansPump
    PauseRestores
PROPERTIES
    ImplementsPump
    CallsReturn
    StoppedPumpExits
