\* Connect and close against a pump that reconnects, a simulator that quits,
\* calls that block and restore timers that outlive their session.
SPECIFICATION FairSpec
CONSTANTS
    SessionId = {s1, s2}
    MaxIndex = 2
    Timer = {x1, x2}
    None = None
    MayHang = TRUE
    OneOpener = TRUE
INVARIANTS
    TypeOK
    
    TransmitsMapped
    SessionsAccounted
    RestoreNotLost
PROPERTIES
    CallsReturn
