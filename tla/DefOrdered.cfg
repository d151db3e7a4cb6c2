\* The documented order of calls: subscriptions before the pump starts, one
\* variable for each use, a simulator that quits and comes back between calls.
SPECIFICATION FairSpec
CONSTANTS
    App = {a}
    Pump = Pump
    Timer = Timer
    None = None
    SubId = {s1, s2}
    VarId = {x1, x2}
    SubVar = {v}
    ReadVar = {r}
    WriteVar = {w}
    Env <- Nothing
INVARIANTS
    TypeOK
    NoStacking
    NoGhostRequest
PROPERTIES
    CallsReturn
