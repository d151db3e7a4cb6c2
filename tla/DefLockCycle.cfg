\* A subscription made while the pump runs.
SPECIFICATION Spec
CONSTANTS
    App = {a}
    Pump = Pump
    Timer = Timer
    None = None
    SubId = {s1, s2}
    VarId = {x1, x2}
    SubVar = {v}
    ReadVar = {}
    WriteVar = {}
    Env <- LateSubscribe
SYMMETRY Symmetry
INVARIANTS
    NoLockCycle
