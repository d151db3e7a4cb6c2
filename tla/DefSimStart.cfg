\* The restore timer in the middle of a session.
SPECIFICATION Spec
CONSTANTS
    App = {a}
    Pump = Pump
    Timer = Timer
    None = None
    SubId = {s1, s2}
    VarId = {x1, x2}
    SubVar = {v}
    ReadVar = {}
    WriteVar = {}
    Env <- SimStart
SYMMETRY Symmetry
INVARIANTS
    NoStacking
