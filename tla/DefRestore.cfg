\* Every way to restore at once: OPEN, the restore timer, restart_dispatch and
\* the recovery, with sessions lost in the middle of a call.
SPECIFICATION Spec
CONSTANTS
    App = {a}
    Pump = Pump
    Timer = Timer
    None = None
    SubId = {s1, s2}
    VarId = {x1}
    SubVar = {v}
    ReadVar = {}
    WriteVar = {}
    Env <- AnyRestore
SYMMETRY Symmetry
INVARIANTS
    RegistryAgrees
    NoLockCycle
    RestoredWhenQuiet
    RequestsAreDefined
