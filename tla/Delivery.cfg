\* Short ranges of ids, which the counters may leave.
SPECIFICATION Spec
CHECK_DEADLOCK FALSE
CONSTANTS
    alt = alt
    flaps = flaps
    title = title
    rpm = rpm
    Field = {alt, flaps, title, rpm}
    Vars = {title}
    Known = {alt, flaps, title}
    DataType <- Types
    SubLists <- Mixed
    ReadLists <- Refused
    Garbage = Garbage
    VarStart = 4
    ManyStart = 5
    TypeOffset = 5
    MaxSub = 3
    MaxVar = 4
    MaxMany = 6
    MaxLive = 2
    MaxWire = 1
    Burst = {1}
INVARIANTS
    NoCrossingInRange
    ValuesAreOwn
    LiveIsWatched
