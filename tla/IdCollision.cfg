\* The ranges of the code, and a process that has read 30 000 times.
SPECIFICATION Spec
CHECK_DEADLOCK FALSE
CONSTANTS
    alt = alt
    flaps = flaps
    title = title
    rpm = rpm
    Field = {alt, flaps, title, rpm}
    Vars = {flaps, alt}
    Known = {alt, flaps, title}
    DataType <- Types
    SubLists <- Numbered
    ReadLists <- Numbered
    Garbage = Garbage
    VarStart = 1000
    ManyStart = 20000
    TypeOffset = 50000
    MaxSub = 1
    MaxVar = 1000
    MaxMany = 50002
    MaxLive = 2
    MaxWire = 1
    Burst = {30000}
INVARIANTS
    ReadersExpectTheirData
