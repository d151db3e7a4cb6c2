\* An application that connects again at once.
SPECIFICATION Spec
CONSTANTS
    MaxGen = 2
    MaxEvt = 2
    Patient = FALSE
INVARIANTS
    NoWorkerLeft
