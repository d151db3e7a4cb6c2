\* An application that connects again only after the threads of the old worker
\* have ended.
SPECIFICATION FairSpec
CONSTANTS
    MaxGen = 2
    MaxEvt = 1
    Patient = TRUE
INVARIANTS
    TypeOK
    NoWorkerLeft
PROPERTIES
    ConnectedMeansReady
    StuckIsKilled
    CallsReturn
