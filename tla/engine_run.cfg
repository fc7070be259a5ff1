SPECIFICATION Spec
CONSTANTS
    Bodies <- RunBodies
    Reposted = {}
    MaxObjs = 2
    MaxEntries = 3
    NumWorkers = 1
    NumTesters = 1
    QueueSize = 1
    EventCap = 1
    MaxFirings = 1
    MaxTests = 1
    MayStop = TRUE
INVARIANTS ExecutesCurrent CancelReaches RunningIsReal
    LeftoversCancelled
PROPERTY KeepsRegistry
CHECK_DEADLOCK FALSE
