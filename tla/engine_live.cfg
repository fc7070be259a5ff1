SPECIFICATION FairSpec
CONSTANTS
    Bodies <- SingleBody
    Reposted = {}
    MaxObjs = 1
    MaxEntries = 3
    NumWorkers = 1
    NumTesters = 0
    QueueSize = 2
    EventCap = 1
    MaxFirings = 2
    MaxTests = 0
    MayStop = TRUE
PROPERTIES RequestsServed StopReturns
CHECK_DEADLOCK FALSE
