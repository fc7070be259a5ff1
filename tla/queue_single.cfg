SPECIFICATION FairSpec
CONSTANTS
    w1 = w1  w2 = w2  c1 = c1  c2 = c2  j1 = j1
    Workers = {w1}
    Clients = {c1}
    Janitors = {}
    MaxId = 3
    MaxTime = 3
    MaxRuns = 3
    MaxRetries = 1
    BackoffFactor = 2
    BackoffCap = 300
    Bulks <- SingleBulks
    Ops = {}
    EditStatuses = {}
    EditTimes = {}
    EditWeights = {}
    CallsMayFail = FALSE
    MayCrash = FALSE
PROPERTY AllFinish
CHECK_DEADLOCK FALSE
