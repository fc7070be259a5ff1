SPECIFICATION Spec
CONSTANTS
    w1 = w1  w2 = w2  c1 = c1  c2 = c2  j1 = j1
    Workers = {w1}
    Clients = {c1, c2}
    Janitors = {}
    MaxId = 1
    MaxTime = 2
    MaxRuns = 2
    MaxRetries = 1
    BackoffFactor = 2
    BackoffCap = 300
    Bulks <- OneBulk
    Ops = {"process", "force", "update", "cancel", "delete", "clear", "cleanup"}
    EditStatuses = {"paused"}
    EditTimes = {}
    EditWeights = {}
    CallsMayFail = TRUE
    MayCrash = TRUE
SYMMETRY ClientSymmetry
INVARIANTS ExclusiveExecution SucceedsOnce CompletedIsReal
    RetryCountAccounts
CHECK_DEADLOCK FALSE
