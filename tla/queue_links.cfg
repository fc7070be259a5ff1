SPECIFICATION Spec
CONSTANTS
    w1 = w1  w2 = w2  c1 = c1  c2 = c2  j1 = j1
    Workers = {w1}
    Clients = {c1}
    Janitors = {j1}
    MaxId = 2
    MaxTime = 2
    MaxRuns = 4
    MaxRetries = 1
    BackoffFactor = 2
    BackoffCap = 300
    Bulks <- LinkedBulks
    Ops = {"process", "cancel"}
    EditStatuses = {}
    EditTimes = {}
    EditWeights = {}
    CallsMayFail = FALSE
    MayCrash = TRUE
VIEW AllButResults
INVARIANTS SuccessGate RetryBudget
PROPERTY KeepsLifecycle
CHECK_DEADLOCK FALSE
