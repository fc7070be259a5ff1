SPECIFICATION FairSpec
CONSTANTS
    Callers = {a, b, c}
    MaxFailures = 2
    HalfOpenMaxCalls = 4
    MaxAttempts = 2
    MaxFaults = 4
INVARIANTS
    NeverWedged
PROPERTIES
    Transitions
    NothingWhileOpen
    ClosesAgain
CHECK_DEADLOCK FALSE
