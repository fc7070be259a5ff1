SPECIFICATION FairSpec
CONSTANTS
    Loops = {1, 2}
    Intervals = {0, 15, 30}
    Default = 30
INVARIANTS
    TickerServed
    LoneLoop
    Settled
PROPERTIES
    CallsReturn
    Records
CHECK_DEADLOCK FALSE
