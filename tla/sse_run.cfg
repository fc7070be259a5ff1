SPECIFICATION FairSpec
CONSTANTS
    Conns = {c1, c2}
    BufSize = 2
    Status = status
    MaxMsgs = 2
INVARIANTS
    CrashOnlyByReporter
    NothingLost
PROPERTY GoneForgotten
CHECK_DEADLOCK FALSE
