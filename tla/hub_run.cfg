SPECIFICATION FairSpec
CONSTANTS
    c1 = c1  c2 = c2  b1 = b1  b2 = b2
    Clients = {c1, c2}
    Callers = {b1}
    BufSize = 1
    MaxMsgs = 2
    MaxPings = 1
INVARIANTS CrashOnlyByPong NoSilentGap
PROPERTY GoneReaped
CHECK_DEADLOCK FALSE
