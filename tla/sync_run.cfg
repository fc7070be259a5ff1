SPECIFICATION LiveSyncSpec
CONSTANTS
    Ids = {e1}
    Types = {light}
    HA = ha
    PMA = pma
    Sources = {ha, pma}
    Rooms = {}
    NoRoom = noRoom
    States = {on, off}
    None = None
    MaxListed = 3
    Gone = gone
    Boot = boot
    Loop = loop
    Requests = {req}
    Editors = {ed}
    MaxChanges = 1
    MaxEdits = 1
INVARIANTS
    SyncTypeOK
    StaleOnlyIfRaced
PROPERTIES
    AloneMirrors
    Converges
    StopEndsLoop
CHECK_DEADLOCK FALSE
