SPECIFICATION Spec
CONSTANTS
    e1 = e1
    e2 = e2
    r1 = r1
    r2 = r2
    Ids = {e1, e2}
    Types = {light, switch}
    Sources = {ha, pma}
    Rooms = {r1, r2}
    NoRoom = noRoom
    States = {on}
    None = None
    MaxListed = 2
INVARIANTS
    RoomIndexExact
    KindIndexExact
    NeverHidden
SYMMETRY Symmetry
CHECK_DEADLOCK FALSE
