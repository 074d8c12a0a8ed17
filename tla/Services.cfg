SPECIFICATION PartsSpec
CONSTANTS
    None = None
    Clients = {cli1, cli2}
    c1 = c1
    c2 = c2
    c3 = c3
    e1 = e1
    e2 = e2
    Conns = {c1, c2, c3}
    Script <- PoolScript
    FDs = {1, 2, 3}
    Workers <- Pair
    Events = {e1, e2}
    KeyOf <- MCKeyOf
    Room = 3
    MayStall = FALSE
    MayLeave = FALSE
INVARIANTS
    TypeOK
    AtMostOnce
    LeavesInOrder
    SingleWhole
    Delivered
    NeverOvertaken
PROPERTIES
    CopyToAll
    OnlyRegistered
    SlowRequestsEnd
    WaitsOut
    CallsEnd
\* Every part may end: transfers are done, clients have left, bounds are met.
CHECK_DEADLOCK FALSE
