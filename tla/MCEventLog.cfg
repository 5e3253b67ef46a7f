CONSTANTS
    w1 = w1
    w2 = w2
    w3 = w3
    c1 = c1
    k1 = k1
    NoKey = NoKey
    Writers = {w1, w2, w3}
    Keys = {k1}
    Clients = {c1}
    PageSize = 2
    MaxIdle = 2
    MaxDrops = 1
SPECIFICATION Spec
INVARIANTS
    KeyedOnce
    ReceivedInOrder
    NothingPassedOver
PROPERTIES
    EventsArrive
CHECK_DEADLOCK FALSE
