CONSTANTS
    n1 = n1
    n2 = n2
    c1 = c1
    c2 = c2
    NoNode = NoNode
    Nodes = {n1, n2}
    Calls = {c1, c2}
    SignalTimeout = 60
    RunTimeout <- DefaultRunTimeout
    MaxLost = 1
SPECIFICATION Spec
INVARIANTS
    DecisionsArrive
PROPERTIES
    KeepsDecision
    ReviewEnds
CHECK_DEADLOCK FALSE
