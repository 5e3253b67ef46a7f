CONSTANTS
    n1 = n1
    n2 = n2
    n3 = n3
    n4 = n4
    e1 = e1
    e2 = e2
    e3 = e3
    e4 = e4
    NoNode = NoNode
    Nodes = {n1, n2, n3, n4}
    Edges = {e1, e2, e3, e4}
    ErrorEdges = {e3}
    ContinueNodes = {n3}
    BadWhen = {e2}
    NodeList <- MCNodeList
    EdgeList <- MCEdgeList
SPECIFICATION Spec
INVARIANTS
    NoDeliveryLost
    OrphansOnlyAfterBadWhen
    LoopsComputeLevels
PROPERTIES
    ImplementsDataflow
    Terminates
CHECK_DEADLOCK FALSE
