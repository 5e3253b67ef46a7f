CONSTANTS
    n1 = n1
    n2 = n2
    n3 = n3
    Nodes = {n1, n2, n3}
    Handled = {n2}
    Waits = {n3}
    Attempts = 2
    MaxFaults = 2
SPECIFICATION Spec
INVARIANTS
    ReportsAgree
    RepeatedOnlyByFaults
PROPERTIES
    LocalRunEnds
CHECK_DEADLOCK FALSE
