CONSTANTS
    r1 = r1
    r2 = r2
    r3 = r3
    NoRun = NoRun
    Requests = {r1, r2, r3}
    Keyed = {r1, r2}
    MaxCrashes = 1
    MaxLost = 1
    MaxExpiries = 1
    MaxFaults = 2
SPECIFICATION Spec
INVARIANTS
    SameRunReturned
    ExecutionsAccounted
    
SYMMETRY Symmetry
CHECK_DEADLOCK FALSE
