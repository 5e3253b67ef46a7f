CONSTANTS
    r1 = r1
    r2 = r2
    NoRun = NoRun
    Requests = {r1, r2}
    Keyed = {r1, r2}
    MaxCrashes = 0
    MaxLost = 0
    MaxExpiries = 0
    MaxFaults = 0
SPECIFICATION Spec
INVARIANTS
    NeverInBothPlaces
CHECK_DEADLOCK FALSE
