CONSTANTS
    p1 = p1
    p2 = p2
    t1 = t1
    t2 = t2
    t3 = t3
    Processes = {p1, p2}
    Triggers <- MCTriggers
    Created <- MCCreated
    Broken = {t3}
    Interval <- MCInterval
    Ttl = 3
    MaxTick = 1
    MaxToggles = 1
    MaxRaises = 1
    Horizon = 7
SPECIFICATION SchedulerSpec
INVARIANTS
    RepeatsAreTtlApart
    SlotsFire
CHECK_DEADLOCK FALSE
