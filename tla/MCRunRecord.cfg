CONSTANTS
    Empty = Empty
    Scripts <- MCScripts
    MaxPosts = 3
    MaxFailures = 1
    MaxRaises = 1
SPECIFICATION Spec
INVARIANTS
    RecordsConsistent
    LastEventDecides
PROPERTIES
    CacheConverges
CHECK_DEADLOCK FALSE
