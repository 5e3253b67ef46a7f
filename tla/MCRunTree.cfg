SPECIFICATION TreeSpec
CONSTANTS
    Documents <- MCDocuments
    Started = {"main", "outer", "api", "self", "cyclic", "empty", "broken", "noref"}
    MaxDepth = 3
    MaxLost = 2
CHECK_DEADLOCK FALSE
INVARIANT
    OutcomeTold
PROPERTY
    TreeEnds
