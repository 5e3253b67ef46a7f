SPECIFICATION Spec
CONSTANTS
    None = None
    Modes = {"memory", "postgres", "dual_sql", "dual_memory"}
    Scripts <- MCScripts
    Graphs = {ga, gb}
    FirstGraph = ga
    Tags = {ta, tb}
    FirstTags = ta
    MaxOps = 4
    MaxOpen = 2
    MaxTroubles = 1
CHECK_DEADLOCK FALSE
INVARIANTS
    VersionNamesDefinition
    RunsOwnGraph
    ArchivedTakesNoRuns
    PatchesKept
    OwnedFollowsOwner
    StoresAgree
PROPERTY
    RunHistoryRetained
