SPECIFICATION Spec
CONSTANTS
    Nodes <- MCNodes
    Chains <- MCChains
    MaxAttempts = 2
    MaxIterations = 2
    TokenCap = 2
    CallTokens = {0, 2}
    ChatTime = 600
    CallTime = 300
    TryTimes = {0, 300, 900}
    Margin = 1200
    Sessions = {0, 600, 9000}
    Tries = 5
    StartLeft = {0, 600, 1201}
CHECK_DEADLOCK FALSE
INVARIANTS
    EffectsAllowed
    BudgetKept
    SignedInTime
    SuccessStands
PROPERTY
    NodeEnds
