CONSTANTS
    Kinds = {"generate", "validate", "deploy"}
    Hosts = {"run", "node"}
    ClarifyRounds = 5
    RepairRounds = 3
    MaxLost = 2
SPECIFICATION PipelineSpec
INVARIANTS
    DeployedAsCleared
    OutcomeMatchesDeployment
PROPERTIES
    PipelineEnds
CHECK_DEADLOCK FALSE
