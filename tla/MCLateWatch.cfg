CONSTANTS
    Stages <- ChunkStages
    StartStage = "verify"
    Position <- ChunkPosition
    OnOutcome <- ChunkEdges
    GateOf <- ChunkGates
    EntryGateOf <- ChunkEntryGates
    VerifyStage = "verify"
    ShipStage = "ship"
    ReturnStages = {"verify"}
    RepairStage = "remediate"
    EvidenceStages = {"verify"}
    Criteria = {"a"}
    MaxTransitions = 4
    MaxAttempts = 2
    MaxFailures = 2
    LongHorizon = FALSE
    Candidate = FALSE
    AwayMode = FALSE
    MaxInterventions = 2
    MaxReports = 1
SPECIFICATION Spec
CHECK_DEADLOCK FALSE
PROPERTIES
    PauseHeldForDecision
