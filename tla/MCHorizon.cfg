CONSTANTS
    Stages <- GatedStages
    StartStage = "build"
    Position <- GatedPosition
    OnOutcome <- GatedEdges
    GateOf <- GatedGates
    EntryGateOf <- ReleaseGateOnly
    VerifyStage = "none"
    ShipStage = "ship"
    ReturnStages = {}
    RepairStage = "repair"
    EvidenceStages = {"repair"}
    Criteria = {"a"}
    MaxTransitions = 5
    MaxAttempts = 3
    MaxFailures = 4
    LongHorizon = TRUE
    Candidate = FALSE
    AwayMode = FALSE
    MaxInterventions = 1
    MaxReports = 1
SPECIFICATION Spec
CHECK_DEADLOCK FALSE
INVARIANTS
    HorizonLadderEnds
