CONSTANTS
    Stages <- GatedStages
    StartStage = "build"
    Position <- GatedPosition
    OnOutcome <- GatedEdges
    GateOf <- GatedGates
    EntryGateOf <- GatedEntryGates
    VerifyStage = "none"
    ShipStage = "ship"
    ReturnStages = {}
    RepairStage = "repair"
    EvidenceStages = {"ship"}
    Criteria = {"a"}
    MaxTransitions = 5
    MaxAttempts = 1
    MaxFailures = 2
    LongHorizon = FALSE
    Candidate = FALSE
    AwayMode = TRUE
    MaxInterventions = 1
    MaxReports = 1
SPECIFICATION Spec
CHECK_DEADLOCK FALSE
INVARIANTS
    GateCoversCard
    RepairLoopsBounded
