CONSTANTS
    Stages <- DeliveryStages
    StartStage = "implement"
    Position <- DeliveryPosition
    OnOutcome <- DeliveryEdges
    GateOf <- DeliveryGates
    EntryGateOf <- DeliveryEntryGates
    VerifyStage = "verify"
    ShipStage = "ship"
    ReturnStages = {"verify"}
    RepairStage = "remediate"
    EvidenceStages = {"verify"}
    Criteria = {"a"}
    MaxTransitions = 4
    MaxAttempts = 2
    MaxFailures = 2
    LongHorizon = FALSE
    Candidate = FALSE
    AwayMode = FALSE
    MaxInterventions = 1
    MaxReports = 1
SPECIFICATION Spec
CHECK_DEADLOCK FALSE
INVARIANTS
    TypeOK
    AttemptsWithinCeiling
PROPERTIES
    AnswersItsCards
