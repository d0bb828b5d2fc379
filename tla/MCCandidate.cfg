CONSTANTS
    Stages <- CandidateStages
    StartStage = "plan"
    Position <- CandidatePosition
    OnOutcome <- CandidateEdges
    GateOf <- CandidateGates
    EntryGateOf <- CandidateEntryGates
    VerifyStage = "verify"
    ShipStage = "ship"
    ReturnStages = {"verify"}
    RepairStage = "remediate"
    EvidenceStages = {"verify"}
    Criteria = {"a", "b"}
    MaxTransitions = 6
    MaxAttempts = 2
    MaxFailures = 2
    LongHorizon = FALSE
    Candidate = TRUE
    AwayMode = FALSE
    MaxInterventions = 0
    MaxReports = 1
SPECIFICATION FairSpec
CHECK_DEADLOCK FALSE
INVARIANTS
    SameReasonStops
    OutcomesMatchCards
PROPERTIES
    ComesToRest
