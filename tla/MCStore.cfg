CONSTANTS
    Stages <- PlanningStages
    StartStage = "plan"
    Position <- PlanningPosition
    OnOutcome <- PlanningEdges
    GateOf <- PlanningGates
    EntryGateOf <- PlanningEntryGates
    VerifyStage = "verify"
    ShipStage = "ship"
    ReturnStages = {}
    RepairStage = "remediate"
    EvidenceStages = {}
    Criteria = {}
    MaxTransitions = 4
    MaxAttempts = 3
    MaxFailures = 3
    LongHorizon = FALSE
    Candidate = FALSE
    AwayMode = FALSE
    MaxInterventions = 3
    MaxReports = 0
    Procs = {p1, p2}
    Nobody = nobody
    NoState = nostate
    MaxDead = 1
    MaxCommits = 3
    Requests = {x}
    Runs = {r1, r2}
    Restores = TRUE
    MaxCleanups = 1
    MaxCopies = 2
    MaxCrashes = 1
    Tickers = {t1, t2}
    MaxInvocations = 2
    QuietScans = 2
    MaxTranscript = 1
SPECIFICATION KeptSpec
INVARIANTS
    StatusNamesTheActor PauseIsForgotten
    LoadIsCurrent
    RequestKept SucceededIsFiled
PROPERTIES
    Durable RegisteredKept
CHECK_DEADLOCK FALSE
