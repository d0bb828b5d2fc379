SPECIFICATION GroupsSpec
CONSTANTS
    CohortOf <- MCCohortOf
    Limits = {1, 2}
    Routers = {q1}
    Branches = {"base", "side"}
    MaxUnitRuns = 2
    MaxOpened = 2
    MaxSetbacks = 1
    Slots = {"c1", "c2"}
    MaxSessionDeaths = 1
    Ticks = {t1, t2}
    Period = 3
    Window = 1
    Grace = 0
    MaxInstant = 3
    MaxKills = 1
    Candidates = {w1, w2}
    MaxVersion = 3
    MaxAllocations = 3
    MaxDirectCommits = 1
    MaxReleaseDeaths = 1
    Names = {"left", "right", "joint"}
    MaxWork = 1
    MaxWorktreeDeaths = 1
INVARIANTS
    PredecessorsVisible ProofMeansMerged OneRunPerCheckout
    OneConsolidation
    LandingsRise WorkKept DeathIsRetried
PROPERTIES
    RemovedWhenResolved AlertStands
CHECK_DEADLOCK FALSE
