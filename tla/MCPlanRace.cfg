SPECIFICATION CSpec
CONSTANTS
    CohortOf <- MCCohortOf
    Limits = {1}
    Routers = {q1, q2}
    Branches = {"base", "side"}
    MaxUnitRuns = 2
    MaxOpened = 2
    MaxSetbacks = 0
INVARIANT OnePlanOneSession
CHECK_DEADLOCK FALSE
