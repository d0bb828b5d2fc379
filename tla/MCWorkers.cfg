SPECIFICATION WorkersSpec
CONSTANTS
    Delegates = {d1, d2}
    MaxCards = 2
    Tasks = {1, 2}
    Needs <- MCNeeds
    Prompts = {2}
    Routed = {1}
    OverrideBound = 1
    MaxTaskRuns = 3
    MaxReinstates = 1
    MaxHorizonDeaths = 1
    Procs = {p1, p2, p3}
    Nobody = nobody
    MaxDead = 2
    w1 = w1
    w2 = w2
    w3 = w3
    Watchers = {w1, w2, w3}
    NoWatcher = nowatcher
    Targets = {1, 2}
    Follows <- MCFollows
    UntilTerminal = {w3}
    MaxWakes = 1
    MaxWatchDeaths = 2
INVARIANTS
    OneOwnedWorker
    OneLanding
    LostTimeIsDisclosed
PROPERTIES
    RecordedWhileAwaited SucceededForReal HorizonEnds LandingKeepsLock LanderEnds
CHECK_DEADLOCK FALSE
