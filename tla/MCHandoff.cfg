SPECIFICATION HandoffSpec
CONSTANTS
    Attempts = {a1, a2}
    Cardless = FALSE
    MaxEdits = 1
    MaxGeneration = 1
    MaxTouches = 1
    Required = {r}
    Optional = {o}
    Enforced = TRUE
    MaxSource = 1
    MaxCollections = 3
    Gates = {g1}
    Agents = {a}
    Profiles = {"fast", "full"}
    MaxFingerprint = 2
    MaxConfig = 2
    Ttl = 1
    MaxEntries = 1
    MaxHours = 1
INVARIANTS
    OneOpenHandoff SentUnderRecord
    AcceptedAsObserved AcceptedWasEarned
PROPERTIES
    SendingResolves NotRerolled
CHECK_DEADLOCK FALSE
