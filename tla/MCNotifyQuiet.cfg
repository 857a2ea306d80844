SPECIFICATION FairSpec
CONSTANTS
    Channel = {"ch"}
    Key = {"w", "c"}
    Sev <- WarningAndCritical
    Configs <- AnyHours
    Day = 3
    MaxQueue = 2
    MaxHeld = 2
    MaxDigest = 2
    Retries = 1
    SaveOutcomes = {TRUE}
    Restarts = {}
    MaxEvents = 4
    MaxTime = 4
INVARIANTS FiringIsSeen 
PROPERTIES SummaryIsTrue QuietIsKept HeldIsReleased
