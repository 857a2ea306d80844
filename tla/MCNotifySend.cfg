SPECIFICATION FairSpec
CONSTANTS
    Channel = {"ch"}
    Key = {"w", "i"}
    Sev <- WarningAndInfo
    Configs <- DigestTimes
    Day = 3
    MaxQueue = 2
    MaxHeld = 2
    MaxDigest = 2
    Retries = 1
    SaveOutcomes = {TRUE}
    Restarts = {TRUE}
    MaxEvents = 4
    MaxTime = 4
INVARIANTS TypeOK EndIsSeen
PROPERTIES NoDigestTwice QueueEmpties
