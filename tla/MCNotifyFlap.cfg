SPECIFICATION Spec
CONSTANTS
    Channel = {"ch"}
    Key = {"w"}
    Sev <- OneWarning
    Configs <- Daytime
    Day = 3
    MaxQueue = 5
    MaxHeld = 5
    MaxDigest = 2
    Retries = 1
    SaveOutcomes = {TRUE}
    Restarts = {}
    MaxEvents = 5
    MaxTime = 2
INVARIANTS EndIsSeen
