SPECIFICATION FairSpec
CONSTANTS
    Node = {n1}
    Anyone = anyone
    Slot = {s1, s2}
    NoSlot = NoSlot
    Endpoints = {"push", "wait"}
    Grades = {"good", "unsigned", "invalid", "large"}
    Drifts = {0}
    Holds = {1}
    Skew = 1
    PushMin = 1
    FailLimit = 2
    FailWindow = 1
    MaxClients = 1
    RevokeWays = {"page", "ctl"}
    WriteOutcomes = {TRUE}
    StartTime = 1
    MaxTime = 3
    MaxSent = 2
    MaxReading = 1
INVARIANTS TypeOK HeldIsFound SlowedForOwnFailures
PROPERTIES AcceptedIsNewer RevokedIsRefused HeldIsAnswered
