SPECIFICATION Spec
CONSTANTS
    Node = {n1}
    Anyone = anyone
    Slot = {s1, s2}
    NoSlot = NoSlot
    Endpoints = {"push"}
    Grades = {"good"}
    Drifts = {0}
    Holds = {1}
    Skew = 2
    PushMin = 1
    FailLimit = 2
    FailWindow = 2
    MaxClients = 5
    RevokeWays = {}
    WriteOutcomes = {TRUE}
    StartTime = 1
    MaxTime = 3
    MaxSent = 2
    MaxReading = 2
SYMMETRY Connections
PROPERTIES AcceptedIsNewer
