SPECIFICATION FairSpec
CONSTANTS
    Rule = {"offline", "disk_full"}
    Offline = "offline"
    Node = {"n1"}
    Tag = {}
    Sub = {"", "/"}
    NoSub = ""
    Views <- FewViews
    RuleSets <- DiskOnly
    Repeat = 2
    Limit = 2
    MuteTimes = {0}
    RevokeWays = {"ctl"}
    SaveOutcomes = {TRUE}
    MaxTime = 3
PROPERTIES RevokedAlertsEnd
