SPECIFICATION Spec
CONSTANTS
    Rule = {"offline", "disk_full"}
    Offline = "offline"
    Node = {"n1"}
    Tag = {"lab"}
    Sub = {"", "/"}
    NoSub = ""
    Views <- DiskViews
    RuleSets <- DiskRuleSets
    Repeat = 2
    Limit = 2
    MuteTimes = {0, 3}
    RevokeWays = {"page", "ctl"}
    SaveOutcomes = {TRUE}
    MaxTime = 4
INVARIANTS ToldMatchesState
PROPERTIES QuietIsSilent StreamSpec
