SPECIFICATION FairSpec
CONSTANTS
    Rule = {"offline", "c_db"}
    Offline = "offline"
    Node = {"n1"}
    Tag = {}
    Sub = {"", "db", "web"}
    NoSub = ""
    Views <- ContainerViews
    RuleSets <- ContainerRuleSets
    Repeat = 2
    Limit = 2
    MuteTimes = {0, 2}
    RevokeWays = {"page"}
    SaveOutcomes = {TRUE}
    MaxTime = 3
INVARIANTS AlertHasRule ContainerWasRunning
PROPERTIES NewRuleIsHeard SilentIsToldLater GoneIsToldOffline RevokedAlertsEnd
