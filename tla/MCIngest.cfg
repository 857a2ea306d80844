SPECIFICATION Spec
CONSTANTS
    Iface = {"eth", "wifi"}
    Grades = {"good", "net", "required"}
    Steps = {0, 3}
    MaxTs = 3
    Series = {"cpu", "net"}
    Main = "cpu"
    MaxSeries = 1
    Len1 = 3
    Step = 2
    Len2 = 3
    Faults = {"none", "disk", "clock", "host", "names"}
    Samples <- SamplesOf
    Minutes <- MinutesOf
    MaxTime = 7
INVARIANTS RateIsTrue ShownIsTrue NothingMissing SeriesCapped
PROPERTIES SweepLosesNothing
CHECK_DEADLOCK FALSE
