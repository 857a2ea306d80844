SPECIFICATION Spec
CONSTANTS
    Id = {local, n1, n2}
    Local = local
    Nobody = Nobody
    Req = {r1}
    NoReq = NoReq
    Scenarios <- Both
    Overlap = 2
    MaxTime = 3
    MaxSecret = 4
    MaxStamp = 4
    TTL = 1
    Keep = 2
    Slack = 1
SYMMETRY AddedIds
CHECK_DEADLOCK FALSE
INVARIANTS AddedStays CutStaysCut RetiredIsRefused GraceIsKept OneNodePerCode ApprovedIsTold
