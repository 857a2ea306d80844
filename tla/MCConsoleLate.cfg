SPECIFICATION Spec
CONSTANTS
    Parts <- OnlyView
    Slot = {s1, s2}
    Addr = {proxy, a1}
    Proxy = proxy
    NoAddr = NoAddr
    MaxFails = 2
    Scenes <- AllScenes
    Page = {p1}
    Own = {o1, o2}
    Builtin = Builtin
    FileValue = FileValue
    Unset = Unset
    Call = {c1, c2}
    MaxEdits = 3
    Node = {local, n1}
    Local = local
    None = None
    MaxTs = 2
    MaxPolls = 2
    HistLoad = {l1, l2}
CHECK_DEADLOCK FALSE
INVARIANTS RestShowsOwn
