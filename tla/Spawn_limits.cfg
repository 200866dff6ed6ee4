SPECIFICATION FairSpec
CONSTANTS
    r1 = r1
    r2 = r2
    r3 = r3
    h1 = h1
    first = first
    other = other
    s1 = s1
    Requests = {r1, r2, r3}
    Handoffs = {h1}
    Keys = {first}
    KeyOf <- OneTask
    Sessions = {s1}
    MaxChildren = 2
    BufSize = 1
    DedupTTL = 1
INVARIANTS
    ChildrenLimited
    AnnouncedOnce
PROPERTIES
    OncePerWindow
    PermitsComeBack
CHECK_DEADLOCK FALSE
