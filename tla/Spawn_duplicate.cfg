SPECIFICATION FairSpec
CONSTANTS
    r1 = r1
    r2 = r2
    r3 = r3
    h1 = h1
    first = first
    other = other
    s1 = s1
    Requests = {r1, r2, r3}
    Handoffs = {h1}
    Keys = {first, other}
    KeyOf <- TwoTasks
    Sessions = {s1}
    MaxChildren = 1
    BufSize = 1
    DedupTTL = 1
INVARIANT
    DuplicateOfSpawn
CHECK_DEADLOCK FALSE
