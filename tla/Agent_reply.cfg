SPECIFICATION Spec
CONSTANTS
    c1 = c1
    c2 = c2
    c3 = c3
    hello = hello
    hi = hi
    all = all
    show = show
    note = note
    job = job
    NoPeer = NoPeer
    Nothing = Nothing
    Messages = {hello, all}
    Note = note
    CronJob = job
    HeartbeatChat = c1
    Lower <- MCLower
    Input <- MCInput
    Configs <- MCConfigs
    Cap = 1
    MaxArrivals = 2
    MaxCalls <- MCCalls
    MaxOthers = 0
INVARIANTS
    NoReplyLost
CHECK_DEADLOCK FALSE
