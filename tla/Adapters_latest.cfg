SPECIFICATION Spec
CONSTANTS
    Nil = Nil
    Conns = {s1, s2, s3}
    Reactions = {r1}
    Hello = hello
    MaxBreaks = 2
    MaxDrops = 2
    Clients = {k1, k2, k3}
    MaxConnections = 2
    Kinds <- MCKinds
    Messages = {m1, m2, m3, m4}
    Deliveries = {d1, d2}
    Limit = 2
    MaxNew = 5
    NoMsg = NoMsg
PROPERTIES
    KeepsLatest
CHECK_DEADLOCK FALSE
