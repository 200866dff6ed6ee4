SPECIFICATION Spec
CONSTANTS
    t1 = t1
    t2 = t2
    Turns = {t1, t2}
    KeepLast = 1
    OneBatch = 2
    CompressAbove = 2
    MaxRetries = 1
    MaxCalls = 2
    MaxMsgs = 5
    MaxCrashes = 1
    MaxOverlap = 3
INVARIANTS
    PromptSeesAll
    CallsAnswered
    Durable
PROPERTIES
    SummaryKeepsAll
CHECK_DEADLOCK FALSE
SYMMETRY TurnSymmetry
