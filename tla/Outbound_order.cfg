SPECIFICATION Spec
CONSTANTS
    p1 = p1
    c1 = c1
    Publishers = {p1}
    Attached = {p1}
    Channels = {c1}
    MediaSenders = {c1}
    Internal = {}
    Strangers = {}
    BusCap = 1
    QueueCap = 1
    MaxRetries = 1
    MaxParts = 2
    MaxMsgs = 3
INVARIANTS
    TypeOK
    PipelineOrder
    NoSendAfterStop
PROPERTY
    ImplementsDelivery
