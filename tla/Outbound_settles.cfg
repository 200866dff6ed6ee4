SPECIFICATION FairSpec
CONSTANTS
    p1 = p1
    p2 = p2
    c1 = c1
    cli = cli
    nobody = nobody
    Publishers = {p1, p2}
    Attached = {p1}
    Channels = {c1}
    MediaSenders = {}
    Internal = {cli}
    Strangers = {nobody}
    BusCap = 1
    QueueCap = 1
    MaxRetries = 1
    MaxParts = 1
    MaxMsgs = 2
PROPERTIES
    RepliesSettle
    ShutdownCompletes
    PublishReturns
