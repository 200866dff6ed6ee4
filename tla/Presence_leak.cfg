SPECIFICATION FairSpec
CONSTANTS
    m1 = m1
    m2 = m2
    Messages = {m1, m2}
    PerChat = {}
    TypingTTL = 0
    PlaceholderTTL = 1
    MaxReplies = 1
PROPERTY
    TypingStops
