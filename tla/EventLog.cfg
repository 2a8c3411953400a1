SPECIFICATION FairSpec
CONSTANTS
    c1 = c1
    c2 = c2
    w1 = w1
    Conversations = {c1, c2}
    Watchers = {w1}
    ConvOf <- MCConvOf
    bufferSize = 2
    MaxSeq = 4
    MaxClears = 1
INVARIANTS
    TypeOK
    BufferIsSuffix
    SinceIsExact
    FeedIsComplete
    WaitingMeansIdle
PROPERTIES
    FeedContract
    Delivered
