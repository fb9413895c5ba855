SPECIFICATION LinkSpec
CONSTANTS
    MissingBits = 24
    IdMask = 1
    SeqnoThresh = 1
    MaxMsgs = 1
    MaxFrags = 2
    Rid <- Id
    Payload <- Mid
    Empty = 0
    Headers <- WireHeaders
    ResentMod = 512
    NativeImproved = FALSE
    NoMsg = Null
    Host = {h1}
    h1 = h1
    Requests <- Mixed
    Oversize = 0
    AckInputs = {}
    RoguePeers = FALSE
    ImprovedAcks = TRUE
    SendMax = 2
    EarSendMax = 1
    AckSendMax = 1
    Alpha = 1
    EarSupport = TRUE
    LowerRefuses = FALSE
    MaxLower = 2
    Unborn = Unborn
    Sent = Sent
    Dropped = Dropped
    Null = Null
VIEW View
PROPERTY Implements
CHECK_DEADLOCK FALSE
