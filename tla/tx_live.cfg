SPECIFICATION FairSpec
CONSTANTS
    MissingBits = 24
    IdMask = 1
    SeqnoThresh = 1
    MaxMsgs = 2
    Host = {h1}
    h1 = h1
    Requests <- Mixed1
    Oversize = 0
    AckInputs <- Acks1
    RoguePeers = TRUE
    SendMax = 1
    EarSendMax = 1
    AckSendMax = 1
    Alpha = 1
    EarSupport = FALSE
    LowerRefuses = TRUE
    MaxLower = 2
    Unborn = Unborn
    Sent = Sent
    Dropped = Dropped
    Null = Null
INVARIANTS FlowInv FragmentAccounted
PROPERTIES MessageEnds FlowControlEnds
CHECK_DEADLOCK FALSE
