SPECIFICATION Spec
CONSTANTS
    MissingBits = 24
    IdMask = 1
    SeqnoThresh = 1
    MaxMsgs = 1
    Host = {h1}
    h1 = h1
    Requests <- Mixed3
    Oversize = 0
    AckInputs <- PeerAcks3
    RoguePeers = FALSE
    SendMax = 1
    EarSendMax = 1
    AckSendMax = 1
    Alpha = 1
    EarSupport = TRUE
    LowerRefuses = FALSE
    MaxLower = 3
    Unborn = Unborn
    Sent = Sent
    Dropped = Dropped
    Null = Null
INVARIANTS ResendInv FragmentAccounted
PROPERTIES ResendDriven
CHECK_DEADLOCK FALSE
