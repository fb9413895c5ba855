SPECIFICATION RxFairSpec
CONSTANTS
    MissingBits = 2
    ResentMod = 512
    Rid = {m1}
    NoMsg = NoMsg
    Payload = {Empty, d}
    Empty = Empty
    Headers <- AllHeaders5
    NativeImproved = FALSE
INVARIANTS RxTypeOK Consistency DelayedAckArmed AckSound AckAcceptable
PROPERTIES GivenOnCompletion PendingAcksSent ReceptionEnds
