SPECIFICATION MqSpec
CONSTANTS
    Kind <- SomeKinds
    HopsFlow0 <- Hops0
    HopsFlow255 <- Hops255
    Bye <- ByeKind
    Templates <- SwiftTemplates
    MaxSize = 6
    MaxRoom = 2
    MaxCount = 5
    MaxSlots = 6
INVARIANTS MqInv SendingOrder ServicedWhenQueued FlowcExact PeerTold
CHECK_DEADLOCK FALSE
