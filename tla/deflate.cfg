SPECIFICATION FairDeflateSpec
CONSTANTS
    BufferSize = 3
    BufferFlush = 3
    MaxUnits = 10
    MaxWrite = 4
    MaxRoom = 3
INVARIANTS DeflateInv StreamExact ClosedSent
PROPERTIES CloseEnds FlowcEnds
CHECK_DEADLOCK FALSE
