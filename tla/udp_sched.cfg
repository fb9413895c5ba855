SPECIFICATION FairUSpec
CONSTANTS
    Stack = {s1, s2}
    s1 = s1
    s2 = s2
    v4 = v4
    Net = {v4}
    Dgram <- Three
    Limit = 2
    SendMax = 2
INVARIANTS SchedInv RefusedRemembered
PROPERTIES BeginEnds BacklogServed
CHECK_DEADLOCK FALSE
