SPECIFICATION CqSpec
CONSTANTS
    HashSize = 4
    Res = 2
    Period = 1
    MaxPeriods = 3
    Events = 2
    Slot = {s1}
    Delay = {0, 1, 3, 9}
    MaxElapsed = 4
    MaxDepth = 3
    NestMax = 3
    Null = Null
INVARIANTS CqInv NoneOverdue DelayExact
PROPERTY EarliestFirst
