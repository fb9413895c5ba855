SPECIFICATION EvqSpec
CONSTANTS
    Thread = {t1, t2}
    Eve = {e1, e2}
    MaxQueue = 2
    Null = Null
INVARIANT CancelWhileDispatched
CHECK_DEADLOCK FALSE
