SPECIFICATION FairEvqSpec
CONSTANTS
    Thread = {t1, t2}
    Eve = {e1, e2}
    MaxQueue = 2
    Null = Null
INVARIANTS EvqInv RefcntExact
PROPERTIES NeverAfterCancel EventHandled
CHECK_DEADLOCK FALSE
