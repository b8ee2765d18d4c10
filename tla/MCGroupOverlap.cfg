SPECIFICATION FairSpec
CONSTANTS
    Tasks = {t1, t2}
    OwnTokens = {}
    Waiters = {w1, w2}
    MaxWaits = 2
PROPERTIES
    WaitClassifiesAll
CHECK_DEADLOCK FALSE
