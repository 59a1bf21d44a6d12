SPECIFICATION FairSpec
CONSTANTS
    Threads = {t1, t2, t3}
    Desired = 0
    Updates = {0, 1, 2}
    MaxOps = 2
    NoThread = NoThread
CHECK_DEADLOCK FALSE
INVARIANTS
    NoLostWakeup
PROPERTIES
    EventuallyTaken
