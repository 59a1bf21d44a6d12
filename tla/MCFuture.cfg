SPECIFICATION FairSpec
CONSTANTS
    Threads = {t1, t2}
    Promises = {p1, p2}
    Futures = {f1, f2}
    States = {s1, s2}
    None = None
CHECK_DEADLOCK FALSE
INVARIANTS
    SomebodyWillSatisfy
PROPERTIES
    SatisfiedOnce
    GetReturns
    TimedWaitEnds
