SPECIFICATION SpinSpec
CONSTANTS
    Threads = {t1, t2, t3}
    MaxCalls = 2
    m1 = m1
    m2 = m2
    m3 = m3
    NoOwner = NoOwner
    Mutexes = {m1, m2, m3}
    Throwing <- MCThrowing
    Arguments <- MCArguments
CHECK_DEADLOCK FALSE
INVARIANTS RunsAlone EffectBeforeReturn OwnerNotWaiting AllOrNothing
PROPERTIES CallsEnd Unopposed
