SPECIFICATION FairSpec
CONSTANTS
    a = a  b = b  zero = zero  minusZero = minusZero  one = one
    Threads = {t1, t2, t3}
    Objects = {a, b}
    Racy = {b}
    Values = {zero, minusZero, one}
    Num <- MCNum
    Initial = zero
    MaxOps = 1
    NoThread = NoThread
CHECK_DEADLOCK FALSE
INVARIANTS
    NoLostWakeup
PROPERTIES
    WaitReturns
