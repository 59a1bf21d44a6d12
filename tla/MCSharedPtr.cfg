SPECIFICATION FairSpec
CONSTANTS
    t1 = t1  t2 = t2
    p1 = p1  q1 = q1  p2 = p2   w1 = w1  v1 = v1
    Threads = {t1, t2}
    Shared = {p1, q1, p2}
    Weaks = {w1, v1}
    Controls = {c1, c2}
    Locking = {c1}
    Slot = slot
    Null = Null
    Owner <- MCOwner
CHECK_DEADLOCK FALSE
INVARIANTS
    ObjectLiveWhileOwned
    BlockLiveWhileUsed
    SoleDestroyer
    NoLeak
    DestroyUnlocked
PROPERTIES
    NoRevival
    CallsReturn
