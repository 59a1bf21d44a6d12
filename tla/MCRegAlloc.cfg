SPECIFICATION MCSpec
CONSTANTS
    c0 = c0  s0 = s0  t0 = t0  u0 = u0
    c1 = c1  d1 = d1  s1 = s1  t1 = t1  u1 = u1
    Regs = {c0, s0, t0, u0, c1, d1, s1, t1, u1}
    CalleeSaved = {s0, s1}
    Vregs <- MCVregs
    Junk = Junk
    NoReg = NoReg
    Programs <- MCPrograms
    CallerPool <- MCCaller
    CalleePool <- MCCallee
    Scratch <- MCScratch
    FastPrograms <- MCFastPrograms
    Order <- MCOrder
    Zero = c0
CHECK_DEADLOCK FALSE
INVARIANTS
    NoSharing
    KeptAcrossCalls
    CodeRight
