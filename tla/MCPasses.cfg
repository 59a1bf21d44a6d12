SPECIFICATION MCSpec
CONSTANTS
    r1 = r1  r2 = r2  r3 = r3  r4 = r4  r5 = r5  t1 = t1  t2 = t2
    ValueRegs = {r1, r2, r3, r4, r5, r6}
    Temps = {t1, t2}
    Values = {r1, r2, r3, r4, r5, r6}
    Size = 5
    Results = {0, 1}
    MaxStack = 9
    Coroutines <- MCCoroutines
CHECK_DEADLOCK FALSE
INVARIANTS
    Simultaneous
    SameRun
    Verified
    SameValues
    ValuesSurvive
    GoesOn
PROPERTIES
    Ends
    Promoted
