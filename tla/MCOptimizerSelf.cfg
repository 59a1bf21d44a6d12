SPECIFICATION Spec
CONSTANTS
    Functions <- MCSelfStores
    Results = {0, 1}
    MaxStack = 9
CHECK_DEADLOCK FALSE
INVARIANT Verified
