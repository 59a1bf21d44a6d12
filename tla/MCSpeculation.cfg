SPECIFICATION MCSpec
CONSTANTS
    n1 = n1
    n2 = n2
    Names = {n1, n2}
    Keys = {k1}
    Facts = {f1}
    NoFact = NoFact
    NoId = NoId
    MaxBindings = 2
    MaxContexts = 2
    MaxDepth = 3
    MaxGeneration = 3
    MaxDeltas = 5
    MaxMemo = 3
    MaxSteps = 7
CHECK_DEADLOCK FALSE
INVARIANT NoDangling
PROPERTIES FileRestores MemoRestores StaysStale
