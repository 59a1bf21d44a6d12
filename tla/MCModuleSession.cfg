CONSTANTS
    p1 = p1
    p2 = p2
    p3 = p3
    k1 = k1
    k2 = k2
    k3 = k3
    None = None
    Paths = {p1, p2, p3}
    Keys = {k1, k2, k3}
    Inputs <- MCInputs
    Projects <- MCProjects
    MaxDepth = 4
SPECIFICATION Spec
INVARIANTS NoReentry ResultsRight CyclesReal
PROPERTY Terminates
