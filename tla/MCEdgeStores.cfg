SPECIFICATION Spec
CONSTANTS
    p = p  q = q  r = r  s = s  x = x  y = y
    Vals = {p, q, r, s, x, y}
    NoVreg = NoVreg
    Terms <- MCLoops
CHECK_DEADLOCK FALSE
INVARIANT ArrivesAsPhi
