SPECIFICATION Spec
CONSTANTS
    Callers = {c1}
    Conns = {x1, x2, x3}
    Chans = {y1, y2, y3}
    None = None

INVARIANTS OneConnection CloseLeavesNothingOpen
CHECK_DEADLOCK FALSE
