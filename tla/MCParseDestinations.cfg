SPECIFICATION Spec
CONSTANT MaxLength = 6

INVARIANTS ParsesAsScanned ParseIsStable
CHECK_DEADLOCK FALSE
