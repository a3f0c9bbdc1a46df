SPECIFICATION Spec
CONSTANTS
    Jobs = {j1, j2}
    Options = {"ack"}
    Verbs = {"ack", "reject"}
    AllUpTo = {TRUE, FALSE}
    Prefetch = 2
    MaxChannels = 2
    MaxTag = 3
    None = None

SYMMETRY Symmetry
INVARIANTS VerdictsHonoured NoJobIsStranded
CHECK_DEADLOCK FALSE
