SPECIFICATION Spec
CONSTANTS
    Jobs = {j1, j2}
    Options = {"ack"}
    Verbs = {"ack"}
    AllUpTo = {TRUE, FALSE}
    Prefetch = 2
    MaxChannels = 1
    MaxTag = 2
    None = None

INVARIANT NeedsAckIsTrue
CHECK_DEADLOCK FALSE
