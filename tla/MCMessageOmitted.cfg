SPECIFICATION Spec
CONSTANTS
    Jobs = {j1, j2}
    Options = {"omitted"}
    Verbs = {"ack"}
    AllUpTo = {FALSE}
    Prefetch = 2
    MaxChannels = 1
    MaxTag = 2
    None = None

INVARIANT AckAcknowledges
CHECK_DEADLOCK FALSE
