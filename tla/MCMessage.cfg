SPECIFICATION FairSpec
CONSTANTS
    Jobs = {j1, j2}
    Options = {"noAck", "ack"}
    Verbs = {"ack", "nack"}
    AllUpTo = {FALSE}
    Prefetch = 2
    MaxChannels = 2
    MaxTag = 3
    None = None
INVARIANTS TypeOK TagsAreKnown OneLiveMessage NeedsAckIsTrue
PROPERTY EveryJobSettles
CHECK_DEADLOCK FALSE
