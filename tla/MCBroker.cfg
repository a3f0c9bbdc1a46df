SPECIFICATION FairSpec
CONSTANTS
    Callers = {c1, c2}
    Conns = {x1, x2}
    Chans = {y1, y2}
    None = None
INVARIANTS TypeOK CacheIsLive CloseReleases
PROPERTIES EvictsOnlyTheDead OrphanedOnlyByOverwrite ImplementsProvider CallsSettle
CHECK_DEADLOCK FALSE
