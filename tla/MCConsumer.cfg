SPECIFICATION Spec
CONSTANTS
    Callers = {c1, c2}
    Tags = {t1, t2}
    Chans = {h1, h2, h3}
    None = None
SYMMETRY Symmetry
INVARIANTS TypeOK CacheIsLive CloseEnds
PROPERTIES OrphanedByAnother
CHECK_DEADLOCK FALSE
