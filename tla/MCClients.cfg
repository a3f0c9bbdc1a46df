SPECIFICATION Spec
CONSTANTS
    s1 = s1
    s2 = s2
    p = p
    k = k
    Calls = {a1, a2}
    Pool = {s1, s2}
    Publishers = {p}
    Consumers = {k}
    PublisherOf <- OnePublisher
    Confirming = {p}
    Chans = {h1, h2, h3}
    None = None
SYMMETRY Symmetry
INVARIANTS TypeOK CachesAreLive
PROPERTIES NeverHandedTheDead DivergesOnlyByOverlap SharedIsKept
CHECK_DEADLOCK FALSE
