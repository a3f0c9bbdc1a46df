SPECIFICATION FairSpec
CONSTANTS
    Calls = {c1, c2}
    Chans = {h1, h2}
    MaxDestinations = 2
    HighWater = 2
    PublisherConfirms = TRUE
    AutoConfirm = TRUE
    None = None
INVARIANTS TypeOK CacheIsLive FulfilledIsDone NackMissedOnlyInDrain SentInOrder BufferBounded NobodyWaitsInVain
PROPERTIES PublishSettles
CHECK_DEADLOCK FALSE
