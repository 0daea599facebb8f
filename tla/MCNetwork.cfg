SPECIFICATION Spec
CONSTANTS
    t1 = t1
    i1 = i1
    i2 = i2
    Trackers = {t1}
    Incoming = {i1, i2}
    Foreign = {i2}
    Addresses <- MCAddresses
    Endpoints <- MCAddresses
    IdOf <- MCIdOf
    OwnId = "ours"
    NoId = "none"
    Limit = 1
    MaxRetries = 2
    MaxAnnounces = 2
    MaxStops = 1
INVARIANTS
    TypeOK
    NothingForgotten
    PeersKnown
PROPERTIES
    AnnounceEnds
CHECK_DEADLOCK FALSE
