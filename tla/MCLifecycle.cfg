SPECIFICATION Spec
CONSTANTS
    t1 = t1
    t2 = t2
    Torrents = {t1, t2}
    Gui = Gui
    Acceptor = Acceptor
    Nobody = Nobody
    MsecPerSec = 4
    NsecPerMsec = 2
    TimeBits = 20
    PulseInterval = 3
    Intervals <- MCIntervals
    Delays = {0, 1, 3, 9, 20}
    Descriptors = 3
    Deeds = 7
INVARIANTS
    TypeOK
    StallsExplained
    StartedListens
    ReactorsWork
PROPERTIES
    CallsReturn
CHECK_DEADLOCK FALSE
