SPECIFICATION StreamSpec
CONSTANTS
    b1 = b1
    b2 = b2
    Blocks = {b1, b2}
    PieceParts = 2
    MaxRequests = 2
    Limits <- MCLimits
    CounterMod = 3
    Room = 2
    MaxPackets = 3
    FollowRaces = FALSE
SYMMETRY UploadSymmetry
INVARIANTS
    TypeOK
    QueuesAgree
    LimitsKept
PROPERTIES
    ImplementsStream
CHECK_DEADLOCK FALSE
