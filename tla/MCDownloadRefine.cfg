SPECIFICATION Spec
CONSTANTS
    p1 = p1
    p2 = p2
    i1 = i1
    i2 = i2
    a1 = a1
    a2 = a2
    c1 = c1
    Peers = {p1}
    Pieces = {i1, i2}
    Blocks = {a1, a2, c1}
    PieceOf <- MCPieceOf
    Wanted = {i1, i2}
    NoPeer = NoPeer
    NoBlock = NoBlock
    PrioritizedLimit = 1
    QueueLimit = 2
    FeedLimit = 2
    StarvingLimit = 1
    BusyLimit = 1
    EndGameMargin = 0
    SizeModulus = 64
    Faults = {"crash", "write", "read", "data"}
INVARIANTS
    AvailableOnDisk
PROPERTIES
    ImplementsPieceLife
