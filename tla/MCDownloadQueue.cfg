SPECIFICATION Spec
CONSTANTS
    p1 = p1
    p2 = p2
    i1 = i1
    i2 = i2
    a1 = a1
    a2 = a2
    c1 = c1
    Peers = {p1, p2}
    Pieces = {i1}
    Blocks = {a1, a2, c1}
    PieceOf <- MCThreeBlocks
    Wanted = {i1}
    NoPeer = NoPeer
    NoBlock = NoBlock
    PrioritizedLimit = 1
    QueueLimit = 1
    FeedLimit = 1
    StarvingLimit = 1
    BusyLimit = 1
    EndGameMargin = 0
    SizeModulus = 64
    Faults = {}
INVARIANTS
    QueueBounded
