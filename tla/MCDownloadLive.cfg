SPECIFICATION FairSpec
CONSTANTS
    p1 = p1
    p2 = p2
    i1 = i1
    i2 = i2
    a1 = a1
    a2 = a2
    c1 = c1
    Peers = {p1, p2}
    Pieces = {i1, i2}
    Blocks = {a1, c1}
    PieceOf <- MCTwoPieces
    Wanted = {i1, i2}
    NoPeer = NoPeer
    NoBlock = NoBlock
    PrioritizedLimit = 1
    QueueLimit = 1
    FeedLimit = 1
    StarvingLimit = 1
    BusyLimit = 0
    EndGameMargin = 0
    SizeModulus = 64
    Faults = {}
PROPERTIES
    CompletesAndSaves
CONSTRAINT BitfieldsFirst
