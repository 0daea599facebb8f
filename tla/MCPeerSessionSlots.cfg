SPECIFICATION Spec
CONSTANTS
    Peers = {p1, p2, p3}
    Pieces = {i1, i2}
    UploadSlots = 1
    ByteBits = 4
    IntBytes = 2
    MaxPayload = 9
    Protocol <- MCProtocol
    FeatureBytes = 1
    HashBytes = 2
    IdBytes = 1
SYMMETRY SessionSymmetry
INVARIANTS
    SlotsTaken
CHECK_DEADLOCK FALSE
