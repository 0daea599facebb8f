SPECIFICATION Spec
CONSTANTS
    PieceSize = 4
    BlockSize = 2
    Layouts <- MCLayouts
    Explored <- MCExplored
    Folder = Folder
    Program <- MCProgram
    Sealed <- MCSealed
    OffsetMod = 8
    MaxWrites = 2
    MaxEvents = 1
INVARIANTS
    TypeOK
    AnswersExplained
    StateFileTrue
    StorageReady
PROPERTIES
    StateFileGrows
    Served
CHECK_DEADLOCK FALSE
