SPECIFICATION Spec
CONSTANTS
    Bytes <- MCBytes
    Width = 7
    MaxDigits = 2
    MaxString = 20
    HashSize = 1
    MaxPieceSize = 32
    Hex <- MCHex
    Hosts <- MCHosts
    AddressSize = 2
    PortOf <- MCPortOf
    PortBits = 4
    IntBits = 6
    MinInterval = 12
    Kilo = 128
    IntWidth = 12
    SizeWidth = 20
    KeptRates = 2
    KeptTimes = 4
    TorrentFiles <- MCTorrentFiles
    OddFiles <- MCOddFiles
    Folders = {1, 2}
    Directories <- MCDirectories
    Cuts = {9}
    NoFile = NoFile
    Garbage = Garbage
    MaxClicks = 4
    MaxFailures = 1
    MaxRestarts = 1
INVARIANTS TypeOK BundlesTrue NothingLost ShownRight TextsRead AnnouncesUnderstood
CHECK_DEADLOCK FALSE
