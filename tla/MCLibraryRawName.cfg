SPECIFICATION Spec
CONSTANTS
    A = A
    B = B
    C = C
    Bang = Bang
    s1 = s1
    s2 = s2
    pl1 = pl1
    scanned = scanned
    dropped = dropped
    NoName = NoName
    NoSong = NoSong
    NoEntry = NoEntry
    NoFile = NoFile
    NoPath = NoPath
    Unknown = B
    Untagged = Untagged
    Free = Free
    Dispatcher = dispatcher
    DirName = {NoName, A, B, Bang}
    TitleName = {s1, s2}
    Mp3Name = {s1, s2}
    Playlist = {}
    OtherPath = {scanned}
    DropFile = {}
    Client = {c1}
    ReplaceDirs = FALSE
    MaxRequests = 1
    Suffixed <- SameTitle
    BaseName <- FirstName
    Compat <- StripsBang
    Initial <- RawInitial
    Requests <- RawRequests
INVARIANTS
    Inventory
