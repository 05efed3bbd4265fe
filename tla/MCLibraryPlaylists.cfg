SPECIFICATION Spec
CONSTANTS
    A = A
    B = B
    C = C
    Bang = Bang
    s1 = s1
    s2 = s2
    pl1 = pl1
    scanned = scanned
    dropped = dropped
    NoName = NoName
    NoSong = NoSong
    NoEntry = NoEntry
    NoFile = NoFile
    NoPath = NoPath
    Unknown = C
    Untagged = Untagged
    Free = Free
    Dispatcher = dispatcher
    DirName = {NoName, A, B, C}
    TitleName = {s1, s2}
    Mp3Name = {s1, s2}
    Playlist = {pl1}
    OtherPath = {scanned, dropped}
    DropFile = {dropped}
    Client = {c1}
    ReplaceDirs = FALSE
    MaxRequests = 4
    Suffixed <- SameTitle
    BaseName <- FirstName
    Compat <- Identity
    Initial <- PlaylistInitial
    Requests <- PlaylistRequests
INVARIANT
    LinksHold
CHECK_DEADLOCK FALSE
