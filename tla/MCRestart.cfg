SPECIFICATION RestartSpec
CONSTANTS
    A = A
    B = B
    s1 = s1
    s2 = s2
    s3 = s3
    s4 = s4
    pl1 = pl1
    pl2 = pl2
    Dotted = Dotted
    Blanks = Blanks
    copied = copied
    scanned = scanned
    NoName = NoName
    NoSong = NoSong
    NoEntry = NoEntry
    NoFile = NoFile
    NoPath = NoPath
    NoList = NoList
    Unknown = B
    Untagged = Untagged
    Free = Free
    Dispatcher = dispatcher
    DirName = {NoName, A, B}
    TitleName = {s1, s2, s3, s4}
    Mp3Name = {s1, s2, s3, s4}
    Playlist = {pl1, pl2, Dotted, Blanks}
    OtherPath = {copied, scanned}
    DropFile = {copied}
    ListDrop = {copied}
    Client = {c1, c2}
    ReplaceDirs = FALSE
    MaxRequests = 3
    MaxStops = 2
    Nothing = Nothing
    Walk <- InOrder
    Suffixed <- AddsSuffix
    BaseName <- FileName
    Compat <- SameNames
    Initial <- Unplaced
    Requests <- StopRequests
    ListRequests <- StopListRequests
    ListOf <- InFirst
    ListCompat <- StripsDots
    Content <- OneCopy
INVARIANTS
    RestartTypeOK
    FilesFound
    RescanChangesNothing
    PlaylistFilesRestored
CHECK_DEADLOCK FALSE
