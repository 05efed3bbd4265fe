SPECIFICATION ListSpec
CONSTANTS
    A = A
    B = B
    s1 = s1
    s2 = s2
    s3 = s3
    s4 = s4
    pl1 = pl1
    pl2 = pl2
    Dotted = Dotted
    Blanks = Blanks
    copied = copied
    NoName = NoName
    NoSong = NoSong
    NoEntry = NoEntry
    NoFile = NoFile
    NoPath = NoPath
    NoList = NoList
    Unknown = B
    Untagged = Untagged
    Free = Free
    Dispatcher = dispatcher
    DirName = {NoName, A, B}
    TitleName = {s1, s2, s3, s4}
    Mp3Name = {s1, s2, s3, s4}
    Playlist = {pl1, pl2, Dotted, Blanks}
    OtherPath = {copied}
    DropFile = {copied}
    ListDrop = {copied}
    Client = {c1}
    ReplaceDirs = FALSE
    MaxRequests = 4
    Suffixed <- SameTitle
    BaseName <- FileName
    Compat <- SameNames
    Initial <- TwoListsOnly
    Requests <- NoRequests
    ListRequests <- MergeRequests
    ListOf <- InFirst
    ListCompat <- StripsDots
    Content <- SharedCopy
PROPERTIES
    LinksFollow
CHECK_DEADLOCK FALSE
