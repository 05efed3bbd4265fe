SPECIFICATION FairSpec
CONSTANTS
    d1 = d1
    d2 = d2
    File = {d1, d2}
    Client = {c1, c2}
    Timeout = 1
    Capacity = 1
    Watched = {}
    MaxRequests = 3
INVARIANTS
    TypeOK
    OneItemPerFile
    HandledOncePerRelease
PROPERTIES
    HandlerIsKept
    NobodyIsSkipped
    ReleasedIsHandled
    PushReturns
