SPECIFICATION FairSpec
CONSTANTS
    d1 = d1
    d2 = d2
    File = {d1, d2}
    Client = {c1, c2}
    Timeout = 2
    Capacity = 1
    Watched = {d2}
    MaxRequests = 2
PROPERTIES
    ReleasedIsHandled
