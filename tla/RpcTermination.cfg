SPECIFICATION FairSpec
CONSTANTS
    c1 = c1
    c2 = c2
    c3 = c3
    None = None
    Controller <- MCController
    Configured = c1
    Rank <- MCRank
    Unresolvable = {}
    Descriptor = {3}
    Operation = {"poll"}
    MaxRedirects = 15
    MaxCalls = 2
    MayRecover = FALSE
PROPERTIES
    NoGiveUpWhileReachable
    RequestEnds
    ImplementsRequest
CHECK_DEADLOCK FALSE
