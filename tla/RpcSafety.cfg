SPECIFICATION Spec
CONSTANTS
    c1 = c1
    c2 = c2
    c3 = c3
    None = None
    Controller <- MCController
    Configured = c1
    Rank <- MCRank
    Unresolvable = {c3}
    Descriptor = {3, 4}
    Operation = {"call", "subscribe", "auth", "ping"}
    MaxRedirects = 15
    MaxCalls = 2
    MayRecover = TRUE
INVARIANTS
    TypeOK
    AtMostOneSocket
    RedirectsUseUpControllers
CHECK_DEADLOCK FALSE
