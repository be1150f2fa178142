SPECIFICATION FairSpec
CONSTANTS
    p1 = p1
    p2 = p2
    None = None
    Path <- MCPath
    MaxRev = 2
    MayFail = FALSE
    MayExpire = FALSE
PROPERTIES
    KeysAreHandled
    TreeCatchesUp
