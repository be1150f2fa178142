SPECIFICATION Spec
CONSTANTS
    p1 = p1
    p2 = p2
    None = None
    Path <- MCPath
    MaxRev = 2
    MayFail = TRUE
    MayExpire = FALSE
INVARIANTS
    TypeOK
    OwnReply
    NoLostReload
    ShownUnderItsPath
PROPERTY
    EditingIsSafe
