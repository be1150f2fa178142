SPECIFICATION Spec
CONSTANTS
    p1 = p1
    p2 = p2
    None = None
    Path <- MCPath
    MaxRev = 1
    MayFail = FALSE
    MayExpire = TRUE
INVARIANT
    RequestsApart
