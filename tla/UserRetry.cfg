SPECIFICATION Spec
CONSTANTS
    r1 = r1
    r2 = r2
    admin = admin
    ada = ada
    c1 = c1
    c2 = c2
    c3 = c3
    None = None
    Run = {r1}
    User <- MCUser
    Url <- MCUrl
    OldAt = {c2}
    Follower = {}
    Command <- MCCommand
    Name <- MCName
    Config <- MCConfig
    Known = {}
    Enrolled = {admin}
    Number <- MCNumber
    Truth <- MCTruth
    Address <- MCAddress
    MaxRuns = 2
    MaxKeys = 2
INVARIANT
    NotRefusedForItself
CHECK_DEADLOCK FALSE
