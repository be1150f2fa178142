SPECIFICATION Spec
CONSTANTS
    r1 = r1
    r2 = r2
    admin = admin
    ada = ada
    c1 = c1
    c2 = c2
    c3 = c3
    None = None
    Run <- MCRun
    User <- MCUser
    Url <- MCUrl
    OldAt = {c2}
    Follower = {c3}
    Command <- MCCommand
    Name <- MCName
    Config <- MCConfig
    Known = {c1}
    Enrolled = {admin}
    Number <- MCNumber
    Truth <- MCTruth
    Address <- MCAddress
    MaxRuns = 2
    MaxKeys = 2
SYMMETRY Symmetry
INVARIANTS
    TypeOK
    SettingsSurvive
    RedirectsSurvive
    RegisteredKeyIsOnDisk
    AskedOrReported
CHECK_DEADLOCK FALSE
