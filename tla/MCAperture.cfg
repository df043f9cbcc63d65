CONSTANTS
    s1 = s1
    s2 = s2
    bad = bad
    Configs <- MCConfigs
    Lists = {s1, s2, bad}
    BadLists = {bad}
    MaxBoots = 2
SPECIFICATION FairSpec
CHECK_DEADLOCK FALSE
INVARIANTS
    TypeOK
    ServesStoredPair
    AllReleased
PROPERTIES
    UserFilesKept
    FailureEndsProcess
