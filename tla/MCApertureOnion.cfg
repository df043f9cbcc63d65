CONSTANTS
    s1 = s1
    s2 = s2
    bad = bad
    Configs <- MCConfigs
    Lists = {s1, s2, bad}
    BadLists = {bad}
    MaxBoots = 2
SPECIFICATION Spec
CHECK_DEADLOCK FALSE
INVARIANT OnionIsPublished
