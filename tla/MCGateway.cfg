CONSTANTS
    Configs <- MCConfigs
    Handlers = {r1, r2}
    Tokens = {t1, t2}
    None = None
    Paths <- MCPaths
    Tiers <- MCTiers
    Prices = {0, 3}
    MaxTime = 2
    MaxBoots = 2
    CountRange = 4
SPECIFICATION Spec
SYMMETRY Symmetry
INVARIANTS
    TypeOK
    ForwardIsEarned
    PaidTokenWorks
    BackendSeesVerified
    FreebiesBounded
    AttenuationNarrows
