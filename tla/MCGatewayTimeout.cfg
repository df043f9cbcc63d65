CONSTANTS
    Configs <- MCConfigs
    Handlers = {r1}
    Tokens = {t1}
    None = None
    Paths <- MCPaths
    Tiers <- MCTiers
    Prices = {0, 3}
    MaxTime = 2
    MaxBoots = 1
    CountRange = 4
SPECIFICATION Spec
INVARIANT
    TimeoutFromCreation
