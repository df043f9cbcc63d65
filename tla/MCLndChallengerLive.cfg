CONSTANTS
    Backends = {"lnd", "lnc"}
    Hashes = {h1}
    Calls = {c1}
    Wanted = {"SETTLED"}
    BatchSize = 1
SPECIFICATION FairSpec
CHECK_DEADLOCK FALSE
PROPERTIES
    SettlementArrives
    CallsReturn
    StopTerminates
