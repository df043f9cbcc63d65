CONSTANTS
    Backends = {"lnd"}
    Hashes = {h1, h2}
    Calls = {c1}
    Wanted = {"SETTLED"}
    BatchSize = 1
SPECIFICATION Spec
CHECK_DEADLOCK FALSE
INVARIANT
    AllInvoicesTracked
