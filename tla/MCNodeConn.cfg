CONSTANTS
    c1 = c1
    c2 = c2
    n1 = n1
    n2 = n2
    h1 = h1
    v1 = v1
    v2 = v2
    Hashes = {h1}
    Values = {v1, v2}
    None = None
    Callers = {c1, c2, n1, n2}
    Nodes = {n1, n2}
    Deployments <- MCDeployments
    Ops <- MCOps
    Remote = remote
    Expiry = expiry
    MaxConns = 2
    NumRetries = 2
    MaxCrashes = 1
SPECIFICATION FairSpec
INVARIANTS
    TypeOK
    SingleOnionKey
    UsesStoredSession
PROPERTIES
    ImplementsAtomicStore
    CallsReturn
