CONSTANTS
    Ids = {i1}
    Streams = {s1, s2}
    Handlers = {h1, h2}
    NoStream = NoStream
    NoId = NoId
    MaxFired = 1
SPECIFICATION FairSpec
CHECK_DEADLOCK FALSE
INVARIANTS
    SingleHolder
    NoIdleLeak
    PanicOnlyAfterStop
    RemovedIsClosed
PROPERTIES
    TearDownCompletes
    StaleReclaimed
