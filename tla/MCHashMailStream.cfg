CONSTANTS
    Lengths = {1, 2, 5}
    BufSize = 2
    CopySize = 4
    MaxMsgs = 3
SPECIFICATION FairSpec
CHECK_DEADLOCK FALSE
INVARIANTS
    TypeOK
    ReceivedInOrder
    SkipsOnlyFullBuffers
PROPERTIES
    GoroutinesEnd
    HandlersReleased
    ShortMessagesDrain
