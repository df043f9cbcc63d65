CONSTANTS
    Calls = {c1, c2}
    Hashes = {h1, h2, h3}
    None = None
    MaxCrashes = 2
SPECIFICATION FairSpec
INVARIANTS
    NeverPaysTwice
    PaidIsRemembered
    SentIsPaid
PROPERTIES
    ImplementsCell
    PendingIsResolved
