CONSTANTS
    Backends = {"lnd"}
    Hashes = {h1, h2}
    Calls = {c1}
    Wanted = {"SETTLED"}
    BatchSize = 1
SPECIFICATION Spec
SYMMETRY Symmetry
CHECK_DEADLOCK FALSE
INVARIANTS
    VerifySound
    NoLostWakeup
PROPERTIES
    NeverUnsettled
    ImplementsOracle
