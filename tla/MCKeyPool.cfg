SPECIFICATION Spec
CONSTANTS
    Keys = {k1, k2}
    Runs = {r1, r2}
    Calls = {c1, c2}
    Validating = {c2}
    Configured = {k1, k2}
    Workers = {w1}
    NoKey = NoKey
    MaxGen = 4
SYMMETRY Values
INVARIANTS
    KeyPoolTypeOK
    NoLostRun
    OneKeyAtATime
PROPERTIES
    BlockedUntilSettled
