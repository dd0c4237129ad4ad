SPECIFICATION Spec
CONSTANTS
    r1 = r1
    r2 = r2
    k1 = k1
    k2 = k2
    Request = {r1, r2}
    Key = {k1, k2}
    keyOf <- SharedKey
    AutoRequest = {r2}
    Baseline = {k2}
    MaxWrites = 2
    MaxCrashes = 0
    MaxEmitFaults = 0
INVARIANTS
    NeverDecidedTwice
CHECK_DEADLOCK FALSE
