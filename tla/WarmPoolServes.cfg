SPECIFICATION FairSpec
CONSTANTS
    p = p
    q = q
    r = r
    s = s
    Request = {p, q, r, s}
    signature <- OddSignature
    slots = 2
    capacity = 1
    MaxFaults = 1
    MaxEmitFaults = 1
INVARIANTS
    NoIdleSlot
    SlotsReturned
    PoolOverrunBounded
PROPERTIES
    FirstComeFirstServed
    ImplementsSemaphore
