SPECIFICATION FairSpec
CONSTANTS
    Path = {p}
    Object = {a, b}
    Job = {j1, j2}
    Payload <- SomePayload
    Retention <- SomeRetention
    None = None
    a = a
    b = b
    j1 = j1
    j2 = j2
    MaxSweeps = 1
    MaxDay = 1
    MaxRestarts = 1
INVARIANTS
    NoneMissing
PROPERTIES
    VersionsRise
    OrphansCollected
