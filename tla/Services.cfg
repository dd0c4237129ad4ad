CONSTANTS
    Absent = Absent
    Bad = Bad
    SCALE = 4
    TIERS = {"plan", "code"}
    Agents = {a1, a2}
    BroadcastEnabled = TRUE
    MaxSent = 2
    MaxHandlers = 2
    MaxTraversal = 1
    MaxHandlerFaults = 1
    SecretTenants = {t1, t2}
    SecretIds = {k1}
    Values = {v1, v2}
    Callers = {c1, c2}
    MaxSecretCalls = 3
    MaxSecretFaults = 1
    Sandboxes = {s1, s2}
    Caps = {p1}
    MaxStarts = 2
    MaxProviderFaults = 1
    Shards = {f1, f2}
    Owners = {o1, o2}
    MaxEvents = 4
    Nodes = {n1, n2}
    MaxAttempts = 2
    Limits = {0, 2, 4}
    Amounts = {0, 1, 2}
    SoftRatio = 80
    Recorders = {r1, r2}
    MaxRecords = 4
    MaxBudgetRaises = 2
    MaxEmitFaults = 1
    LayerStacks <- Stacks
    CapRequests <- Requests
    Registries <- ModelFiles
    Feedbacks <- Heard
    SessionInits <- Inits
    Profiles <- Offers
    Versions <- SomeVersions
    VersionLists <- Pairs
SPECIFICATION Spec
INVARIANTS
    MessagesAccounted
    CalledInOrder
    SecretsKept
    SandboxesAccounted
    EachEventOnce
    SettledTaskSurvives
    BudgetTold
    PlanRuns
    BundleTravels
    PolicyDecides
    RankingHolds
    HandshakeExplained
CHECK_DEADLOCK FALSE
