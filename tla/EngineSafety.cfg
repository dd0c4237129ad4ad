SPECIFICATION Spec
CONSTANTS
    a = a
    b = b
    c = c
    d = d
    Nodes = {a, b, c, d}
    inputs <- ForkInputs
    parallel <- ForkParallel
    topoIndex <- ForkTopoIndex
    maxParallel = 2
    retryMax <- ForkRetryMax
    retryOn <- ForkRetryOn
    feedback <- ForkFeedback
    HasBudget = TRUE
    MaxFaults = 2
    MaxRaises = 1
INVARIANTS
    DependencyClosed
    RerunsAreOwed
    FreshInputs
    WithinMaxParallel
    OutcomeIsVisible
    ResumeIsConsumed
