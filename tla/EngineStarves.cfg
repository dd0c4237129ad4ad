SPECIFICATION FairSpec
CONSTANTS
    a = a
    b = b
    c = c
    d = d
    Nodes = {a, b, c, d}
    inputs <- ForkInputs
    parallel <- ForkParallel
    topoIndex <- ForkTopoIndex
    maxParallel = 2
    retryMax <- ForkRetryMax
    retryOn <- ForkRetryOn
    feedback <- ForkFeedback
    HasBudget = FALSE
    MaxFaults = 0
    MaxRaises = 0
PROPERTIES
    RunSettles
