SPECIFICATION FairSpec
CONSTANTS
    a = a
    b = b
    c = c
    d = d
    Nodes = {a, b, c}
    inputs <- ChainInputs
    parallel <- ChainParallel
    topoIndex <- ChainTopoIndex
    maxParallel = 2
    retryMax <- ChainRetryMax
    retryOn <- ChainRetryOn
    feedback <- ChainFeedback
    HasBudget = TRUE
    MaxFaults = 2
    MaxRaises = 1
PROPERTIES
    RunSettles
    CancelSettles
