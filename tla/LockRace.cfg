SPECIFICATION Spec
CONSTANTS
    Process = {p, q}
INVARIANTS
    OneDaemon
CHECK_DEADLOCK FALSE
