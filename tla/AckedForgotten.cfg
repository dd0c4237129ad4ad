SPECIFICATION FaultySpec
CONSTANTS
    None = None
    Replay = Replay
    Event = {a, b}
    MaxStarts = 2
    MaxReplays = 1
    MaxWriteFaults = 0
    Faults = {"read"}
CHECK_DEADLOCK FALSE
INVARIANT AckedIsRead
