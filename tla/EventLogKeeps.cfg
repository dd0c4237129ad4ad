SPECIFICATION FairSpec
CONSTANTS
    None = None
    Replay = Replay
    Event = {a, b, c}
    MaxStarts = 3
    MaxReplays = 1
    MaxWriteFaults = 1
INVARIANTS
    AckedIsRead
    SeqIsPosition
PROPERTIES
    ImplementsLog
    AppendAnswers
CHECK_DEADLOCK FALSE
