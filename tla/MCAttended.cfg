\* Two trials of an attended run; the run's log is rewritten up to three times.
SPECIFICATION ASpec
CONSTANTS
    Sessions = 2
    MaxKeys = 2
    VTrials = 2
    MaxBlocks = 4
    QueueBlocks = 2
    MinOpen = 2
    PreRoll = 2
    Hangover = 1
    MaxOpen = 3
    MaxDeltas = 3
    Texts = 1
    QueueSize = 2
    Chunks = 3
    RQueueSize = 2
    REvals = 2
    RSteps = 4
    Runs = {1}
    MaxWrites = 3
    MaxPasses = 2
    Baseline = 2
INVARIANTS
    AttendedTypeOK
    EndsAreAsked
    OnlyThisTrial
    DevicesReleased
    ShownAsRecorded
\* Every subject ends: its bounds are reached, or it is closed.
CHECK_DEADLOCK FALSE
