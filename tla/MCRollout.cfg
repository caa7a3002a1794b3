\* One attended trial of three steps.
SPECIFICATION FairSpec
CONSTANTS
    MaxSteps = 3
    ReplanInterval = 2
    MaxMessages = 2
    Attended = TRUE
    Low = 0
    High = 2
    Triggers <- MCTriggers
    Chunks <- MCChunks
    Guards <- MCGuards
INVARIANTS
    TypeOK
    PlatformSafe
    TrajectoryIsWhatRan
    OneReplanPerClamp
    EndIsTrue
    ConsoleBracketed
PROPERTIES
    PolicyIsUpToDate
    StopIsHonoured
    KeepsTrialContract
