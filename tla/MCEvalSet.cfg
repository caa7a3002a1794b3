\* Four tasks, one or two workers.
SPECIFICATION FairSpec
CONSTANTS
    Tasks = 4
    WorkerCounts <- MCWorkerCounts
INVARIANTS
    TypeOK
    AdmissionIsBounded
    NothingLeftBehind
    HaltOutlivesCleanup
PROPERTIES
    StopIsObserved
    SetEnds
