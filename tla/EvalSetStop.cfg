\* Three tasks, one after the other.
SPECIFICATION Spec
CONSTANTS
    Tasks = 3
    WorkerCounts <- MCWorkerCounts
PROPERTIES
    StopEndsTheSet
