\* Two runs of up to two trials.
SPECIFICATION Spec
CONSTANTS
    Runs = 2
    Trials = 2
    MaxDeltas = 2
    Sinks <- MCSinkList
INVARIANTS
    TypeOK
    RecordSurvives
    NoStaleSnapshot
    SnapshotIsCurrent
    MessagesReachAll
