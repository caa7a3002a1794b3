\* Two runs of one trial.
SPECIFICATION Spec
CONSTANTS
    Runs = 2
    Trials = 1
    MaxDeltas = 1
    Sinks <- MCSinkList
INVARIANTS
    RetainedIsKept
