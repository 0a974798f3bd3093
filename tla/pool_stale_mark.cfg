SPECIFICATION Spec
CONSTANTS
    j1 = j1
    j2 = j2
    j3 = j3
    NoJob = NoJob
    Jobs = {j1}
    Workers = {w1, w2}
    ThreadCap = 2
    Modes <- ThreadedModes
    Sink <- MixedSinks
    Housekeeping = {}
    MaxAdds <- FirstTwice
    ULONG_MAX = 3
INVARIANT RunningIsInProgress
CHECK_DEADLOCK FALSE
