SPECIFICATION Spec
CONSTANTS
    j1 = j1
    j2 = j2
    j3 = j3
    NoJob = NoJob
    Jobs = {j1}
    Workers = {w1}
    ThreadCap = 1
    Modes <- ThreadedModes
    Sink <- MixedSinks
    Housekeeping = {}
    MaxAdds <- FirstTwice
    ULONG_MAX = 3
INVARIANT NothingInProgressAfterwards
CHECK_DEADLOCK FALSE
