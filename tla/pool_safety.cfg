SPECIFICATION Spec
CONSTANTS
    j1 = j1
    j2 = j2
    j3 = j3
    NoJob = NoJob
    Jobs = {j1, j2}
    Workers = {w1, w2, w3}
    ThreadCap = 2
    Modes <- ThreadedModes
    Sink <- MixedSinks
    Housekeeping = {}
    MaxAdds <- FirstTwice
    ULONG_MAX = 2
SYMMETRY WorkerSymmetry
INVARIANTS OneOwner NothingLost OutcomeIsKnown PoolShape StatsBalance
CHECK_DEADLOCK FALSE
