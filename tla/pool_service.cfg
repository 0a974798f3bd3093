SPECIFICATION Spec
CONSTANTS
    j1 = j1
    j2 = j2
    j3 = j3
    NoJob = NoJob
    Jobs = {j1, j3}
    Workers = {w1, w2}
    ThreadCap = 2
    Modes <- AllModes
    Sink <- MixedSinks
    Housekeeping = {"pop", "Clear", "ClearStats"}
    MaxAdds <- Once
    ULONG_MAX = 0
SYMMETRY WorkerSymmetry
INVARIANT TypeOK
PROPERTY ImplementsJobService
CHECK_DEADLOCK FALSE
