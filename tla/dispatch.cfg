SPECIFICATION FairSpec
CONSTANTS
    Data = {d1, d2}
    Null = Null
    Throwing = {d1}
    NumAlgorithms = 2
    NoJob = NoJob
    MaxStarts = 2
    Objects = {o1, o2}
    Caps = {0}
    UINT_MAX = 1
PROPERTY UsesJobService KeepsOrder DataBecomesJobs CloseEnds
CHECK_DEADLOCK FALSE
INVARIANT TypeOK NothingDropped JobsOnce JobsAccounted
