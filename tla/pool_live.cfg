SPECIFICATION FairSpec
CONSTANTS
    j1 = j1
    j2 = j2
    j3 = j3
    NoJob = NoJob
    Jobs = {j1}
    Workers = {w1, w2}
    ThreadCap = 2
    Modes <- ThreadedModes
    Sink <- MixedSinks
    Housekeeping = {"Clear"}
    MaxAdds <- FirstTwice
    ULONG_MAX = 0
PROPERTIES JobsAreHandedOver DestructorEnds IdlePoolShrinks
CHECK_DEADLOCK FALSE
