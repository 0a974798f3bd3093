SPECIFICATION FairSpec
CONSTANTS
    Threads = {t1, t2, t3, t4, t5}
    ThreadCount = 2
    Templates = {"single", "multi", "dynamic"}
    MaxInitialises = 1
    MaxExecutes = 4
INVARIANT TypeOK MessageHasOneUser NoRequestLost SpareThread ThreadsAreInArgs FinaliseStopsThreads
PROPERTY RequestsAreAnswered OperationsEnd
CHECK_DEADLOCK FALSE
