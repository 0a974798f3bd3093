SPECIFICATION FairSpec
CONSTANTS
    main = main
    worker = worker
    worker2 = worker2
    Streamer = main
    Loggers = {worker, worker2}
    Reporters = {reporter, reporter2}
    Levels = {0, 1, 2}
    Verbosity <- Verbosities
    Splits = {TRUE, FALSE}
    MaxPieces = 2
INVARIANT TypeOK
PROPERTY RecordsAreWhole ImplementsLineLog LogReturns
CHECK_DEADLOCK FALSE
