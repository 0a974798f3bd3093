SPECIFICATION FairSpec
CONSTANTS
    NumTools = 2
    ErrorLevels = {1}
    Inlines <- RunModes
    Commands = {"Initialise", "Execute", "Quit", "Start", "Pause", "Unpause", "Stop", "Restart"}
    MaxTyped = 3
INVARIANTS TypeOK ToolsFollowTheChain LoopingIsInitialised
PROPERTIES RecoveryFinalises CommandsInOrder CommandsComplete InlineEnds
CHECK_DEADLOCK FALSE
