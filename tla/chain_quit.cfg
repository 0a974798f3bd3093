SPECIFICATION FairSpec
CONSTANTS
    NumTools = 1
    ErrorLevels = {0}
    Inlines <- Interactively
    Commands = {"Start", "Quit"}
    MaxTyped = 2
PROPERTY QuitEndsTheProgram
CHECK_DEADLOCK FALSE
