SPECIFICATION Spec
CONSTANTS
    a = a
    Nothing = Nothing
    Junk = Junk
    Values = {Nothing}
    EditsOld = TRUE
    MaxBlocks = 7
    MaxSaves = 1
PROPERTY SavedEntryIsFound
CHECK_DEADLOCK FALSE
