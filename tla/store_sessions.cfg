SPECIFICATION Spec
CONSTANTS
    a = a
    Nothing = Nothing
    Junk = Junk
    Values = {Nothing, a}
    EditsOld = FALSE
    MaxBlocks = 7
    MaxSaves = 2
INVARIANTS TypeOK FileIsWellFormed
PROPERTY ImplementsEntryStore
