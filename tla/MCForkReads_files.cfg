SPECIFICATION ReadsSpec
CONSTANTS
    Forks <- AllForks
    Extents <- Layout
    Base <- BaseOf
    PerRecord = 2
    ReadErrors = TRUE
    ExtentsTrees <- Trees
    Half = 1024
    NodeNumbers = 1024
    Volumes <- Aligned
    None = None
INVARIANTS
    ReadsTheFork
    FailsForAReason
    ReadsTheFile
PROPERTIES
    OpensIntact
CHECK_DEADLOCK FALSE
