CONSTANTS
    fs_type = "FAT16"
    SS = 2
    csize = 1
    max_clust = 6
    sects_fat = 3
    n_fats = 1
    n_rootdir = 6
    MaxNumber = 3
    HalfWord = 65536
    None = None
    Spelling <- MCSpelling
    Checksum <- MCChecksum
    Paths <- MCPaths
    Attributes <- MCAttributes
    Faults <- MCFaults
    Cards <- MCCards
    FaultyCalls = {1}
    MaxCalls = 3
SPECIFICATION Spec
VIEW MCView
CHECK_DEADLOCK FALSE
INVARIANTS AllOnCard SpaceKept
PROPERTIES ImplementsTree ListingRight FailsGently
