CONSTANTS
    fs_type = "FAT32"
    SS = 2
    csize = 2
    max_clust = 6
    sects_fat = 3
    n_fats = 2
    n_rootdir = 0
    MaxNumber = 1
    None = None
    Spelling <- MCSpelling
    Checksum <- MCChecksum
    Files <- MCFiles
    Modes <- MCModes
    Lengths <- MCLengths
    Offsets <- MCOffsets
    Faults <- MCFaults
    Volumes <- MCVolumes
    MaxCalls = 6
SPECIFICATION Spec
VIEW MCView
CHECK_DEADLOCK FALSE
INVARIANTS ChainsSound NothingLost ClosedIsOnCard
PROPERTIES ImplementsStore
