CONSTANTS
    Base = 8
    End = 552
    SizeBits = 10
    TREEBIN_SHIFT = 5
    NTREEBINS = 4
    trim_threshold = 96
    Slack = 112
    Requests = {12, 20, 28, 44, 60, 76, 600, 960}
    Regrown = {12, 44, 76}
    Alignments <- MCAlignments
    Arrays <- MCArrays
    Groups <- MCGroups
    Uses <- MCUses
SPECIFICATION Spec
VIEW MCView
CHECK_DEADLOCK FALSE
INVARIANT HeapConsistent
PROPERTIES BestFit ImplementsAllocator
