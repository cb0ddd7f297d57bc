SPECIFICATION FairSpec
CONSTANTS
    Trees <- All
    Nodes <- NodesOfAll
    Height <- HeightOfAll
    Paths <- AllPaths
    Size = 2
    DepthFactor = 1
    MaxPriority = 3
    Half = 8
    NodeNumbers <- Numbers
    Unreliable <- OnlyWide
    Raw = Raw
    Torn = Torn
    None = None
INVARIANTS
    AnswersRight
    AnswersSound
    OwnNodeOrTorn
PROPERTIES
    LastNodeStays
    CallsEnd
CHECK_DEADLOCK FALSE
