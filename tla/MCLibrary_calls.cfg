SPECIFICATION Spec
CONSTANTS
    IntBits = 12
    ShortBits = 8
    CharBits = 6
    CONSOLE_WIDTH = 40
    CONSOLE_HEIGHT = 10
    CONSOLE_CHAR_HEIGHT = 2
    PAL50_Y = 1
    MaxLines = 6
    MaxPolls = 2
    MaxFile = 14
    MaxArgs = 4
    Bytes <- MCBytes
    TextLines <- MCTextLines
    Texts <- MCTexts
    Numbers <- MCNumbers
    TextDirectives <- MCTextDirectives
    Widths = {7, 204, 2045, 2046, 2047, 2048, 2050, 2100, 20470}
    BufferSizes = {4, 20}
    Strings <- MCStrings
    Code <- MCCode
    Words <- MCWords
    Settings <- MCSettings
    ConfigLines <- MCConfigLines
    Entries <- MCEntries
    Drivers <- MCDrivers
    Lines0 <- MCLines0
    Names <- MCNames
    Leaves <- MCLeaves
    ClusterSize = 4
    Trees <- MCTrees
    Paths <- MCPaths
    Versions <- MCVersions
    Operations <- MCOperations
    PadButtons = {"RIGHT"}
    MaxOwed = 2
    Colours <- MCColours
CHECK_DEADLOCK FALSE
INVARIANTS
    GeckoSent
    PressesRight
    ResultsRight
PROPERTY LinesShown
