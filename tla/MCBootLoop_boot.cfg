SPECIFICATION FairSpec
CONSTANTS
    mac = mac
    boot = boot
    plain = plain
    Cards = {mac, boot, plain}
    NoCard = NoCard
    Worlds <- CarefulOrNot
    Config <- Configs
    NoText = NoText
    Threshold = 2
    ArgEntries = 3
    Keys = {"none", "power", "reset", "eject"}
    MaxSwaps = 2
INVARIANTS
    SelectionTrue
    TableIsOfCard
    BootsWhatWasSelected
PROPERTIES
    OnlyResetAfterTouch
    CountdownEnds
CHECK_DEADLOCK FALSE
