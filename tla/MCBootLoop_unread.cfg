SPECIFICATION Spec
CONSTANTS
    mac = mac
    boot = boot
    plain = plain
    Cards = {mac}
    NoCard = NoCard
    Worlds <- NoKernel
    Config <- Configs
    NoText = NoText
    Threshold = 2
    ArgEntries = 3
    Keys = {"none", "power", "reset", "eject"}
    MaxSwaps = 1
INVARIANT KernelWasRead
CHECK_DEADLOCK FALSE
