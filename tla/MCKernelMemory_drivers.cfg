SPECIFICATION Spec
CONSTANTS
    system = system
    pci = pci
    plugin = plugin
    broken = broken
    Page = 4
    Limit = 60
    Kernels <- SomeKernels
    HeaderSize = 3
    Kexts = {system, pci, plugin, broken}
    PlistSize <- SomePlists
    BinSizes <- SomeBins
    Plugins <- SomePlugins
    Direct <- ByName
    FatKexts <- OnFat
    Block = 5
    DriverInfoSize = 1
    MaxDrivers = 2
    BootArgsSize = 2
    TreeBase = 2
    PropertySize = 1
    MaxAttempts = 3
INVARIANT DriversFit
CHECK_DEADLOCK FALSE
