\* Every function and every fault, power loss and CPU reset, on the smallest block.
SPECIFICATION FairSpec
CONSTANTS
    Bits <- OneBits
    Parts <- OnePart
    NSlots = 1
    First = "CPB1"
    FaultKinds = {"status", "read", "program"}
    Api = {"program", "program_callback", "disable", "enable", "empty", "restore"}
PROPERTIES
    Opened
    Healed
