\* Two partitions, two slots; power loss and CPU reset anywhere, status commands fail.
SPECIFICATION Spec
CONSTANTS
    Bits <- MCBits
    Parts <- MCParts
    NSlots = 2
    First = "CPB0"
    FaultKinds = {"status"}
    Api = {"program", "disable", "enable"}
INVARIANTS
    TypeOK
    Anchored
    InSync
    NoDuplicate
PROPERTIES
    BootListSpec
    Removed
