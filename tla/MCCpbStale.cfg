SPECIFICATION Spec
CONSTANTS
    Bits <- MCBits
    Parts <- MCParts
    NSlots = 2
    First = "CPB0"
    FaultKinds = {"program"}
    Api = {"program", "disable"}
PROPERTY
    Removed
CHECK_DEADLOCK FALSE
