SPECIFICATION Spec
CONSTANTS
    app = app
    app2 = app2
    P1 = P1
    P2 = P2
    Images <- MCImages
    Blocks <- MCBlocks
    Aligned <- MCImages
    Slots <- MCSlots
    NoSlot = NoSlot
    NoLoad = NoLoad
    MAX_IMAGE = 2
    SlotSize = 2
    Commands = {"program", "load"}
    FaultKinds = {"hyperram", "alloc", "mailbox", "tables", "erase", "write", "flip", "read", "image", "pr"}
SYMMETRY Symmetry
INVARIANTS Bootable ProgramHonest UploadIntact
PROPERTIES NeverInPlace
