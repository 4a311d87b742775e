SPECIFICATION FairSpec
CONSTANTS
    app = app
    app2 = app2
    P1 = P1
    P2 = P2
    Images = {app}
    Blocks <- MCBlocks
    Aligned = {app}
    Slots = {P1}
    NoSlot = NoSlot
    NoLoad = NoLoad
    MAX_IMAGE = 2
    SlotSize = 2
    Commands = {"program", "load", "pr"}
    FaultKinds = {"mailbox", "pr"}
INVARIANTS RegionHeld
PROPERTIES LoadHappens
