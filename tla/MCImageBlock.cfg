\* Images linked for either slot, damaged, too long, cut off and with too many sections.
SPECIFICATION Spec
CONSTANTS
    Heads <- MCHeads
    Images <- MCImages
    Slots <- MCSlots
    MAX_SECTIONS = 3
    EraseStops = {1}
    WeakBlocks = {3}
INVARIANTS
    TypeOK
    RoundTrip
    DamageNoticed
    Loadable
