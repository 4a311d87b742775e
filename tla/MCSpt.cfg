\* Power loss and CPU reset anywhere, reads and the pointer block may fail.
SPECIFICATION FairSpec
CONSTANTS
    Names <- MCNames
    ReservedNames <- Reserved
    NewNames <- MCNewNames
    Tables <- MCTables
    Extents <- MCExtents
    Writable <- MCWritable
    MaxSlots = 2
    First = "SPT0"
    FaultKinds = {"load", "program", "cpb"}
    Api = {"rename", "create", "delete", "program", "restore"}
INVARIANTS
    Anchored
    InSync
    
    
PROPERTIES
    Durable
    
