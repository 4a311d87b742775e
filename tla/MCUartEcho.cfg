SPECIFICATION FairSpec
CONSTANTS
    Byte <- MCByte
    Follows <- MCFollows
    Depth = 2
    Disturbances = {}
    MaxCount = 1
    Level = 2
    Ring = 1
    BufSize = 2
INVARIANTS
    
    WakesUp
    LossNoticed
PROPERTIES
    
    Echoed
