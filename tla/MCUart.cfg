SPECIFICATION Spec
CONSTANTS
    a = a
    b = b
    Byte <- MCByte
    Follows <- MCFollows
    Reads <- MCReads
    Writes <- MCWrites
    Junk = "junk"
    Depth = 2
    Disturbances = {}
    MaxCount = 1
PROPERTIES
    PortSpec
SYMMETRY Swap
