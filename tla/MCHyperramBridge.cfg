\* Two readers and two writers: the order and the placement of their words, and whose
\* halves come back when the FIFO of halves is full.
SPECIFICATION Spec
CONSTANTS
    Readers = {"d", "i"}
    Writers = {"d", "i"}
    Beats <- MCBeats
    Values = {0, 1}
    read_fifo_depth = 1
    CoreDepth = 2
INVARIANTS
    TypeOK
    
    ReadsLastWrite
    WriteBeatsHaveCommands
