\* Every call and reboot, with commands dropped, refused or not sent, answers that come too
\* late, and resets and reboots in the middle of a command; three faults, so that a call runs
\* out of attempts, and a response FIFO that two responses fill.
SPECIFICATION FairSpec
CONSTANTS
    Addrs <- MCAddrs
    MaxChunks = 2
    QSPI_ATTEMPTS = 3
    CMD_FIFO = 2
    RSP_FIFO = 4
    MaxFaults = 3
    FaultKinds = {"drop", "error", "no_room", "late", "cpu_reset", "busy_reboot"}
    Calls <- EveryCall
INVARIANTS
    FlashServed
    HiccupTolerated
    RebootsRunning
PROPERTIES
    Terminates
CHECK_DEADLOCK FALSE
