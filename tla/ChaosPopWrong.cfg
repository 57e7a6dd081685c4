SPECIFICATION ChaosSpec
CONSTANTS
    NumArch = 2
    NumPhys = 4
    MaxSeq = 2
    MaxFaults = 1
    MaskBits = {0}
    Modes = {"pop_wrong"}
INVARIANTS PopReturnsMarked
CHECK_DEADLOCK FALSE
