SPECIFICATION Spec
CONSTANTS
    NumArch = 2
    NumPhys = 4
    MaxSeq = 4
    Shapes <- ProgramShapes
    Modes = {"wake_phase"}
    Budget = 1
INVARIANT DeferOnlyDelays
CHECK_DEADLOCK FALSE
