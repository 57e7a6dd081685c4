SPECIFICATION Spec
CONSTANTS
    NumArch = 2
    NumPhys = 4
    MaxSeq = 4
    Shapes <- ProgramShapes
    Modes = {"wake_omit"}
    Budget = 1
INVARIANT RemoveFindsEntry
CHECK_DEADLOCK FALSE
