SPECIFICATION Spec
CONSTANTS
    NumArch = 2
    NumPhys = 4
    MaxSeq = 4
    Shapes <- ProgramShapes
    Modes = {"off", "wake_phase", "wake_omit", "src_ready_bitflip", "tag_sub"}
    Budget = 1
INVARIANTS IssueReady NoLostWakeup OmitKeepsOne DepGraphSound
PROPERTIES WakeEnds Drains
CHECK_DEADLOCK FALSE
