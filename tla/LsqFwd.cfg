SPECIFICATION Spec
CONSTANTS
    Programs <- FourOps
    Bytes = {0, 1}
    Modes = {"off", "bit_flip", "fwd_source_sub", "phase_offset", "byte_lane_skew", "all_zero"}
    MaxFaults = 1
    PhaseOffset = 1
    HistCap = 3
INVARIANTS LoadsExact FaultsContained
PROPERTY AllCommit
CHECK_DEADLOCK FALSE
