SPECIFICATION Spec
CONSTANTS
    Programs <- FourOps
    Bytes = {0, 1}
    Modes = {"fwd_source_sub"}
    MaxFaults = 1
    PhaseOffset = 1
    HistCap = 3
PROPERTY SubstitutionIsStale
CHECK_DEADLOCK FALSE
