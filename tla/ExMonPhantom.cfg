SPECIFICATION Spec
CONSTANTS
    CPUs = {c1, c2}
    Addrs = {"x", "y", "z"}
    BlockOf <- Layout
    Modes = {"off"}
    MaxFaults = 1
    SnoopFilters = {TRUE}
    MaxVer <- Writes
    MaxLoads = 2
PROPERTY EveryUpdateKept
SYMMETRY CPUSymmetry
CHECK_DEADLOCK FALSE
