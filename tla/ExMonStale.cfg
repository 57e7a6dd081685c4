SPECIFICATION Spec
CONSTANTS
    CPUs = {c1, c2}
    Addrs = {"x", "y", "z"}
    BlockOf <- Layout
    Modes = {"stale_reservation"}
    MaxFaults = 1
    SnoopFilters = {TRUE, FALSE}
    MaxVer <- Writes
    MaxLoads = 2
PROPERTY StaleGrantSucceeds
SYMMETRY CPUSymmetry
CHECK_DEADLOCK FALSE
