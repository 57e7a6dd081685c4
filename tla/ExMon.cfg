SPECIFICATION Spec
CONSTANTS
    CPUs = {c1, c2}
    Addrs = {"x", "y", "z"}
    BlockOf <- Layout
    Modes = {"clear_reservation", "stale_reservation"}
    MaxFaults = 1
    SnoopFilters = {TRUE, FALSE}
    MaxVer <- Writes
    MaxLoads = 2
INVARIANTS LockedIsFresh
PROPERTIES ImplementsLLSC NoLostUpdate
SYMMETRY CPUSymmetry
CHECK_DEADLOCK FALSE
