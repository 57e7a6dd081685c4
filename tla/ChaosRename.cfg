SPECIFICATION ChaosSpec
CONSTANTS
    NumArch = 2
    NumPhys = 4
    MaxSeq = 3
    MaxFaults = 2
    MaskBits = {0, 1, 2}
    Modes = {"map_bitflip", "f5_substitute", "f4_field_stuck", "mark_free", "pop_wrong", "spec_leak"}
INVARIANTS SpecLeakContained FaultNotAmplified RATFaultsConserve
CHECK_DEADLOCK FALSE
