SPECIFICATION Spec
CONSTANTS
    Addrs = {a, b, c}
    Ways = {w1, w2}
    Bits = {0, 1}
    Values <- TwoValues
    Setups <- AllSetups
    MaxFaults = 1
INVARIANT AliasSparesReplacement
CHECK_DEADLOCK FALSE
