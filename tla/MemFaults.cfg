SPECIFICATION Spec
CONSTANTS
    Addrs = {a, b, c}
    Ways = {w1, w2}
    Bits = {0, 1}
    Values <- TwoValues
    Setups <- AllSetups
    MaxFaults = 2
INVARIANTS CorrectedIsMasked DamageBounded
PROPERTY StuckReturns
CHECK_DEADLOCK FALSE
