SPECIFICATION Spec
CONSTANTS
  NumRegs <- SmallFiles
  Classes = {"int", "fp", "vec"}
  FaultTypeSets = {{"bit_flip"}, {"bit_flip", "stuck_at"}}
  Caps = {1, 2, 3}
  ReadCap = 3
INVARIANTS
  TransientTraceExact
  ZeroReadsMeansUnread
  StuckCellHolds
  SingleFaultClean
CHECK_DEADLOCK FALSE
