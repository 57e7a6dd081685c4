SPECIFICATION Spec
CONSTANTS
  Tasks = {r1}
  Jobs = 1
  HangTimeout = 1
  OuterMargin = 2
  Head = 1
  Floor = 1
  Oracles = {"exact_hash"}
  Protections = {FALSE}
  ExitMarkers = {"none", "panic", "illegal instruction", "data abort"}
  FaultCap = 2
INVARIANT NoOrphans
CHECK_DEADLOCK FALSE
