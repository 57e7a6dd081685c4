SPECIFICATION FairSpec
CONSTANTS
  Tasks = {r1, r2, r3}
  Jobs = 2
  HangTimeout = 0
  OuterMargin = 2
  Head = 1
  Floor = 1
  Oracles = {"exact_hash"}
  Protections = {FALSE}
  ExitMarkers = {"none"}
  FaultCap = 0
PROPERTIES AllClassified
CHECK_DEADLOCK FALSE
