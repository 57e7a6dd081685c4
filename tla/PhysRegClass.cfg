SPECIFICATION Spec
CONSTANTS
  NumRegs <- SmallFiles
  Classes = {"fp"}
  FaultTypeSets = {{"stuck_at"}}
  Caps = {2}
  ReadCap = 3
INVARIANT TypeAware
