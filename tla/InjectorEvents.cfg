SPECIFICATION FairSpec
CONSTANTS
  Threads = {t1, t2}
  Kinds = {"CHAOSReg", "CHAOSRenameMap", "CHAOSFPU", "CHAOSRAS", "CHAOSFreeList", "CHAOSROB", "CHAOSIQ", "CHAOSExec", "CHAOSL1DForward"}
  Caps = {0, 2}
  FirstClock = 1
  LastClocks = {0, 2}
  Gaps = {0, 1, 2}
  CheckPeriod = 1
  RecheckDelay = 1
  Horizon = 3
  CountCap = 4
INVARIANTS
  CapRespected AttackPending
PROPERTIES
  OnlyFirstIsLate PollingYields StuckReapplied
