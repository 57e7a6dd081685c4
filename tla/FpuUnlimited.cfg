SPECIFICATION FairSpec
CONSTANTS
  Threads = {t1, t2}
  Kinds = {"CHAOSFPU"}
  Caps = {0}
  FirstClock = 1
  LastClocks = {0}
  Gaps = {0}
  CheckPeriod = 1
  RecheckDelay = 1
  Horizon = 4
  CountCap = 4
PROPERTY NeverFreezes
