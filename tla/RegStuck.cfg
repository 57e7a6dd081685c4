SPECIFICATION FairSpec
CONSTANTS
  Threads = {t1, t2}
  Kinds = {"CHAOSReg"}
  Caps = {1}
  FirstClock = 1
  LastClocks = {0}
  Gaps = {0, 1}
  CheckPeriod = 1
  RecheckDelay = 1
  Horizon = 4
  CountCap = 4
PROPERTY TrulyPermanent
