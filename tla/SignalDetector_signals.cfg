SPECIFICATION Spec
CONSTANTS
  e1 = e1
  e2 = e2
  w1 = w1
  w2 = w2
  Event = {e1, e2}
  Worker = {w1, w2}
  At <- MCAt
  Cost <- MCCost
  Deliveries <- MCDeliveries
  DayLen = 2
  Grace = 1
  MaxTime = 2
  Window = 2
  Multiplier = 1
  ZWarn = 1
  ZCritical = 2
  ZLimit = 4
  RhythmBreak = 50
  MinDays = 2
  WindowDays = 3
  Series <- MCSeries
  Spends = {5, 9}
  Recipients = {"engineer"}
  MaxFaults = 1
  MaxRebuilds = 1
SYMMETRY WorkerSymmetry
INVARIANTS TypeOK OneSignalPerDay BurstNotInflated ClaimIsWritten NearestRank
CHECK_DEADLOCK FALSE
