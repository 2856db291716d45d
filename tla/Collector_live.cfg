CONSTANTS
  Runs = {r1}
  Inits = {i1}
  Upgrades = {}
  Probers = {d1}
  Pid = {x1, x2}
  StaleAfter = 1
  LockAttempts = 2
  CheckpointAttempts = 2
  MaxFaults = 1
  NoProc = NoProc
SPECIFICATION FairSpec
PROPERTIES
  EveryCommandEnds
  DeadRowsSettle
