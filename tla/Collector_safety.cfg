\* A run, an init and an upgrade over three process ids, one prober, two faults.
CONSTANTS
  Runs = {r1}
  Inits = {i1}
  Upgrades = {u1}
  Probers = {d1}
  Pid = {x1, x2, x3}
  StaleAfter = 1
  LockAttempts = 2
  CheckpointAttempts = 2
  MaxFaults = 2
  NoProc = NoProc
SPECIFICATION Spec
SYMMETRY Symmetry
INVARIANTS
  MutualExclusion
  SweepSparesTheLiving
  AnnouncedAreCrashed
PROPERTIES
  ImplementsLedger
  SettledRowsStand
