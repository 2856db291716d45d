SPECIFICATION Spec
CONSTANTS
  MaxHead = 4
  Try = 3
  Keep = 1
  MaxFaults = 2
  MaxData = 2
  MaxRefused = 1
  PowerFails = FALSE
  NoFile = NoFile
INVARIANTS
  CopiesSave
  ReportOnRecord
PROPERTIES UpgradeIsAtomic OutsideIsUntouched
CHECK_DEADLOCK FALSE
