\* Three failures of different kinds in a row.
CONSTANTS
  PageSize = 2
  CapPages = 3
  Null = Null
  LastPost = 3
  Created <- OnePerSecond
  Malformed = {}
  Pinned = 1
  MaxOverlap = 0
  MaxDrift = 1
  MaxPages = 4
  MaxHidden = 0
  MaxFaults = 3
  DisableAt <- ThreeRedirects
SPECIFICATION Spec
INVARIANT
  DisabledAfterARow
CHECK_DEADLOCK FALSE
