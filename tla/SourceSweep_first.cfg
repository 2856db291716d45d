\* A first sweep interrupted after its first page, then a capped one two pages up.
CONSTANTS
  PageSize = 2
  CapPages = 2
  Null = Null
  LastPost = 8
  Created <- OnePerSecond
  Malformed = {}
  Pinned = 0
  MaxOverlap = 0
  MaxDrift = 1
  MaxPages = 4
  MaxHidden = 0
  MaxFaults = 1
  DisableAt <- ThreeRedirects
SPECIFICATION Spec
INVARIANT
  KnownPostsBoundGaps
CHECK_DEADLOCK FALSE
