\* Pages of two, a cap of three pages, six posts; a sticky heads the listing, a page
\* may repeat up to all of the one before, one post arrives during a sweep.
CONSTANTS
  PageSize = 2
  CapPages = 3
  Null = Null
  LastPost = 6
  Created <- OnePerSecond
  Malformed = {2}
  Pinned = 1
  MaxOverlap = 2
  MaxDrift = 1
  MaxPages = 4
  MaxHidden = 1
  MaxFaults = 1
  DisableAt <- ThreeRedirects
SPECIFICATION Spec
INVARIANTS
  NothingLostInSilence
  ExhaustedMeansAll
  CountersEqualDeltas
PROPERTIES
  StampMeansReached
CHECK_DEADLOCK FALSE
