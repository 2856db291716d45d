\* Five posts, one fault, runs that keep coming.
CONSTANTS
  PageSize = 2
  CapPages = 2
  Null = Null
  LastPost = 5
  Created <- OnePerSecond
  Malformed = {}
  Pinned = 0
  MaxOverlap = 1
  MaxDrift = 1
  MaxPages = 4
  MaxHidden = 1
  MaxFaults = 1
  DisableAt <- ThreeRedirects
SPECIFICATION FairSpec
PROPERTIES
  NewPostsArrive
CHECK_DEADLOCK FALSE
