\* Three posts, four comments, one behind a stub and one malformed; two requests a run, of
\* which the sweep may take one.
CONSTANTS
  HardCap = 2
  Requested = 2
  WantedReserve = 0
  Posts = {1, 2, 3}
  Created <- SameDay
  Comments = {"a", "b", "c", "d"}
  PostOf <- InPost
  Author <- Writers
  Parent <- RepliesTo
  Folded = {"b"}
  Fickle = {"a"}
  Malformed = {"c"}
  LadderDays <- DayThenTwo
  ReplaceMoreLimit = 2
  PerPostCap = 1
  MaxDay = 2
  MaxSwept = 1
  MaxExtra = 1
  MaxFaults = 1
  Null = Null
SPECIFICATION FairSpec
INVARIANTS
  StoreIsConsistent
  NewIsDelta
  DrainedUnlessEmpty
PROPERTIES
  DueIsServed
CHECK_DEADLOCK FALSE
