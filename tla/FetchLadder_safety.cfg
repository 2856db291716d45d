\* The shipped waits (30, 120, 300 s; 60 s to 300 s for a 429; stale after 3 min) in units
\* of 30 s; a ceiling the waits straddle; a budget that two units exhaust.
CONSTANTS
  HardCap = 4
  Requested = 4
  WantedReserve = 1
  Ladder <- ThreeRungs
  DefaultWait = 2
  MaxWait = 10
  Ceiling = 12
  BeatEvery = 1
  StaleAfter = 6
  MoreLimit = 1
  RetryAfters = {Null, 0, 3, 20}
  PerGet = 2
  Latency = 1
  Null = Null
SPECIFICATION FairSpec
INVARIANTS
  LadderIsBounded
  RateWaitsLookAlive
PROPERTIES
  ImplementsContract
  UnitsEnd
