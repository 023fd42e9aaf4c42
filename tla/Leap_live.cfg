\* One leap, a restart, failing writes and a receiver that is not always valid.
SPECIFICATION LeapFairSpec
CONSTANTS
  Offset0 = 2
  Outdated <- MCUpToDate
  Changes <- MCPositive
  WindowStart = 4
  WindowEnd = 1
  FirstTime = 2
  LastTime = 5
  MaxLeaps = 1
  MaxRestarts = 1
  NoLeap = NoLeap
PROPERTIES
  OffsetIsRight
  OffsetConverges
  ConfigmapCatchesUp
CHECK_DEADLOCK FALSE
