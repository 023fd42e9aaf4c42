\* Deaths of ubxtool, failing starts and CmdStop at any time.
SPECIFICATION GnssFairSpec
CONSTANTS
  u1 = u1
  u2 = u2
  u3 = u3
  NoTool = NoTool
  Failed = Failed
  Tools <- MCTwoTools
  Headers <- MCStatus
  Fixes <- MCBoth
  Accurate <- MCAlways
  StartErrors = TRUE
  MaxBatch = 1
  EmptyLimit = 1
  MissedLimit = 1
INVARIANTS
  CurrentToolIsRead
PROPERTIES
  ToolIsReplaced
CHECK_DEADLOCK FALSE
