\* Statements TLC refutes, one at a time: the one that is not a comment.
SPECIFICATION GnssSpec
CONSTANTS
  u1 = u1
  u2 = u2
  u3 = u3
  NoTool = NoTool
  Failed = Failed
  Tools <- MCThreeTools
  Headers <- MCHeaders
  Fixes <- MCAlways
  Accurate <- MCAlways
  StartErrors = FALSE
  MaxBatch = 2
  EmptyLimit = 2
  MissedLimit = 1
INVARIANT OneTool
\* INVARIANT NoToolLeft
\* PROPERTY FixIsLocked
CHECK_DEADLOCK FALSE
