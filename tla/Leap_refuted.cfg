\* Statements TLC refutes, one at a time: the one that is not a comment.
SPECIFICATION LeapSpec
CONSTANTS
  Offset0 = 2
  Outdated <- MCUpToDate
  Changes <- MCBothChanges
  WindowStart = 4
  WindowEnd = 1
  FirstTime = 2
  LastTime = 6
  MaxLeaps = 1
  MaxRestarts = 0
  NoLeap = NoLeap
PROPERTY AnnouncedUntilLeap
\* PROPERTY NoOffsetBeforeItsLeap
\* INVARIANT FlagIsRight
\* with Outdated <- MCOutdated and Changes <- MCPositive:
\* PROPERTY OffsetIsRight
CHECK_DEADLOCK FALSE
