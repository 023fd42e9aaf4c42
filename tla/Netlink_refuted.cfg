\* Statements TLC refutes, one at a time: the one that is not a comment.
SPECIFICATION FairSpec
CONSTANTS
  clockId = "own"
  Devices <- MCDevices
  Pins <- MCPins
  pinFilter <- MCFilter
  MaxChanges <- MCChanges
  MaxQueue = 2
  MaxBatch = 2
PROPERTY NothingMissed
\* PROPERTY FailureIsRetried
CHECK_DEADLOCK FALSE
