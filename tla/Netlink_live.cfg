\* The monitor dials, loses its reader and dials again while the devices change.
SPECIFICATION FairSpec
CONSTANTS
  clockId = "own"
  Devices <- MCDevices
  Pins <- MCPins
  pinFilter <- MCFilter
  MaxChanges <- MCChanges
  MaxQueue = 2
  MaxBatch = 2
INVARIANT
  InStep
PROPERTIES
  NeverOlder
  StatusIsRecorded
CHECK_DEADLOCK FALSE
