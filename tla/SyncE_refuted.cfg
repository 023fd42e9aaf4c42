\* Statements TLC refutes, one at a time: the one that is not a comment.
SPECIFICATION Spec
CONSTANTS
  p1 = p1
  p2 = p2
  d1 = d1
  d2 = d2
  Ports <- MCPorts
  DeviceNames <- MCDeviceNames
  Configs <- MCConfigs
  Levels <- MCLevels
  EECStates <- MCEECStates
  MaxLines = 1
  MaxEvents = 1
INVARIANT NoClockStateLeft
\* INVARIANT IfacesAreItsSections
CHECK_DEADLOCK FALSE
