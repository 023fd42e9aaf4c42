\* Two ports, of one device or of two, crashes of synce4l and a stop.
SPECIFICATION Spec
CONSTANTS
  p1 = p1
  p2 = p2
  d1 = d1
  d2 = d2
  Ports <- MCPorts
  DeviceNames <- MCDeviceNames
  Configs <- MCConfigs
  Levels <- MCLevels
  EECStates <- MCEECStates
  MaxLines = 1
  MaxEvents = 1
INVARIANTS
  TypeOK
  DeviceIsItsSection
  LevelsAreSent
  QualityIsBest
  NoMetricLeft
CHECK_DEADLOCK FALSE
