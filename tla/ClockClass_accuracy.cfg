\* Is a change of the accuracy alone written to ptp4l?
SPECIFICATION Spec
CONSTANTS
  s1 = s1
  s2 = s2
  WantedClasses <- MCWantedClasses
  OffsetAccuracies <- MCAccuracies
  Senders <- MCOneSender
  Ptp4lDefault <- MCPtp4lDefault
  MaxRestarts = 0
  MaxLost = 0
PROPERTIES
  AccuracyChangeIsWritten
