\* Is an update that failed tried again until ptp4l has the class?
SPECIFICATION FairSpec
CONSTANTS
  s1 = s1
  s2 = s2
  WantedClasses <- MCWantedClasses
  OffsetAccuracies <- MCOneAccuracy
  Senders <- MCOneSender
  Ptp4lDefault <- MCPtp4lDefault
  MaxRestarts = 0
  MaxLost = 1
PROPERTIES
  FailedUpdateIsRetried
