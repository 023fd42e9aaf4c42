\* Two concurrent requests, a restart of ptp4l and a lost answer.
SPECIFICATION FairSpec
CONSTANTS
  s1 = s1
  s2 = s2
  WantedClasses <- MCFewClasses
  OffsetAccuracies <- MCOneAccuracy
  Senders <- MCTwoSenders
  Ptp4lDefault <- MCPtp4lDefault
  MaxRestarts = 1
  MaxLost = 1
INVARIANTS
  TypeOK
  BeliefIsAnnounced
PROPERTIES
  ClassConverges
  ImplementsClassService
