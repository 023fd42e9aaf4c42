\* Two interfaces, one with a receiver; late reports and Reset events.
SPECIFICATION Spec
CONSTANTS
  i1 = i1
  i2 = i2
  NoIface = NoIface
  Ifaces <- MCTwoIfaces
  GnssIfaces <- MCOneIface
  MaxTime = 1
  Traceable <- MCNotTraceable
INVARIANTS
  TypeOK
  LockedIsJustified
  WorstDpllDecides
  ClassMatchesState
PROPERTIES
  ReportsNeverGoBack
  RelockNeedsEverySource
