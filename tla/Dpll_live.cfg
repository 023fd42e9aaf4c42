\* The sysfs monitor, GNSS notifications and a holdover race each other; and a
\* DPLL fed by the 1PPS of another card.
SPECIFICATION FairSpec
CONSTANTS
  NoChan = "nil"
  Setups <- MCBoth
  PhaseStatuses <- MCBothPhase
  FreqStatuses <- MCBothFreq
  Slots <- MCOneSlot
  Chans <- MCChans
PROPERTIES
  HoldoverEnds
  NotLockedWithoutSource
  ReportsCatchUp
  FollowsHardware
CHECK_DEADLOCK FALSE
