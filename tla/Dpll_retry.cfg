\* netlink: is a DPLL event that was dropped sent again?
SPECIFICATION FairSpec
CONSTANTS
  NoChan = "nil"
  Setups <- MCNetlink
  PhaseStatuses <- MCNetlinkPhase
  FreqStatuses <- MCNetlinkFreq
  Slots <- MCOneSlot
  Chans <- MCChans
PROPERTIES
  DroppedEventIsRetried
CHECK_DEADLOCK FALSE
