\* Netlink: the notification reader decides, too.
SPECIFICATION Spec
CONSTANTS
  NoChan = "nil"
  Setups <- MCNetlink
  PhaseStatuses <- MCNetlinkPhase
  FreqStatuses <- MCNetlinkFreq
  Slots <- MCOneSlot
  Chans <- MCChans
INVARIANTS
  TypeOK
  HoldoverAttended
CHECK_DEADLOCK FALSE
