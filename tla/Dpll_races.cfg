\* Statements TLC refutes, one at a time: the one that is not a comment.
SPECIFICATION Spec
CONSTANTS
  NoChan = "nil"
  Setups <- MCSysfs
  PhaseStatuses <- MCSysfsPhase
  FreqStatuses <- MCSysfsFreq
  Slots <- MCOneSlot
  Chans <- MCChans
INVARIANT NoSendOnClosed
\* PROPERTY NoHoldoverAfterStop
CHECK_DEADLOCK FALSE
