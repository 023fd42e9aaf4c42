\* Statements TLC refutes, one at a time: the one that is not a comment.
SPECIFICATION FairSpec
CONSTANTS
  NoChan = "nil"
  Setups <- MCSysfs
  PhaseStatuses <- MCSysfsPhase
  FreqStatuses <- MCSysfsFreq
  Slots <- MCOneSlot
  Chans <- MCChans
PROPERTY StopTerminatesMonitor
\* PROPERTY RelocksWithGnss
\* PROPERTY OutOfRangeIsFreerunWithGnss
CHECK_DEADLOCK FALSE
