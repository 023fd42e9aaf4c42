\* Does gpspipe stay down once it was stopped?
SPECIFICATION FairSpec
CONSTANTS
  Procs <- MCGMProcs
  Kind <- MCGMKind
  StartOrder <- MCGMStart
  StopOrder <- MCGMStop
  ShutdownOrder <- MCGMStart
  Partial <- MCNoPartial
  PipeErrors = FALSE
  MaxGen = 1
PROPERTIES
  StoppedStaysDown
CHECK_DEADLOCK FALSE
