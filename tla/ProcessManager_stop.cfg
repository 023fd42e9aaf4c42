\* Does cmdStop return for every process that was launched?
SPECIFICATION FairSpec
CONSTANTS
  Procs <- MCTwoProcs
  Kind <- MCTwoKind
  StartOrder <- MCTwoStart
  StopOrder <- MCTwoStop
  ShutdownOrder <- MCTwoStart
  Partial <- MCNoPartial
  PipeErrors = FALSE
  MaxGen = 2
PROPERTIES
  LaunchedIsStopped
CHECK_DEADLOCK FALSE
