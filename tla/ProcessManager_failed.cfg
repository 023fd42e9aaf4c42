\* Is the configuration after a failed one applied?
SPECIFICATION FairSpec
CONSTANTS
  Procs <- MCTwoProcs
  Kind <- MCTwoKind
  StartOrder <- MCTwoStart
  StopOrder <- MCTwoStop
  ShutdownOrder <- MCTwoStart
  Partial <- MCTwoPartial
  PipeErrors = FALSE
  MaxGen = 2
PROPERTIES
  UpdateAfterFailedProfile
CHECK_DEADLOCK FALSE
