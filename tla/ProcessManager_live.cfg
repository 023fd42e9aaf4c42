\* ts2phc and gpspipe over two configurations: restarts and signals lead to
\* something, and no process outlives its configuration.
SPECIFICATION FairSpec
CONSTANTS
  Procs <- MCPairProcs
  Kind <- MCPairKind
  StartOrder <- MCPairStart
  StopOrder <- MCPairStop
  ShutdownOrder <- MCPairStart
  Partial <- MCGMPartial
  PipeErrors = TRUE
  MaxGen = 2
INVARIANTS
  OneGenerationAtATime
PROPERTIES
  CrashedIsRestarted
  SignalledIsStopped
CHECK_DEADLOCK FALSE
