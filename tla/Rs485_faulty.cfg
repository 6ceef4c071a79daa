CONSTANTS
  Ports = {"rs485"}
  PipeFrame <- MCFrame
  MaxFrames = 2
  MaxLen = 1
  RxCaps = {0, 1}
  TxCaps = {1, 2}
  SpiLens = {1}
  FifoDepth = 2
  RouterReliable = FALSE
SPECIFICATION FairSpec
INVARIANTS PanicsOnlyBeforeArming BusyGrantsAreOwned DmaRunsOnItsGrant
PROPERTIES Rearmed GrantsComeBack
CHECK_DEADLOCK FALSE
