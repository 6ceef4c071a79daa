CONSTANTS
  Ports = {"rs485"}
  PipeFrame <- MCFrame
  MaxFrames = 2
  MaxLen = 1
  RxCaps = {0, 1}
  TxCaps = {1, 2}
  SpiLens = {1}
  FifoDepth = 2
  RouterReliable = TRUE
SPECIFICATION Spec
INVARIANTS EnabledOnlyBetweenCycles
CHECK_DEADLOCK FALSE
