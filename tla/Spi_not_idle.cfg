CONSTANTS
  Ports = {"spi"}
  PipeFrame <- MCFrame
  MaxFrames = 2
  MaxLen = 2
  Kinds = {"LONG"}
  Clocked = {1, 2}
  RsLens = {1}
  Tags = {"a"}
  FifoDepth = 4
  MasterCareful = TRUE
  MasterPaced = TRUE
  Rs485Waits = FALSE
SPECIFICATION Spec
INVARIANTS OnlyIdleIsInterrupted
