CONSTANTS
  Ports = {"spi"}
  PipeFrame <- MCFrame
  MaxFrames = 2
  MaxLen = 3
  Kinds = {"LONG", "READ", "WRITE"}
  Clocked = {0, 1, 2, 3, 4, 5}
  RsLens = {1, 3}
  Tags = {"a", "b"}
  FifoDepth = 3
  MasterCareful = TRUE
  MasterPaced = TRUE
  Rs485Waits = TRUE
  TxDepth = 4
SPECIFICATION AnswersFairSpec
INVARIANTS GrantsAreServed ReadsLastWrite NothingIsLeftOver
PROPERTIES PinsKeepTheirWord FrameIsTheTransaction HeardBeforeReleased HearsAgain
CHECK_DEADLOCK FALSE
