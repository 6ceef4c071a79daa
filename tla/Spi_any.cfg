CONSTANTS
  Ports = {"spi"}
  PipeFrame <- MCFrame
  MaxFrames = 1
  MaxLen = 1
  Kinds = {"LONG"}
  Clocked = {1}
  RsLens = {1}
  Tags = {"a"}
  FifoDepth = 1
  MasterCareful = FALSE
  MasterPaced = FALSE
  Rs485Waits = FALSE
SPECIFICATION FairSpec
INVARIANTS GrantsAreOwned
PROPERTIES GrantsComeBack
