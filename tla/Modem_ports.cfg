CONSTANTS
  Ports = {"rs485", "spi"}
  PipeFrame <- MCFrame
  MaxFrames = 2
  MaxLen = 1
  RxCaps = {1}
  TxCaps = {1}
  Clocked = {1}
  UsartDepth = 2
  SpiDepth = 2
SPECIFICATION FairSpec
INVARIANTS EndToEnd
PROPERTIES TransactionsAreFrames ImplementsRs485Port ImplementsSpiPort StopsOnlyAtOverlaps FramesArrive PollIsAnswered
CHECK_DEADLOCK FALSE
