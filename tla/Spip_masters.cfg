CONSTANTS
  Waiting <- MCWaiting
  Hasty <- MCHasty
  Room = 2
  RxDepth = 4
  TxDepth = 4
SPECIFICATION FairSpec
INVARIANTS ChannelHasItsTransaction AnswerIsDue
PROPERTIES ArmedAgain
CHECK_DEADLOCK FALSE
