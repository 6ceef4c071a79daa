CONSTANTS
  Wrap = 11
  Timeout = 8
  PollTicks = 6
  FifoDepth = 8
  PollsAnytime = FALSE
  RouterBreaks = TRUE
SPECIFICATION FairSpec
INVARIANTS AnswersThePoll
PROPERTIES CompletePollIsAnswered HandlerReturns
CHECK_DEADLOCK FALSE
