CONSTANTS
  N = 4
  Byte = {0, 1}
  Zero = 0
  Requests <- MCRequests
SPECIFICATION PollingSpec
INVARIANTS GrantsDisjoint ReadGrantCommitted
PROPERTIES ImplementsFifo ReadMovesForward MaxRemainingSkipsNothing DataIsFound
