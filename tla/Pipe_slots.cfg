CONSTANTS
  N = 8
  MaxLen = 2
SPECIFICATION FairSpec
INVARIANTS SlotsHoldTheGrants
PROPERTIES ImplementsPipe RefusedOnlyWhenInUse FrameIsOffered
