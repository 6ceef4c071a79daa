CONSTANTS
  N = 8
  Byte = {0, 1}
  Zero = 0
  Requests <- MCRequests
  Radix = 2
  Asked = {0, 1, 2}
SPECIFICATION FramedFairSpec
INVARIANTS FramesAreWhole
PROPERTIES ImplementsFrames AskedIsGranted
