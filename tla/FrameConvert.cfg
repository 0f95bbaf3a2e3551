CONSTANTS
  SizeMax = 63
  PitchLimit = 20
  MaxDim = 4
  Dimensions = {0, 1, 2, 4, 5}
  Magnitudes = {0, 2, 4, 5, 8, 16, 20}
  Addresses = {0, 4, 20}
  Lengths = {0, 6, 10, 24, 36, 62}
SPECIFICATION FrameSpec
INVARIANTS ReadsStayInside FrameIsFilled RefusesOnlyTheUnfit LockIsReturned
