CONSTANTS
  MaxJobs = 2
  RemoveMayFail = FALSE
  Failures = {"algorithm_error"}
  Sizes = {1}
  MaxAged = 0
  MaxTotal = 1
  Trigger = 1
SPECIFICATION PostFrameSpec
INVARIANTS PublishedIffReported SaveNeverRefused
PROPERTIES RequiredMeansSaved OptionalKeepsVerdict
CHECK_DEADLOCK FALSE
