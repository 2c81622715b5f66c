SPECIFICATION MCSpec
CONSTANTS
  MaxClicks = 3
  HastyClicks = 2
  MaxVersion = 2
  Retries = 1
  MaxFailures = 1
INVARIANT SkippedAreSeen
CHECK_DEADLOCK FALSE
