CONSTANTS
  MaxVersion = 4
  MaxRuns = 1
SPECIFICATION Spec
INVARIANTS OpeningFormats
CHECK_DEADLOCK FALSE
