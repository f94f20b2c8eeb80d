CONSTANTS
  MaxVersion = 4
  MaxRuns = 4
SPECIFICATION Spec
INVARIANTS MadeSound QuitKeepsSound FormatHeals UnsavedRollsBack ForeignTreeKept
CHECK_DEADLOCK FALSE
