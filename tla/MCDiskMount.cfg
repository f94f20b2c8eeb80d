SPECIFICATION Spec
CONSTANTS
  DiskBlocks = 6
  FirstData = 1
  EndData = 6
  Cap = 2
  MaxBlocks = 3
  MaxSessions = 3
  MaxCommands = 2
  f1 = f1
  f2 = f2
  Files <- MCFiles
  Payloads <- MCPayloads
INVARIANTS TypeOK SessionSound CrashKeepsList UntouchedSurvive HalfSavedSparesOthers
SYMMETRY Twins
CHECK_DEADLOCK FALSE
