CONSTANTS
  Files = {f1, f2}
  Zone = {1, 2, 3, 4, 5, 6, 7}
  Direct = 1
  Indirect = 1
  Secondary = 1
  Entries = 2
  MaxSize = 4
  Choice <- MCChoice
  ReuseDamaged = TRUE
SPECIFICATION Spec
INVARIANTS BootSectorKept
