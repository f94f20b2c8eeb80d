CONSTANTS
  Files = {f1}
  Zone <- MCDeepZone
  Direct = 2
  Indirect = 2
  Secondary = 2
  Entries = 2
  MaxSize = 14
  Choice <- MCChoice
  ReuseDamaged = FALSE
SPECIFICATION Spec
INVARIANTS ReadBack
