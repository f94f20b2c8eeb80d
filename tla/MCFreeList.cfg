CONSTANTS
  DiskBlocks = 7
  FirstData = 2
  EndData = 6
  Cap = 2
  Payloads <- MCPayloads
SPECIFICATION Spec
INVARIANTS TypeOK ChainIntact FreePartition
PROPERTIES HeldDataUntouched PoolSpec FormatFreesAll
