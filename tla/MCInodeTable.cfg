CONSTANTS
  LastInode = 6
  InodeCap = 3
SPECIFICATION Spec
INVARIANTS TypeOK TableSound
PROPERTIES FailsOnlyWhenFull OnlyRootReissued PoolSpec
