CONSTANTS
  LastInode = 6
  InodeCap = 3
SPECIFICATION Spec
PROPERTIES AllocReturnsFreeInode
