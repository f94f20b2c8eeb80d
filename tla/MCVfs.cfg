CONSTANTS
  root = root
  n1 = n1
  n2 = n2
  n3 = n3
  Inode <- MCInode
  Root <- root
  Names <- MCNames
  TooLong = {}
  Paths <- MCPaths
  Data <- MCData
  BlocksOf <- MCBlocksOf
  TooLarge = {}
  PerBlock = 2
  Blocks = 3
SYMMETRY MCSymmetry
SPECIFICATION Spec
INVARIANTS TypeOK EntriesSound NoInodeLeaked CwdOnTree BlocksBalance
PROPERTIES FailureLosesNothing FailureIsClean OnlyRmLosesContents
