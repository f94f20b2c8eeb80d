CONSTANTS
  root = root
  n1 = n1
  n2 = n2
  n3 = n3
  Inode <- MCInode
  Root <- root
  Names <- MCNames
  TooLong = {}
  Paths <- MCTreePaths
  Data <- MCTreeData
  BlocksOf <- MCTreeBlocksOf
  TooLarge <- MCTreeTooLarge
  PerBlock = 2
  Blocks = 3
SYMMETRY MCSymmetry
SPECIFICATION Spec
PROPERTIES TreeSpec
