CONSTANTS
  root = root
  n1 = n1
  n2 = n2
  n3 = n3
  n4 = n4
  n5 = n5
  Inode <- MCInode
  Root <- root
  Names <- MCNames
  TooLong <- MCTooLong
  Paths = {}
  Data <- MCData
  BlocksOf <- MCBlocksOf
  TooLarge <- MCTooLarge
  PerBlock = 2
  Blocks = 5
  Hosts <- MCHosts
  Options <- MCOptions
  Types <- MCTypes
  Matching <- MCMatches
  Words <- MCWords
  Rules <- MCRules
  MaxWords = 4
SPECIFICATION MakeSpec
INVARIANTS AcceptsValid BuiltFaithfully NothingElse
SYMMETRY MCSymmetry
