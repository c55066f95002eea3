\* A binary tree of depth three, one direct update, three writes beside a copy.
CONSTANTS
  arity = 2
  depth = 3
  zeroValue = 0
  MaxUpdates = 1
  MaxShared = 3
SPECIFICATION SpecTree
INVARIANTS
  RootOfLeaves
  ProofsVerify
CHECK_DEADLOCK FALSE
