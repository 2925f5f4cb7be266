\* The tree: two names, two levels, no attributes, files of at most one bucket.
SPECIFICATION Spec
CONSTANTS
  Names = {a, b}
  MaxDepth = 2
  AttrNames = {}
  AttrVals = {}
  Uninit = {0}
  BlockSizes = {k1}
  MaxBuckets = 1
  MaxAttrs = 0
  Junk = Junk
  NoStats = NoStats
SYMMETRY NameSymmetry
INVARIANTS TypeOK DirectoryIndexOK
PROPERTY TreeRefined
