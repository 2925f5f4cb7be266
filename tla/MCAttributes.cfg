\* Attributes and buckets: two names on one level, two attribute names, any
\* leftover in a directory's xattr_num, two builds with their own block size.
SPECIFICATION Spec
CONSTANTS
  Names = {a}
  MaxDepth = 1
  AttrNames = {n1, n2}
  AttrVals = {v}
  Uninit <- SomeInts
  BlockSizes = {k1, k2}
  MaxBuckets = 2
  MaxAttrs = 2
  Junk = Junk
  NoStats = NoStats
INVARIANTS  FileXattrsOK
PROPERTY AttrsKept
