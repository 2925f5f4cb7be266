\* Two workers, directories of two children on two levels, two handlers.
SPECIFICATION StepsSpec
CONSTANTS
  Names = {a, b}
  MaxDepth = 2
  AttrNames = {n1}
  AttrVals = {v}
  Uninit = {0}
  BlockSizes = {k1}
  MaxBuckets = 1
  MaxAttrs = 1
  Junk = Junk
  NoStats = NoStats
  Workers = {w1, w2}
  MaxCalls = 2
INVARIANTS OnlyTenantsClash QuietOK KillLeaves
PROPERTY Atomic
SYMMETRY StepSymmetry
