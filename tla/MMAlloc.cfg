\* A heap of nine cells: up to three blocks, with records of two cells each.
SPECIFICATION Spec
CONSTANTS
  HeapMax = 9
  MaxSize = 4
  Values = {1}
INVARIANTS HeapOK ContentsKept
PROPERTY ReallocKeeps
CHECK_DEADLOCK FALSE
