SPECIFICATION Spec
CONSTANTS
  BlockSize = 2
  StructSize = 1
  Bytes = {x, y}
  Zero = Zero
  Junk = Junk
  MaxWrite = 3
  MaxSize = 5
  NoRead = NoRead
INVARIANT NumBucketsIsCount
