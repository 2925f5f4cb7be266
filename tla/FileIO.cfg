\* Buckets of two bytes, each in a struct of one; writes of up to three bytes
\* anywhere in the first five, so that they span buckets and leave gaps.
SPECIFICATION Spec
CONSTANTS
  BlockSize = 2
  StructSize = 1
  Bytes = {x, y}
  Zero = Zero
  Junk = Junk
  MaxWrite = 3
  MaxSize = 5
  NoRead = NoRead
INVARIANTS TypeOK  WriteLands KillSafe ReadBack
 
