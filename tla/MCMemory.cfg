\* Five blocks of two bytes, descriptors of one, requests of one byte, which
\* fills a block, and of two.  Nothing is left to do once a call hangs or faults.
SPECIFICATION Spec
CHECK_DEADLOCK FALSE
CONSTANTS
  HeapBlocks = 5
  Requests = {1, 2}
  BlockSize = 2
  DescSize = 1
VIEW LivePart
INVARIANT TypeOK
INVARIANT SoundUntilMisplaced
 
