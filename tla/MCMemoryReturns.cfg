\* Five blocks, requests of one and two, until a call does not come back.
SPECIFICATION Spec
CHECK_DEADLOCK FALSE
CONSTANTS
  HeapBlocks = 5
  Requests = {1, 2}
  BlockSize = 2
  DescSize = 1
INVARIANT Returns
