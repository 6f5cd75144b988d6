CONSTANTS
  NSizesMax = 3
  Size <- MCSize
SPECIFICATION Spec
INVARIANT TypeOK
INVARIANT Partition
INVARIANT BitsTellUse
INVARIANT Coalesced
PROPERTY ImplementsPageAllocator
