\* Seven chunks.  Caches for objects of five bytes, two in a slab of twelve,
\* which leaves room between them; a kmalloc of one byte, three in a slab of
\* six, or of two, too many for the one entry; and a table of two caches.
\* Nothing is left to do once memory has run out.
SPECIFICATION Spec
CHECK_DEADLOCK FALSE
CONSTANTS
  NumChunks = 7
  Sizes = {5}
  Requests = {1, 2}
  PageSize = 6
  MinObjects = 2
  ListSize = 2
  MinBuffer = 2
  NumBuffers = 1
  FirstObj = 1
  TableSize = 2
VIEW LivePart
INVARIANT TypeOK
INVARIANT ObjectsConserved
INVARIANT ListedByCounter
INVARIANT PagesAccounted
INVARIANT TableLive
INVARIANT InfoTellsUse
