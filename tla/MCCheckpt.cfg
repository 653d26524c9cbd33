SPECIFICATION Spec
CONSTANTS
  h1 = h1
  h2 = h2
  world = world
  NULL = NULL
  Heap <- HeapOf2
  Statics <- World
  Names = {"a"}
  Forward = FALSE
  MaxId = 4
INVARIANT TypeOK
INVARIANT NeverRefuses
INVARIANT NoStalePointer
PROPERTY ImplementsObjectStore
