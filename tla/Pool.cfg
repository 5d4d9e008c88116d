SPECIFICATION PoolSpec
CONSTANTS
    HeapSize = 15
    MaxNormal = 5
    HeapBases = {100, 200}
    MoveListed = FALSE
    MaxRealloc = 2
    Chunks = {c1, c2, c3, c4, c5}
    TreeSizes = {1, 2, 3, 4}
    NULL = NULL
    Root = Root
    PoolSize = 5
    MaxSize = 2
    MaxBlocks = 2
    Bases = {0, 16}
INVARIANTS PoolTypeOK BoundaryTags FreeSpaceExact SearchTree
           NoFreeError RegistryMirrorsPool AbsUnique
