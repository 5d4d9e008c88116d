SPECIFICATION ReallocSpec
CONSTANTS
    HeapSize = 15
    MaxNormal = 5
    HeapBases = {100}
    MoveListed = FALSE
    MaxRealloc = 2
INVARIANT PinuseRight
