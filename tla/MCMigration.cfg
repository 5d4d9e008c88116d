SPECIFICATION ImagesSpec
CONSTANTS
    PoolSize = 4
    MaxSize = 2
    MaxBlocks = 2
    Bases = {8}
    MaxGen = 2
    NumFrames = 2
    NumBlocks = 2
    MaxCheckpoints = 3
    CacheSize = 3
    MaxCount = 2
    MaxList = 2
INVARIANTS ImagesTypeOK ImageExact GraphRestored NoRestoreError
           KilledDetectable CompletedRestorable FieldsRestored RecordsAligned
PROPERTY LocalRestored
CHECK_DEADLOCK FALSE
VIEW View
