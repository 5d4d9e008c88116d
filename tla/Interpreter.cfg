SPECIFICATION InterpreterSpec
CONSTANTS
    Word = 16
    PageBytes = 4
    MaxPages = 4
    InitPages = {0, 1}
    Increments = {0, 1, 2, 15}
    GlobalBases = {100, 200}
    Globals = {0, 4}
    Garbage = {0, 7}
    MaxDepth = 3
    MaxGen = 2
    CacheSize = 4
    Depth = 2
    Bases = {20, 24, 30}
    CodeWord = 1024
    ElseLess = FALSE
    MaxFlowGen = 2
INVARIANTS InterpreterTypeOK LabelsNested CacheRight LinearMemSizeExact
PROPERTIES StructuredFlow MemoryNeverShrinks
