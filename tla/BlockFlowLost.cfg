SPECIFICATION Spec
CONSTANTS
    Body <- MCBody
    CacheSize = 4
    Depth = 2
    Bases = {20, 24, 30}
    CodeWord = 1024
    ElseLess = TRUE
    MaxFlowGen = 1
PROPERTY StructuredFlow
CHECK_DEADLOCK FALSE
