SPECIFICATION Spec
CONSTANTS
    Word = 16
    PageBytes = 4
    MaxPages = 4
    InitPages = {0, 1}
    Increments = {0, 1, 2, 15}
    GlobalBases = {100, 200}
    Globals = {0, 4}
    Garbage = {0, 7}
    MaxDepth = 3
    MaxGen = 2
INVARIANT GlobalDataRight
CHECK_DEADLOCK FALSE
