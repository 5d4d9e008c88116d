SPECIFICATION Spec
CONSTANTS
    Threads = {t1}
    Fds = {0, 1, 2, 3}
    Named = {0, 1, 2, 3}
    Picks = {}
    Numbers = {0, 1, 2, 3}
    DirCount = 1
    StdType = "tty"
    Width = 8
    Requests = {}
    Opened = {}
    MaxLost = 0
    NULL = NULL
INVARIANT NoAbort
CHECK_DEADLOCK FALSE
