SPECIFICATION WasiSpec
CONSTANTS
    Threads = {t1, t2}
    Fds = {0, 1, 2, 3, 4, 5}
    Named = {2, 3, 4}
    Picks = {2, 4}
    Numbers = {0, 1, 2, 3, 4, 5}
    DirCount = 1
    StdType = "socket"
    Width = 8
    Requests <- MCRequests
    Opened = {"file"}
    MaxLost = 1
    NULL = NULL
    MaxFds = 2
    MaxPaths = 3
    MaxExpansions = 5
SYMMETRY ThreadSymmetry
INVARIANTS FdTypeOK RefcountExact  Resolved
 
CHECK_DEADLOCK FALSE
