CONSTANTS
    Main = Main
    Children = {c1, c2}
    MaxThreads = 2
    None = None
    NULL = NULL
    Agents = {t1, t2, t3}
    Addresses = {a}
    Infos = {i1, i2, i3, i4}
    Counts = {0, 1, 2}
    MaxOps = 1
    MaxStores = 1
SPECIFICATION SharedSpec
INVARIANTS SharedTypeOK AuxStackExclusive  
           ClusterOutlivesThreads WaitResult
PROPERTIES CreateReturns 
CHECK_DEADLOCK FALSE
