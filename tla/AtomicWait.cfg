CONSTANTS
    Agents = {t1, t2}
    Addresses = {a}
    Infos = {i1, i2, i3}
    Counts = {1}
    MaxOps = 1
    MaxStores = 0
    NULL = NULL
SPECIFICATION WaitSpec
PROPERTY CountedWakes
CHECK_DEADLOCK FALSE
