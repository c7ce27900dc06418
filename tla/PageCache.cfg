SPECIFICATION Spec
CONSTANTS
    t1 = t1
    t2 = t2
    f1 = f1
    f2 = f2
    f3 = f3
    f4 = f4
    Tasks = {t1, t2}
    Files = {f1, f2, f3, f4}
    Size <- MCSize
    Work <- MCWork
    Total = 8
    DirtyPart <- MCDirtyPart
INVARIANTS
    CachedAccounted
    DirtyDataIsKept
CHECK_DEADLOCK FALSE
PROPERTIES
    EverythingIsWritten
