CONSTANTS
    Task = {t1, t2, t3}
    k1 = k1
    k2 = k2
    Key = {k1, k2}
    Lock = {l1, l2}
    NoLock = NoLock
    NoTask = NoTask
    MaxDeps = 2
    DepLists <- SomeLists
SPECIFICATION FairSpec
INVARIANTS Exclusion CountsInStep LockNotRecycled NoOvertaking WaitsForHolder
PROPERTY EveryCallSubmitted
CHECK_DEADLOCK FALSE
