CONSTANTS
    Thread = {t1, t2, t3}
    Open = {o1, o2, o3}
    NoOpen = NoOpen
    MaxPendingFds = 2
SPECIFICATION Spec
INVARIANTS HandleMeansItsOpen RequestsReachable
SYMMETRY Perms
CHECK_DEADLOCK FALSE
