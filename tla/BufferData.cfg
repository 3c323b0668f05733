CONSTANTS
    Call = {c1, c2, c3}
    NoCall = NoCall
    rw = rw
    ro = ro
    Obj = {rw, ro}
    ReadOnly = {ro}
    Shapes <- DataShapes
    Value = {v1, v2}
    NoData = NoData
SPECIFICATION DataSpec
INVARIANTS ReadsAsIfBlocking LoadsAsIfBlocking FlagExact
PROPERTY BlockingSpec
SYMMETRY Perms
