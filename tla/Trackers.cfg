CONSTANTS
    Thread = {a, b}
    Op = {o1, o2, o3}
    Slot = {s1, s2}
    Kinds = {"IN","OUT"}
    QLen = 1
    NoOp = NoOp
    NoSlot = NoSlot
    NoThread = NoThread
SPECIFICATION Spec
INVARIANTS TaggedOrder CompletionsKept
SYMMETRY Perms
CHECK_DEADLOCK FALSE
