CONSTANTS
    Thread = {h1, h2}
    Task = {t1}
    Join = {j1, j2}
    Buffer = {b1}
    Record = {m1, m2, m3}
    MaxMarks = 3
    None = None
SPECIFICATION FairSpec
INVARIANTS SnapshotThere GroupExact
PROPERTY PollsReturn
CHECK_DEADLOCK FALSE
