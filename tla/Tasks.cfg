CONSTANTS
    Thread = {h1, h2}
    Task = {t1, t2, t3}
    Lazy = {t1, t2}
    NoTask = NoTask
SPECIFICATION TasksSpec
INVARIANTS TablesExact StatsSeeFinished
SYMMETRY Perms
