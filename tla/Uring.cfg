CONSTANTS
    User = {c1, c2, c3, r1}
    NoUser = NoUser
    MaxInflight = 2
    Thread = {t1, t2}
    Call = {c1, c2, c3}
    Profiles <- MCProfiles
    Read = {r1}
SPECIFICATION Spec
INVARIANTS OwnAnswer SlotsAccounted WaitsForKernel
PROPERTY OnlyExplicitFill
SYMMETRY Perms
