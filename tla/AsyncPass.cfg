CONSTANTS
    Families <- MCPrograms
    Hash <- MCHash
SPECIFICATION PassSpec
INVARIANTS
    DescriptorSaysIt
    StopsExactly
    CallsReachBodies
    AnnotationsAccounted
    StartupSettles
