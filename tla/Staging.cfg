CONSTANTS
    Space = 256
    Top = 42
    Pages = {4, 16, 32}
    Header = 1
    NormalBlock = 8
    MaxAlign = 4
    PowersOfTwo = {1, 2, 4, 8}
    MaxSize = 6
    WordBits = 4
    MaxAllocs = 2
    Requests <- MCRequests
    Programs <- MCPrograms
SPECIFICATION Spec
INVARIANTS
    PlacedWell
    ArgumentsRestored
    KeysAgree
