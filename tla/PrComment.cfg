SPECIFICATION Spec
CONSTANTS
    Builds = {b1, b2, b3}
    FirstId = 1
    MaxInt = 3
    PageSize = 3
    MaxComments = 4
    Others = 1
SYMMETRY Symmetry
INVARIANTS OneComment SavedIsMine EditsOwnComments
