SPECIFICATION ExportedSpec
CONSTANTS
    Branches = {b1, b2}
    Ids = {i1, i2}
    Nested = {i2}
    Commits = {c1, c2}
    Unset = Unset
    Workspaces = {w1}
    Retries = 2
    MaxCalls = 2
SYMMETRY Symmetry
INVARIANTS FilesAreEarned OkIsPublished
PROPERTIES ImplementsMemo
