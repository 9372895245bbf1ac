SPECIFICATION GitSpec
CONSTANTS
    Builds = {b1, b2}
    Lanes = {l1, l2}
    MaxCommits = 2
    MaxSteps <- MCMaxSteps
    StartedBy <- MCStartedBy
SYMMETRY Symmetry
INVARIANTS TagIsBuilt UnapprovedStops
PROPERTIES SkippedWasRun
