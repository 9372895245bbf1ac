SPECIFICATION FairSpec
CONSTANTS
    Blocks = {b1, b2}
    Names = {x1, x2}
    Tries = 2
    PageSize = 2
    MaxRuns = 6
INVARIANTS SuccessIsEarned IgnoredFailuresAreHarmless LastStatusIsOutcome OneRunShowsOutcome
PROPERTIES BlockEnds
