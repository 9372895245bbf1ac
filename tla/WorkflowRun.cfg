SPECIFICATION FairSpec
CONSTANTS
    Calls = {c1, c2}
    Maps = {m1, m2}
    Limit = 2
    MaxPolls = 1
    MaxInt = 2
    OtherRuns = 1
    Nobody = Nobody
INVARIANTS RunIsOwn
PROPERTIES CallEnds
