SPECIFICATION FairSpec
CONSTANTS
    Builds = 3
    SetupTries = 3
INVARIANTS NoClusterLeft BeatIsStopped ArchivedAsAsked
PROPERTIES BuildEnds
