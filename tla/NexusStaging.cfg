SPECIFICATION FairSpec
CONSTANTS
    c1 = c1
    c2 = c2
    Clients = {c1, c2}
    Repos = {r1, r2}
    Groups <- TheGroups
    GroupOf <- TheGroupOf
    StartsWith <- TheStartsWith
    ArtifactOf <- TheArtifactOf
    NoRepo = NoRepo
    NoClient = NoClient
    Retries = 2
    MaxSteps = 2
INVARIANTS CreatedIsOwn UploadIsComplete ClosedWhenOk
PROPERTIES StepEnds
