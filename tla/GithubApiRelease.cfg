SPECIFICATION ApiSpec
CONSTANTS
    Branches = {b1}
    Pages = {p1}
    Tags = {t1, t2}
    MaxVersion = 1
    MaxReleases = 2
    Nothing = Nothing
    Error = Error
INVARIANTS CreatedIsForItsTag
