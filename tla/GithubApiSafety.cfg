SPECIFICATION ApiSpec
CONSTANTS
    Branches = {b1, b2}
    Pages = {p1}
    Tags = {t1, t2}
    MaxVersion = 2
    MaxReleases = 2
    Nothing = Nothing
    Error = Error
INVARIANTS UncachedIsFresh
PROPERTIES CacheNeverGoesBack
SYMMETRY Symmetry
