SPECIFICATION Spec
CONSTANTS
    Handlers = {h1, h2}
    Clouds = {"aws", "azure", "gcp"}
    PVs = {pv1}
    NoPV = NoPV
    AllowSkip = TRUE
    MaxAge = 1
    Skew = 1
    MaxTime = 2
    MaxDisks = 2
    MaxSnapshots = 2
    Quiet = {"azure", "gcp"}
SYMMETRY Symmetry
INVARIANT TypeOK
PROPERTIES OnlyNamedVolume NothingLost
