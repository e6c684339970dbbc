SPECIFICATION Spec
CONSTANTS
    Handlers = {h1, h2}
    Clouds = {"aws", "azure", "gcp"}
    TagKeepers = {"aws"}
    Points = {0, 1, 2}
    Strangers = {1}
    Retentions = {0, 1}
    MaxTime = 2
SYMMETRY Symmetry
INVARIANT TypeOK
PROPERTIES ExistingUntouched DoneMeansRestored RestoreRecognised
