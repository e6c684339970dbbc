SPECIFICATION FairSpec
CONSTANTS
    Handlers = {h1, h2}
    Clouds = {"aws", "azure", "gcp"}
    Root = Root
    Data = {d1}
    Nics = {n1}
    Quiet = {"aws", "gcp"}
    Patient = {h1}
    MaxChanges = 1
INVARIANT TypeOK
PROPERTIES DeletesExactly OnlyStandalone FlagsOnly LaterExecuteDeletes
