SPECIFICATION PoolSpec
CONSTANTS
    Handlers = {h1, h2}
    Clouds = {"aws", "azure", "gcp"}
    Zones = {z1, z2}
    Home = z1
    Counts = {0, 1, 2}
    Settings <- Caps
    Unset = Unset
    ProviderMax = 3
    Quiet = {"aws", "gcp"}
    MaxChanges = 2
SYMMETRY Symmetry
INVARIANT PoolTypeOK
PROPERTIES GuardsHold OthersKept
