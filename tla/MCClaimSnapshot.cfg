SPECIFICATION Spec
CONSTANTS
    None = None
    IdOrder <- MCIdOrder
    AdapterEngine <- MCAdapterEngine
    Reloaders = {refresher}
    Refreshers = {refresher}
    Clients = {c1}
    Ops = {"validate"}
    Disks <- SwapDisks
    Scopes <- MCScopes
    BadScope = BadScope
    Artifacts = {"good", "bad"}
    UnknownVersion = UnknownVersion
    HasConfigPath = TRUE
    MaxEdits = 1
PROPERTY
    LatestPassIsOfOneGeneration
