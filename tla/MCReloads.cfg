SPECIFICATION FairSpec
CONSTANTS
    None = None
    IdOrder <- MCIdOrder
    AdapterEngine <- MCAdapterEngine
    Reloaders = {refresher, admin}
    Refreshers = {refresher}
    Clients = {c1}
    Ops = {}
    Disks <- ReloadDisks
    Scopes <- MCScopes
    BadScope = BadScope
    Artifacts = {"good"}
    UnknownVersion = UnknownVersion
    HasConfigPath = TRUE
    MaxEdits = 2
INVARIANTS
    IInv
    StatusTellsServedBundle
    ReloadedBundleIsClean
    RecordOfOneConfiguration
PROPERTIES
    KeepsHistory
    ReturnedStatusIsFresh
    DiskIsEventuallyServed
