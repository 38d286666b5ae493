SPECIFICATION CallFairSpec
CONSTANTS
    None = None
    IdOrder <- MCIdOrder
    AdapterEngine <- MCAdapterEngine
    Reloaders = {refresher}
    Refreshers = {refresher}
    Clients = {c1}
    Ops = {"get_constraints", "describe_scope", "validate"}
    Disks <- ServiceDisks
    Scopes <- MCScopes
    BadScope = BadScope
    Artifacts = {"good", "bad"}
    UnknownVersion = UnknownVersion
    HasConfigPath = TRUE
    MaxEdits = 1
INVARIANTS
    TypeOK
    SnapshotCoherent
    PinnedGuidanceRepeats
PROPERTIES
    AnswerNotOlderThanCall
    PassIsEarned
    EveryCallAnswered
