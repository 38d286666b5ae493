SPECIFICATION Spec
CONSTANTS
    None = None
    IdOrder <- MCIdOrder
    Slots <- MCSlots
    Scopes <- MCScopes
    Configs <- MCConfigs
INVARIANTS
    EveryPairDecidedOnce
    DecisionsAcyclic
    UnbeatenIsStrictest
PROPERTY
    SourceOrderIrrelevant
