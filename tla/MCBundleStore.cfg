SPECIFICATION Spec
CONSTANTS
    None = None
    Bundles <- MCBundles
    Readers = {r1}
    UnknownId = "b0"
    KeyError = KeyError
INVARIANTS
    IInv
    LatestNeverFails
    LatestIsCurrent
    OrderListsVersionsOnce
PROPERTY
    KeepsHistory
