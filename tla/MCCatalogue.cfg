SPECIFICATION ImportSpec
CONSTANTS
    None = None
    NotAMapping = NotAMapping
    NotAString = NotAString
    GraphIds <- MCGraphIds
    SlugOf <- MCSlugOf
    ProviderOf <- MCProviderOf
    Seed <- MCSeed
    CheckIds <- MCCheckIds
    ResourceSets <- MCResourceSets
    Rules <- MCRules
    Documents <- MCDocuments
    MaxItems = 3
INVARIANTS
    DamageIsLocal
    StubReachesItsResources
    LicensePolicyHolds
