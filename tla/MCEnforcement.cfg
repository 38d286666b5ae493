SPECIFICATION Spec
CONSTANTS
    None = None
    IdOrder <- MCIdOrder
    AdapterEngine <- MCAdapterEngine
    Catalogue <- MCCatalogue
    Sources <- MCSources
    Queries <- MCQueries
    Artifacts = {"good", "bad"}
    Entries <- MCEntries
    Engines = {"opa", "conftest"}
    PolicyEngine <- MCPolicyEngine
    PolicyTexts <- MCPolicyTexts
    FixturePlaces <- MCFixturePlaces
    MaxEntries = 3
INVARIANTS
    CleanIntegrityPredictsValidate
    UnenforceableNeverPasses
    GreenHarnessIsEarned
PROPERTY
    NewEntryDisturbsNoBinding
