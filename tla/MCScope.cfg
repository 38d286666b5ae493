SPECIFICATION Spec
CONSTANTS
    None = None
    Vals = {"aws", "gcp"}
    Catalogues <- MCCatalogues
    ValuesOf <- MCValuesOf
    Relationships <- Rels
INVARIANTS
    SameScopeSelectedTogether
    SharedArtifactMeansOverlap
    VocabularyReachesWhatItDescribes
PROPERTY
    RefinementIsMonotone
