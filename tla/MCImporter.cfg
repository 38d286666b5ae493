SPECIFICATION Spec
CONSTANTS
    None = None
    IdOrder <- MCIdOrder
    Paths = {"p", "q"}
    Files = {1, 2}
    Constraints <- MCConstraints
    Configs <- MCConfigs
    Absent = Absent
    Invalid = Invalid
    Raising = Raising
    MaxEdits = 1
INVARIANTS
    IInv
    IdsUniqueWithinSource
    EveryFileAccountedFor
    QuietImportIsExact
