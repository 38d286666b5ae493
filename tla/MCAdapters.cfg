SPECIFICATION Spec
CONSTANTS
    None = None
    MaxRuns = 2
    MaxResults = 2
    Evaluations = {e1, e2}
    Denials = {0, 1}
    SarifDocs <- MCSarifDocs
    MinLevel = "warning"
    MaxChanges = 1
    NotJson = NotJson
    NoFile = NoFile
    EmptyObject = EmptyObject
    OddObject = OddObject
    NotAnObject = NotAnObject
INVARIANTS
    IInv
    NothingLeftBehind
PROPERTY
    VerdictIsWhatItsToolReported
