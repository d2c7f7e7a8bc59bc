SPECIFICATION Spec
CONSTANTS
    Files = {a, b, c, d}
    Missing = {}
    NoFile = NoFile
    StatementKinds = {"import"}
    MaxStatements = 2
    OneStatementEach = TRUE
    EditedKinds = {}
    EditedTargets = {}
    MaxVersion = 1
    ClearsOnEdit = FALSE
    Programs <- MCPrograms
    EditedTexts <- MCEditedTexts
SYMMETRY Symmetry
INVARIANTS TypeOK IndexClosed IndexExact NonCyclicSound
PROPERTIES ImplementsOracle
