SPECIFICATION Spec
CONSTANTS
    Files = {a, b, c, m}
    Missing = {m}
    NoFile = NoFile
    StatementKinds = {"export"}
    MaxStatements = 2
    OneStatementEach = TRUE
    EditedKinds = {"import", "exportType", "dynamic"}
    EditedTargets = {a, b, c, NoFile}
    MaxVersion = 2
    ClearsOnEdit = TRUE
    Programs <- MCPrograms
    EditedTexts <- MCEditedTexts
SYMMETRY Symmetry
INVARIANTS IndexClosed IndexExact NonCyclicSound
PROPERTIES VerdictExact ImplementsOracle
