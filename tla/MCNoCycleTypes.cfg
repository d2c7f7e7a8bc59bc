SPECIFICATION Spec
CONSTANTS
    Files = {a, b}
    Missing = {}
    NoFile = NoFile
    StatementKinds = {"import", "importType"}
    MaxStatements = 2
    OneStatementEach = FALSE
    EditedKinds = {}
    EditedTargets = {}
    MaxVersion = 1
    ClearsOnEdit = FALSE
    Programs <- MCPrograms
    EditedTexts <- MCEditedTexts
PROPERTIES AllCyclesReported
