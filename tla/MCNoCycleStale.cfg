SPECIFICATION Spec
CONSTANTS
    Files = {a, b, c}
    Missing = {}
    NoFile = NoFile
    StatementKinds = {"import"}
    MaxStatements = 1
    OneStatementEach = TRUE
    EditedKinds = {"import"}
    EditedTargets = {a, b, c}
    MaxVersion = 2
    ClearsOnEdit = FALSE
    Programs <- MCPrograms
    EditedTexts <- MCEditedTexts
PROPERTIES EditedCyclesReported
