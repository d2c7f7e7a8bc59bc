SPECIFICATION Spec
CONSTANTS
    Files = {a, b, c, d}
    StartFiles = {a}
    MaxImports = 2
    SelfImports = FALSE
    MaxDepths = {1, 2, 4}
    ImportLists <- MCImportLists
INVARIANTS TypeOK StackPartition LowlinkWitness ExactDecomposition
PROPERTIES ImplementsDecomposition Terminates
CHECK_DEADLOCK FALSE
