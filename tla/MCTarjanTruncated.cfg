SPECIFICATION Spec
CONSTANTS
    Files = {a, b, c, d, e}
    StartFiles = {a}
    MaxImports = 1
    SelfImports = TRUE
    MaxDepths = {1}
    ImportLists <- MCImportLists
INVARIANTS EveryDiscoveredFileIndexed
CHECK_DEADLOCK FALSE
