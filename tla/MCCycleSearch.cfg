SPECIFICATION Spec
CONSTANTS
    Files = {a, b, c, d}
    Missing = {}
    NoSave = NoSave
    NoRequest = NoRequest
    Programs <- MCPrograms
    StaticEdges = 5
    MixedEdges = 3
    OtherKinds = {"importType", "dynamic"}
    EditedEdges = 3
    MaxDepths = {3}
    Searches = 2
SYMMETRY Symmetry
INVARIANTS IncrementalTypeOK IndexMatchesHashes UnchangedVerdictExact NoStalePositive CyclesAreReal DetectMissesOnlyWhenCut FindExact
PROPERTIES ImplementsIncremental
