SPECIFICATION Spec
CONSTANTS
    Files = {a, b, c}
    Missing = {}
    NoSave = NoSave
    NoRequest = NoRequest
    Programs <- MCPrograms
    StaticEdges = 4
    MixedEdges = 0
    OtherKinds = {}
    EditedEdges = 0
    MaxDepths = {9}
    Searches = 2
SYMMETRY Symmetry
INVARIANTS OnlyNonCyclicSkipped
