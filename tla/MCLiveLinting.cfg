SPECIFICATION Spec
CONSTANTS
    s1 = s1
    s2 = s2
    a = a
    b = b
    Snippets = {s1, s2}
    Texts = {text}
    Plugins = {a, b}
    PluginsOf <- MCPluginsOf
    MaxFlights = 2
INVARIANTS TypeOK StatusIsCurrent OneWriter
PROPERTIES TogglesFlip Settles
CHECK_DEADLOCK FALSE
