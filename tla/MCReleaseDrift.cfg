SPECIFICATION Spec
CONSTANTS
    Packages = {p}
    MaxCommits = 2
PROPERTIES IssueTellsDrift
CHECK_DEADLOCK FALSE
