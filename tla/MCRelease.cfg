SPECIFICATION Spec
CONSTANTS
    Packages = {p}
    MaxCommits = 2
INVARIANTS TypeOK NoOrphans TagsCarryVersion DoneIsWhole NoSilentSkip
PROPERTIES LatestKeeps FullRunRepairs 
CHECK_DEADLOCK FALSE
