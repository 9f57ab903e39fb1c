SPECIFICATION Spec
CONSTANTS
    Paths <- LinkPaths
    Files <- LinkFiles
    StoredPath <- LinkStoredPath
    Units <- LinkUnits
    FileOf <- LinkFileOf
    Codes = {c1, c2}
    Docs = {"d1", "d2"}
    Workers = {w1, w2}
    BatchSize = 1
    None = None
    MaxChanges = 1
    MaxFaults = 0
    MaxSyncs = 2
CHECK_DEADLOCK FALSE
INVARIANT SyncedVectorsCurrent
