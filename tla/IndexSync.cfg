SPECIFICATION Spec
CONSTANTS
    Paths <- MCPaths
    Files <- MCFiles
    StoredPath <- MCStoredPath
    Units <- MCUnits
    FileOf <- MCFileOf
    Codes = {c1, c2}
    Docs = {"d1"}
    Workers = {w1, w2}
    BatchSize = 1
    None = None
    MaxChanges = 1
    MaxFaults = 1
    MaxSyncs = 2
CHECK_DEADLOCK FALSE
SYMMETRY Symmetry
INVARIANTS
    TypeOK
    VectorMatchesRow
    SummaryMatchesCode
    SyncedIsCurrent
PROPERTIES
    MirrorsDisk
