SPECIFICATION Spec
CONSTANTS
    NPaths = 4
    EntryPoints <- MCEntryPoints
    MaxDepth = 2
    MaxFailures = 1
INVARIANTS
    TypeOK
    MissingOnlyByDetour
