SPECIFICATION Spec
CONSTANTS
    Names <- MCNames
    MaxNodes = 4
INVARIANTS
    TypeOK
    DistinctIds
    IdShowsNesting
    IdIsLocal
