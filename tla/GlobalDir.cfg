SPECIFICATION Spec
CONSTANTS
    Procs <- MCProcs
    Names <- MCNames
    Chunks = 2
    Requests <- MCRequests
    None = None
INVARIANTS
    TypeOK
    PairIsWhole
    SettingsSurvive
    DamagedOnlyIfShared
    SetupIsEnough
