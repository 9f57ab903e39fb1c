SPECIFICATION Spec
CONSTANTS
    Runs = {1, 2, 3}
    Indexes = {"main", "other"}
    IndexOf <- MCIndexOf
    Libs = {"a", "b", "odd"}
    Odd = {"odd"}
    Classpath <- MCClasspath
    Tools = {"maven", "gradle"}
INVARIANTS
    TypeOK
    CachesItsOwnBuild
    CachedIsComplete
    RaisesOnlyIfShared
PROPERTIES
    SyncGoesOn
