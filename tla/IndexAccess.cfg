SPECIFICATION Spec
CONSTANTS
    Clients <- MCClients
    Tasks <- MCTasks
    ClientOf <- MCClientOf
    Calls <- MCCalls
    None = None
    MaxConfigs = 1
INVARIANTS
    TypeOK
    WriterIsAlone
    StackOutlivesCall
    ConfigTakesEffect
    NoLeakedConnection
PROPERTY CallsReturn
