SPECIFICATION Spec
CONSTANTS
    Tables <- McTables
    Handlers <- McHandlers
    Programs <- McPrograms
    TlbEntries = 2
    GenMax = 1
    CacheLines = 2
    BusTimeout = 4
    FetchTimeout = 4
PROPERTY ImplementsIsa SwitchFlushes
PROPERTY KeepsCommitting InterruptsTaken
INVARIANT CacheAgrees TlbAgrees
