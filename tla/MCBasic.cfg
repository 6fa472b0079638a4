SPECIFICATION Spec
CONSTANTS
    Tables <- McTables
    Handlers <- McHandlers
    Programs <- McPrograms
    TlbEntries = 2
    GenMax = 1
    BusTimeout = 3
PROPERTY ImplementsIsa SwitchFlushes
PROPERTY KeepsCommitting InterruptsTaken
