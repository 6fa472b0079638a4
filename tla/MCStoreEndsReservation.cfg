SPECIFICATION Spec
CONSTANTS
    Tables <- McTables
    Handlers <- McHandlers
    Programs <- StoreInReservationOnly
    TlbEntries = 2
    GenMax = 1
    CacheLines = 2
    FetchLines = 2
    BusTimeout = 4
    FetchTimeout = 4
PROPERTY StoreEndsReservation
