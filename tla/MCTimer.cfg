SPECIFICATION Spec
CONSTANTS
    Intervals = {0, 1, 2, 3}
    Advances = {0, 1, 2}
    SampleInterval = 2
INVARIANTS
    TypeOK
    FlagIsBehind
    DueAfterSample
PROPERTIES
    OnTime
    ArmedFires
