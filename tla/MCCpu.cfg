SPECIFICATION Spec
CONSTANTS
    PcSize = 4
    Targets = {0}
    Handlers = {2}
    PageFaults <- MCPageFaults
    Irqs <- MCIrqs
    FailedLoads = {3}
    CtlValues <- MCCtlValues
    MaskValues <- MCMaskValues
INVARIANTS
    TypeOK
    ExceptionNotDropped
PROPERTIES
    NoMissedIrq
    NestingDescends
    TrapFrame
    UserLeftByTrap
