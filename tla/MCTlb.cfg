SPECIFICATION Spec
CONSTANTS
    NIdx = 2
    Ram <- MCRam
    Pages <- MCPages
    MemChoices <- MCMemory
    PteChoices <- MCUnmap
    RootChoices <- MCRootChoices
    TlbSize = 2
INVARIANTS
    TypeOK
    EntriesSound
    UserSeesUserEntries
    OutcomeAllowed
PROPERTY
    Transparent
