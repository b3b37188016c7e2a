SPECIFICATION CfdiskSpec
CONSTANTS
    s1 = s1
    s2 = s2
    t1 = t1
    t2 = t2
    linux = linux
    swap = swap
    ext = ext
    none = none
    Sessions = {s1}
    Locking = {s1}
    InitialDisks <- AllDisks
    Sectors = 6
    Slots = 2
    Align = 2
    ChainLimit = 2
    Kinds = {linux}
    Extended = ext
    NoKind = none
    MaxEdits = 3
    MaxLosses = 1
    GptSessions = {s1, s2}
    Tables = {t1, t2}
    Junk = Junk
    GptLocking = {s1, s2}
    MaxOutages = 2
INVARIANTS
    TypeOK
    LinkedReadsBack
    CleanIsOnDisk
PROPERTIES
    EditsKeepSound
    DataUntouched
    FirstChainCommitted
    KeepsCopy
    LabelAfterTable
CHECK_DEADLOCK FALSE
