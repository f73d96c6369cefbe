SPECIFICATION Spec
CONSTANTS
    Paths = {1, 2, 3}
    Contents = {small, big}
    Large = {big}
    MaxFiles = 1
    MaxEvents = 1
    BadNames = {3}
    Bytes <- MCBytes
    MaxBytes = 2
    MaxGeneration = 4
    MaxChanges = 3
    None = None
INVARIANTS
    RefusalExplained
PROPERTIES
    NoSilentChange
    FreshIds
    NoFalseDeletion
