SPECIFICATION Spec
CONSTANTS
    MaxVersion = 2
    MaxPort = 2
    AllowDowngrade = FALSE
    UserGroups = TRUE
    MaxInstalls = 3
    MaxFaults = 2
    None = None
INVARIANTS
    JournalCoversHost
    RollbackRestores
    AccountsKept
