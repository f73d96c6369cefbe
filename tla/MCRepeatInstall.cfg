SPECIFICATION Spec
CONSTANTS
    MaxVersion = 1
    MaxPort = 2
    AllowDowngrade = FALSE
    UserGroups = TRUE
    MaxInstalls = 2
    MaxFaults = 0
    None = None
INVARIANTS
    RepeatCompletes
