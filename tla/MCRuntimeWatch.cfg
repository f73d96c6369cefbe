SPECIFICATION Spec
CONSTANTS
    Procs <- MCProcs
    NameIdentity <- MCNameIdentity
    Ports <- MCPorts
    MaxProcesses = 2
    MaxKnown = 2
    MaxEvents = 2
    MaxPorts = 2
    Unloadable = {6}
    LostNames = {"cron"}
    Bytes <- MCBytes
    MaxBytes = 3
    MaxGeneration = 3
    MaxChanges = 3
    None = None
INVARIANTS
    RuntimeTypeOK
    EventsTellPorts
    RunningStaysKnown
PROPERTIES
    PortEventsTrue
    QuietHostSilent
    ProcessesReported
