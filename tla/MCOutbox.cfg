SPECIFICATION FairSpec
CONSTANTS
    Events = {e1, e2, e3}
    Names <- FileNames
    MaxEvents = 2
    FlushLimit = 2
    SocketSize = 1
    MaxFaults = 2
    Absent = Absent
    Torn = Torn
    Run = Run
    Free = Free
INVARIANTS
    EmittedAccounted
    OutboxBounded
    RunStopsOnlyOnFault
    ForwardedOnce
PROPERTIES
    DrainsUnlessStopped
