SPECIFICATION FairSpec
CONSTANTS
    cycle = cycle
    feed = feed
    Handles = {cycle, feed}
    Detectors = {file}
    GatewayEvents = {g1}
    Events <- AgentEvents
    Names = {1, 2, 3}
    maxQueueEntries = 2
    BatchLimit = 2
    MaxChanges = 2
    MaxFaults = 1
    Absent = Absent
    Torn = Torn
    None = None
INVARIANTS
    NoChangeLost
    OneIdPerChange
PROPERTIES
    SentIsStored
    DrainsUnlessFull
