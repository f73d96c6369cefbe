SPECIFICATION FairSpec
CONSTANTS
    cycle = cycle
    feed = feed
    Handles = {cycle, feed}
    Detectors = {}
    GatewayEvents = {}
    Events <- AgentEvents
    Names = {1, 2, 3}
    maxQueueEntries = 3
    BatchLimit = 2
    MaxChanges = 0
    MaxFaults = 0
    Absent = Absent
    Torn = Torn
    None = None
PROPERTIES
    RecoveryDrains
