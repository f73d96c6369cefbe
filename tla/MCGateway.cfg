SPECIFICATION GatewayFairSpec
CONSTANTS
    Events = {e1, e2}
    Names <- FileNames
    MaxEvents = 1
    FlushLimit = 1
    SocketSize = 1
    MaxFaults = 1
    Absent = Absent
    Torn = Torn
    Run = Run
    Free = Free
INVARIANTS
    AnswerTrue
PROPERTIES
    RequestsAnswered
