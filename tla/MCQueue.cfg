SPECIFICATION QueueSpec
CONSTANTS
    Events = {e1, e2}
    Handles = {cycle, feed}
    Names = {1, 2, 3, 4}
    maxQueueEntries = 2
    BatchLimit = 2
    Absent = Absent
    Torn = Torn
SYMMETRY QueueSymmetry
INVARIANTS
    QueueTypeOK
    NothingLost
    OverrunBounded
