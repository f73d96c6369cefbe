SPECIFICATION FairSpec
CONSTANTS
    Callers = {c1, c2}
    AgentIDs = {a1, a2}
    Machines = {m1}
    Versions = {v1, v2}
    EventIDs = {e1, e2}
    Bodies = {b1, b2}
    MaxRevision = 2
    None = None
INVARIANTS
    PolicyAudited
PROPERTIES
    Contract
    EveryCallReturns
