SPECIFICATION FairSpec
CONSTANTS
    Procs = {service, once}
    IDs = {a1, a2}
    MaxRevision = 2
    MaxAge = 2
    MaxFaults = 2
    None = None
INVARIANTS
    OneAgentPerMachine
    IdentityConsistent
PROPERTIES
    ConnectsUnlessStranded
    PolicyBackOnlyInRace
    IssuerReady
