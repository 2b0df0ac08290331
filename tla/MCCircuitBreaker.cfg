SPECIFICATION FairSpec

CONSTANTS
    r1 = r1
    r2 = r2
    r3 = r3
    Requests <- MCRequests
    FailureThreshold = 2
    OpenTimeout = 2
    Generations <- MCGenerations
    FirstGeneration = 0

INVARIANTS
    TypeOK
    PermitsMatchState

PROPERTIES
    ImplementsContract
    ProbeResolves
    HealsWithUpstream
