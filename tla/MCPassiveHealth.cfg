SPECIFICATION PassiveSpec

CONSTANTS
    e1 = e1
    r1 = r1
    r2 = r2
    r3 = r3
    NoEndpoint = NoEndpoint
    Endpoints <- MCEndpoints
    InitialEndpoints <- MCEndpoints
    Requests <- MCRequests
    EjectionThreshold = 2
    EjectionDuration = 2
    Addresses <- MCAddresses
    FirstAddress = 0
    Generations <- MCGenerations
    FirstGeneration = 0

INVARIANTS
    PassiveTypeOK
    EjectedHearsNobody

PROPERTIES
    EjectionRunsItsCourse
    ImplementsContract

SYMMETRY MCSymmetry
