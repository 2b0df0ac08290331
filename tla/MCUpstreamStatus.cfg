SPECIFICATION Spec

CONSTANTS
    e1 = e1
    r1 = r1
    r2 = r2
    NoEndpoint = NoEndpoint
    Endpoints <- MCEndpoints
    InitialEndpoints <- MCEndpoints
    Requests <- MCRequests
    CircuitThreshold = 1
    OpenTimeout = 1
    EjectionThreshold = 2
    EjectionDuration = 1
    Addresses <- MCAddresses
    FirstAddress = 0
    Generations <- MCGenerations
    FirstGeneration = 0
    MaxAttempts = 2

INVARIANTS
    FailsClosedWith503
