SPECIFICATION FairSpec

CONSTANTS
    e1 = e1
    e2 = e2
    r1 = r1
    r2 = r2
    Endpoints <- MCTwoEndpoints
    InitialEndpoints <- MCTwoEndpoints
    Requests <- MCTwoRequests
    Addresses <- MCAddresses
    FirstAddress = 0
    LogicalEndpoint = LogicalEndpoint
    NoEndpoint = NoEndpoint
    Nobody = Nobody
    Routes <- MCPassiveRoutes
    UseDNS = FALSE
    SuccessThreshold = 1
    FailureThreshold = 1
    EjectionThreshold = 1
    EjectionDuration = 1
    Generations <- MCGenerations
    FirstGeneration = 0

PROPERTIES
    ReturnsToRotation
