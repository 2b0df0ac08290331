SPECIFICATION FairCheckerSpec

CONSTANTS
    e1 = e1
    e2 = e2
    e3 = e3
    Endpoints <- MCEndpoints
    InitialEndpoints <- MCInitialEndpoints
    SuccessThreshold = 2
    FailureThreshold = 2
    MaxConcurrentProbes = 2

INVARIANTS
    CheckerTypeOK
    HealthFollowsRuns
    PickerKnowsAtRest

PROPERTIES
    OnlyRunsChangeHealth
    VerdictsAreFresh
    RunReturns
