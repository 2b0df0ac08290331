SPECIFICATION Spec

CONSTANTS
    e1 = e1
    e2 = e2
    r1 = r1
    r2 = r2
    r3 = r3
    Targets <- MCTargets
    InitialTargets <- MCInitialTargets
    Lists <- MCLists
    Requests <- MCRequests

INVARIANTS
    ProxyTypeOK
    LoadIsActive

PROPERTIES
    SentWhereLeastActive

SYMMETRY MCSymmetry

