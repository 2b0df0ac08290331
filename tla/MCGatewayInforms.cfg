SPECIFICATION Spec

CONSTANTS
    Routes <- MCRoutes
    Configurations <- MCConfigurations
    Requests <- MCRequests
    NoRequest <- MCNoRequest
    Methods <- MCMethods
    UpstreamStatuses <- MCUpstreamStatuses

INVARIANT ErrorsReachClient
