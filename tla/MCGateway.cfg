SPECIFICATION Spec

CONSTANTS
    Routes <- MCRoutes
    Configurations <- MCConfigurations
    Requests <- MCRequests
    NoRequest <- MCNoRequest
    Methods <- MCMethods
    UpstreamStatuses <- MCUpstreamStatuses

INVARIANTS
    GatewayTypeOK
    MatchIsBest
    AllowIsTruthful
    StatusIsDecided
    CutShortIsAborted
