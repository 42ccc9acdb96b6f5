SPECIFICATION MobileRouteSpec
CONSTANTS
    Horizon = 8
    TraceLifetime = 4
    RefreshIntervals = {2}
    TraceDelay = 1
    Prefix <- MobilePrefix
    Port = {1, 2}
    InitialAp = 1
    Generation <- Traces
    Attempts = 1
    UpDelay = {1, 2}
    DownDelay = {1}
    InterestDelay = {1}
    MaxLosses = 1
    MaxHandovers = 1
    HandoverUntil = 3
INVARIANTS
    RouteCatchesUp
    RouteNeverLapses
PROPERTIES
    HandoverDelayIsCausal
CHECK_DEADLOCK FALSE
