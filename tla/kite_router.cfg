SYMMETRY Symmetry
SPECIFICATION RouterSpec
CONSTANTS
    Horizon = 8
    Face = {a, b, u}
    FibNextHops = {u}
    TraceSeq = {1, 2}
    Content = {x, y}
    Nonce = {n1, n2}
    TraceLifetime = 3
    InterestLifetime = 3
    StragglerTime = 2
    ProlongTime = 2
    DoPull = TRUE
    MaxPullCnt = 2
    ProlongTrace = TRUE
    RemoveTraceOnNack = TRUE
    CsCapacity = 1
    MaxPullSends = 2
    PacketsPerInstant = 1
    MaxPackets = 5
INVARIANTS
    EntryHasOneTimer
    HopTimerIsOwned
    HopFollowsTrace
    PendingReachesHop
PROPERTIES
    PendingOutlivesTimers
CHECK_DEADLOCK FALSE
