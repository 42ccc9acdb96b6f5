SPECIFICATION RequestsSpec
CONSTANTS
    Horizon = 31
    SeqMax = 3
    SendGap = {1, 2}
    RetxTimer = 2
    InitialEstimate = 3
    MinRto = 1
    MaxRto = 8
    DataDelay = {1, 4}
    MaxLosses = 3
    StartBy = 0
    StopFrom = 20
INVARIANTS
    RequestsAccounted
    DelaysSpanTheRequest
    RetransmissionsAreTimeouts
    TimeoutIsTimely
PROPERTIES
    NoEarlyRetransmission
    SendsArePaced
    EveryRequestIsAnswered
CHECK_DEADLOCK FALSE
