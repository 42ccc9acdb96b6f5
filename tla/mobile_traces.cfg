SPECIFICATION TracesSpec
CONSTANTS
    Horizon = 16
    TraceLifetime = 2
    RefreshIntervals = {0, 2, 3}
    TraceDelay = 1
    AnswerDelay = {1, 3}
    MaxMisses = 5
    MaxAssociations = 2
    AssociateUntil = 7
INVARIANTS
    OneTraceChain
    NewestTraceIsWatched
    SilenceIsEarned
PROPERTIES
    AssociationIsAnswered
    StoppedMobileFallsSilent
CHECK_DEADLOCK FALSE
