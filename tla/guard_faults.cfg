SPECIFICATION Spec
CONSTANTS
    Horizon = 9
    Prefix <- OnePrefix
    Port = {1, 2}
    Generation = {1, 2}
    GenerationGuard = TRUE
    ControllerDelay = 1
    LegDelay <- NoDelays
    LegJitter <- OneJitter
    ExtraDelay <- NoExtraDelay
    LossRate <- AllRandom
    DropFirstN <- NoDrops
    EntryLifetime = 3
    RetryTimeout = 1
    RetryLimit = 2
    FlowKey <- OwnKey
    Ttl = {0, 3}
    InputUntil = 4
INVARIANTS
    TypeOK
    TemporaryRouteIsPending
    NoStaleTimer
    NoTransactionOutlivesLease
    GenerationOrder
    OneDecisionPerGeneration
    CopiesWithinBudget
PROPERTIES
    FlowFibMovesForward
    ImplementsRouteTransaction
