SPECIFICATION Spec
CONSTANTS
    Horizon = 14
    Prefix <- OnePrefix
    Port = {1, 2}
    Generation = {1, 2}
    GenerationGuard = TRUE
    ControllerDelay = 1
    LegDelay <- NoDelays
    LegJitter <- OneJitter
    ExtraDelay <- NoExtraDelay
    LossRate <- AckLoss
    DropFirstN <- OneDropEach
    EntryLifetime = 0
    RetryTimeout = 2
    RetryLimit = 3
    FlowKey <- OwnKey
    Ttl = {0}
    InputUntil = 2
PROPERTIES
    NewestIsInstalled
    PendingResolves
