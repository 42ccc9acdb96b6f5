SPECIFICATION Spec
CONSTANTS
    Horizon = 12
    Prefix <- OnePrefix
    Port = {1, 2}
    Generation = {1, 2}
    GenerationGuard = FALSE
    ControllerDelay = 1
    LegDelay <- AllDelays
    LegJitter <- NoDelays
    ExtraDelay <- NoExtraDelay
    LossRate <- AllRandom
    DropFirstN <- NoDrops
    EntryLifetime = 0
    RetryTimeout = 2
    RetryLimit = 2
    FlowKey <- OwnKey
    Ttl = {6}
    InputUntil = 5
PROPERTIES
    MakeBeforeBreak
