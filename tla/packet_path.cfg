SPECIFICATION EngineSpec
CONSTANTS
    Horizon = 7
    Prefix <- OneMobile
    Port = {1, 2, 32}
    Generation = {1, 2}
    GenerationGuard = TRUE
    ControllerDelay = 1
    LegDelay <- NoDelays
    LegJitter <- NoDelays
    ExtraDelay <- NoExtraDelay
    LossRate <- AckLoss
    DropFirstN <- NoDrops
    EntryLifetime = 0
    RetryTimeout = 0
    RetryLimit = 2
    FlowKey <- HashKey
    Ttl = {3}
    InputUntil = 3
    Hash <- ComponentHash
    Name <- Names2
    Nonce = {1, 2}
    NonceFrom <- PortNonces
    InterestLifetime = {3}
    DataName <- Names2
    CsCapacity = 0
    StatefulDelay = 1
    EnableTemporaryFib = TRUE
    EnableReforwarding = TRUE
    ReforwardingLimit = 1
    StaticFib <- RvRoute
    SeqComponent <- Seq2
    InterestFrom <- FromNames
    DataFrom <- FromData
    MaxPackets = 5
INVARIANTS
    NewestSteers
    RouteFollowsTrace
    PendingReachesNewest
CHECK_DEADLOCK FALSE
