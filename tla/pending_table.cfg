SPECIFICATION EngineSpec
CONSTANTS
    Horizon = 4
    Prefix <- OneMobile
    Port = {2, 32, 33}
    Generation = {1}
    GenerationGuard = TRUE
    ControllerDelay = 1
    LegDelay <- NoDelays
    LegJitter <- NoDelays
    ExtraDelay <- NoExtraDelay
    LossRate <- NoLoss
    DropFirstN <- NoDrops
    EntryLifetime = 0
    RetryTimeout = 0
    RetryLimit = 2
    FlowKey <- HashKey
    Ttl = {3}
    InputUntil = 2
    Hash <- ComponentHash
    Name <- ContentNames
    Nonce = {1, 2}
    NonceFrom <- AllNonces
    InterestLifetime = {1, 2}
    DataName <- ContentData
    CsCapacity = 1
    StatefulDelay = 1
    EnableTemporaryFib = TRUE
    EnableReforwarding = TRUE
    ReforwardingLimit = 1
    StaticFib <- RvRoute
    SeqComponent <- Seq2
    InterestFrom <- FromAskers
    DataFrom <- FromProducer
    MaxPackets = 4
PROPERTIES
    DataAnswersAllAskers
CHECK_DEADLOCK FALSE
