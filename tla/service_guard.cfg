SPECIFICATION ServiceSpec
CONSTANTS
    Horizon = 6
    Prefix <- OnePrefix
    Port = {1, 2}
    Generation = {1, 2}
    GenerationGuard = TRUE
    ControllerDelay = 1
    LegDelay <- NoDelays
    LegJitter <- OneJitter
    ExtraDelay <- SlowFirst
    LossRate <- AllRandom
    DropFirstN <- NoDelays
    Expiry = {0, 3}
    MaxSubmissions = 3
INVARIANTS
    AckedWasInstalled
    InstallsInOrder
CHECK_DEADLOCK FALSE
