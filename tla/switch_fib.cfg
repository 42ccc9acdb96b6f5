SPECIFICATION FibSpec
CONSTANTS
    Horizon = 3
    Prefix <- Nested
    Port = {1, 2}
    Hash <- FourHashes
    Lease = {0, 1, 2}
INVARIANTS
    FibLookupIsLongest
