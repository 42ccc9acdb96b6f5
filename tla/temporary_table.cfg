SPECIFICATION ReferenceSpec
CONSTANTS
    Horizon = 3
    Prefix <- NameTree
    Port = {1, 2}
    Lifetimes = {1, 2}
INVARIANTS
    LookupIsLongestLive
