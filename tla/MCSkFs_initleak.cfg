CONSTANTS
    Files <- MCFiles
    Walkers <- MCWalkers
    Null = Null
    Wild = Wild
    Garbage = {Null}
    InitFaults = TRUE
    LookupFaults = TRUE
    Contract = TRUE
SPECIFICATION Spec
INVARIANT NoLeak
CHECK_DEADLOCK FALSE
