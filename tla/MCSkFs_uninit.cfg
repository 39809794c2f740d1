CONSTANTS
    Files <- MCFiles
    Walkers <- MCWalkers
    Null = Null
    Wild = Wild
    Garbage = {Null, Wild}
    InitFaults = FALSE
    LookupFaults = TRUE
    Contract = TRUE
SPECIFICATION Spec
INVARIANT NoUseAfterFree
CHECK_DEADLOCK FALSE
