CONSTANTS
    Files <- MCFiles
    Walkers <- MCWalkers
    Null = Null
    Wild = Wild
    Garbage = {Null}
    InitFaults = FALSE
    LookupFaults = TRUE
    Contract = FALSE
SPECIFICATION Spec
INVARIANT NoUseAfterFree
CHECK_DEADLOCK FALSE
