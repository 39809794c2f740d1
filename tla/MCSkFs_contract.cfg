CONSTANTS
    Files <- MCFiles
    Walkers <- MCWalkers
    Null = Null
    Wild = Wild
    Garbage = {Null}
    InitFaults = FALSE
    LookupFaults = TRUE
    Contract = TRUE
SPECIFICATION Spec
INVARIANT TypeOK NoUseAfterFree NoLeak
CHECK_DEADLOCK FALSE
