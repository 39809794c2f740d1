\* Open a driver by a name no driver has: the KeyError exit keeps the
\* options list allocated.
CONSTANTS
    Drivers = {"standard", "advanced", "sgzip", "ewf"}
    DriverArgs <- MCAnyDriver
    OptionArgs <- MCOptionArgs
    ConstructFails = TRUE
    SourceSize = 4
    LenArgs <- MCLenArgs
    IntWidth = 4
    MaxLive = 2
    Missing = Missing
    NotString = NotString
SPECIFICATION Spec
INVARIANT OptionsOwned
