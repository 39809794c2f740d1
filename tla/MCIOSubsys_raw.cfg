\* Open, read and drop drivers by known names: options freed on every exit.
CONSTANTS
    Drivers = {"standard", "advanced", "sgzip", "ewf"}
    DriverArgs <- MCKnownDrivers
    OptionArgs <- MCOptionArgs
    ConstructFails = TRUE
    SourceSize = 4
    LenArgs <- MCLenArgs
    IntWidth = 4
    MaxLive = 2
    Missing = Missing
    NotString = NotString
SPECIFICATION Spec
INVARIANT OptionsOwned
