CONSTANTS
    Volumes <- MCNtfsVolumes
    Unreadable = {}
    NotGiven = NotGiven
    MaxSteps = 6
    NoFsi = NoFsi
    NoData = NoData
SPECIFICATION Spec
INVARIANT StreamEntriesNamed
