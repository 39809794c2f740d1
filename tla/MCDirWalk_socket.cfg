CONSTANTS
    Volumes <- MCSocketVolumes
    Unreadable = {}
    NotGiven = NotGiven
    MaxSteps = 8
    NoFsi = NoFsi
    NoData = NoData
SPECIFICATION Spec
INVARIANT DirListOnlyDirectories
