CONSTANTS
    Volumes <- MCOrderVolumes
    Unreadable <- MCUnreadable
    NotGiven = NotGiven
    MaxSteps = 9
    NoFsi = NoFsi
    NoData = NoData
SPECIFICATION Spec
INVARIANT TypeOK
INVARIANT DepthFirstOrder
INVARIANT PathsResolve
INVARIANT StreamsAsFiles
INVARIANT NoDescentIntoUnallocated
INVARIANT FaultContainment
PROPERTY WalkRefines
