SPECIFICATION Spec
CONSTANTS
    Drivers <- MCDrivers
    Locations <- MCLocations
    Paths <- MCPaths
    Files <- MCFiles
    DeviceCount = 2
    MountCount = 3
    OpenMax = 2
INVARIANTS
    TypeOK
    OpenedInPlace
PROPERTIES
    ResolvesToDeepest
    OpenReturns
