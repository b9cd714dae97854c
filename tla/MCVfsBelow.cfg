SPECIFICATION Spec
CONSTANTS
    Drivers <- RamdiskOnly
    Locations <- RamdiskLocation
    Paths <- MCPaths
    Files <- MCFiles
    DeviceCount = 2
    MountCount = 3
    OpenMax = 2
PROPERTIES
    PathsBelowResolve
