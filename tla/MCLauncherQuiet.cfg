CONSTANTS
    sa = sa
    sb = sb
    u1 = u1
    u2 = u2
    none = none
    cam = cam
    lidar = lidar
    Services <- MCOneService
    UserSets <- MCUserSets
    NoUsers = none
    Versions <- MCVersions
    ServiceDevices <- MCServiceDevices
    ResourcesValid = TRUE
    DownloadMayFail = TRUE
    MonitorMayFail = TRUE
    SystemdMayFail = TRUE
    MaxQueue <- MCMaxQueue
    TTLExpires = TRUE
    StateUpdates = TRUE
    MaxRestarts = 0
    RestartKinds = {"crash"}
    DeviceNames <- MCDeviceNames
    Declared <- MCDeclared
    Substr <- MCSubstr
SPECIFICATION Spec
INVARIANT InstalledServicesHaveUnits
