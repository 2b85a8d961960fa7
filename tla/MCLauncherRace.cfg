CONSTANTS
    sa = sa
    sb = sb
    u1 = u1
    u2 = u2
    none = none
    cam = cam
    lidar = lidar
    Services <- MCOneService
    UserSets <- MCUserSets
    NoUsers = none
    Versions <- MCVersions
    ServiceDevices <- MCServiceDevices
    ResourcesValid = TRUE
    DownloadMayFail = TRUE
    MonitorMayFail = FALSE
    SystemdMayFail = FALSE
    MaxQueue <- MCMaxQueue
    TTLExpires = FALSE
    StateUpdates = FALSE
    MaxRestarts = 0
    RestartKinds = {"crash"}
    DeviceNames <- MCDeviceNames
    Declared <- MCDeclared
    Substr <- MCSubstr
SPECIFICATION Spec
INVARIANT ServicesOfCurrentUsersOnly
