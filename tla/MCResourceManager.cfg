CONSTANTS
    s1 = s1
    s2 = s2
    s3 = s3
    lidar = lidar
    s10 = s10
    cam = cam
    gps = gps
    ServiceIDs <- MCServiceIDs
    DeviceNames <- MCDeviceNames
    Declared <- MCDeclared
    Substr <- MCSubstr
SPECIFICATION Spec
INVARIANT DeviceExclusive
