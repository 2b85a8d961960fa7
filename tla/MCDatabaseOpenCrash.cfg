CONSTANTS
    dbVersion = 5
    StoredVersions <- MCStoredVersions
    MaxSqlFailures = 1
    MaxCrashes = 1
SPECIFICATION Spec
PROPERTY DatabaseEventuallyOpens
CHECK_DEADLOCK FALSE
