SPECIFICATION MCSpec
CONSTANTS
    UploadTokens = {u}
    AccessTokens = {a}
    IngestWorkers = {w}
    WebWorkers = {r}
    Unset = Unset
    None = None
    MaxOperations = 3
    MaxDump = 2
    ChunkSize = 2
    Transfer = 3
    Watchdog = 2
    MaxFileSize = 3
    MaxRequests = 1
    Uploads <- MCUploads
    MaxRecords = 3
    EventColumns = 2
    MaxBind = 5
INVARIANTS StorageLimitsAsDocumented
CHECK_DEADLOCK FALSE
