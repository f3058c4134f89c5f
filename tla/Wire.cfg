CONSTANTS
    DeviceId <- Id
    SnapshotStartOffset = 40
    Requests <- Asking
    Held <- Holding
    Texts <- Text
    DamagedAt = {1, 6, 8, 41}
    MaxRequests = 2
    MaxReports = 1
    MaxDamage = 1
    MaxRegister = 400
    Streams = {"up", "down"}
    Sizes = {1, 2}
    QueueDepth = 2
    MaxBytes = 3
    MaxRecords = 4
    MaxRestarts = 1
    Closed = Closed
    Images = {i1, i2}
    Partial <- PartName
    Together = {}
    Transfers = {t1, t2, t3}
    Pieces = 2
    MaxPieces = 2
    Nil = Nil
    i1 = i1  i2 = i2
SPECIFICATION PartsSpec
INVARIANTS PartsTypeOK ViewIsTrue OnlyAllowedWrites FramesAreUnderstood MapsFit FramesIntact WindowIsRecent 
PROPERTY RecordedInOrder
CHECK_DEADLOCK FALSE
