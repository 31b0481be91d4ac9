CONSTANTS
    MaxElevationDuration = 1
    OnlineRetention = 1
    ArchiveRetention = 2
    MaxTime = 3
    MaxDrafts = 4
    MaxExports = 2
    Workspace <- MCWorkspace
    Snapshot <- MCSnapshot
    Operations <- MCOperations

SPECIFICATION MCSpec
CHECK_DEADLOCK FALSE

INVARIANTS
    VerifiedIsHistory
    LifecyclesRecorded

PROPERTY DeletionsDue
