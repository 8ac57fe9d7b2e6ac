SPECIFICATION RLSpec
CONSTANTS
    BucketCount = 2
    InitialUsers = 3
    InitialOwner <- mc_InitialOwner
    Planned <- mc_Planned
    Detectors <- mc_Detectors
    MaxAccounts = 3
    MaxEvents = 3
INVARIANTS
    LoadedIsGrouping
    LoginStatusAgrees
    SnapshotIsRegular
    FlaggedExactly
