\* The cycle of fraud_test.cpp, started from the least account or another.
SPECIFICATION RLSpec
CONSTANTS
    BucketCount = 2
    InitialUsers = 3
    InitialOwner <- mc_PlantedOwner
    Planned <- mc_PlantedTransfers
    Detectors <- mc_TestDetector
    MaxAccounts = 3
    MaxEvents = 3
INVARIANT
    PlantedCycleFlagged
CHECK_DEADLOCK FALSE
